---------------------------- MODULE MCAlgorithms ----------------------------
(* Instances of the pure operators: expressions of depth two, token strings of up  *)
(* to five, tables of up to three rows, stores of up to four writes, files of up   *)
(* to three records cut at every byte, client texts of up to six symbols.          *)
EXTENDS SqlCheck, StorageCheck, ProtocolCheck

CONSTANTS Keys      \* the integers that serve as primary keys

One == Literal(Int64(1))
A == Column(<<"a">>)
B == Column(<<"b">>)

-----------------------------------------------------------------------------
\* t(a INT, b BOOL) and u(u INT)
MCExprTables == <<[name |-> "t", alias |-> "", columns |-> <<"a", "b">>],
                  [name |-> "u", alias |-> "", columns |-> <<"u">>]>>
MCExprRows == {<<Int64(0), Bool(TRUE), Int64(1)>>, <<Int64(1), Bool(FALSE), Int64(1)>>}
Leaves == {A, Column(<<"t", "b">>), Column(<<"u">>), Literal(Bool(TRUE)), Literal(Null)}
Over(S, ops) == {Compare(op, l, r) : op \in ops, l \in S, r \in S}
                  \cup {And(l, r) : l \in S, r \in S} \cup {Or(l, r) : l \in S, r \in S}
                  \cup {Not(l) : l \in S}
Shallow == Leaves \cup Over(Leaves, {"=", "<"})
MCExprs == Shallow \cup Over(Leaves, CmpOps) \cup {Not(e) : e \in Shallow}
             \cup UNION {{Compare("=", e, x), And(e, x), And(x, e), Or(e, x), Or(x, e)} : e \in Shallow, x \in Leaves}

Letters == {"a", "b"}
MCRefs == {<<c>> : c \in Letters} \cup {<<q, c>> : q \in {"t", "u", "a"}, c \in Letters}
Froms == [name : {"t", "u"}, alias : {"", "u", "a"}, columns : {<<"a">>, <<"a", "b">>}]
MCContexts == {<<f>> : f \in Froms} \cup {<<f, g>> : f \in Froms, g \in Froms}

-----------------------------------------------------------------------------
Item(e) == [agg |-> FALSE, expr |-> e, alias |-> ""]
Agg(f, ref) == [agg |-> TRUE, expr |-> Column(DefaultAggResultName(f, ref)), alias |-> ""]
As(item, alias) == [item EXCEPT !.alias = alias]
Asc(ref) == [ref |-> ref, asc |-> TRUE]
Desc(ref) == [ref |-> ref, asc |-> FALSE]
From(alias) == [base |-> [name |-> "t", alias |-> alias], joins |-> <<>>]
CountStar == Agg("COUNT", <<"*">>)
HavingCount(op, e) == Compare(op, Column(CountStar.expr.ref), e)
Select(items, from, where, group, having, order, limit) ==
    [stmt |-> "select", items |-> items, from |-> from, where |-> where, group |-> group,
     having |-> having, order |-> order, limit |-> limit]

Printed == Over({A, Column(<<"t", "b">>), One}, {"<="})
Wheres == Printed \cup Over(Over({A, One}, {"="}), {"="})
Joined == [base |-> [name |-> "t", alias |-> ""],
           joins |-> <<[right |-> [name |-> "u", alias |-> "b"], on |-> Compare("=", A, B)]>>]
Def(n, t, pk) == [name |-> n, type |-> t, pk |-> pk]
MCStatements ==
    {[stmt |-> k] : k \in {"BEGIN", "COMMIT", "ABORT"}}
    \cup {[stmt |-> "create", table |-> "t", columns |-> c] :
             c \in {<<Def("a", "Int64", TRUE)>>, <<Def("a", "String", FALSE), Def("b", "Bool", TRUE)>>}}
    \cup {[stmt |-> "drop", table |-> "u", if_exists |-> x] : x \in BOOLEAN}
    \cup {[stmt |-> "add_column", table |-> "t", name |-> "b", type |-> "Bool", value |-> Bool(TRUE)],
          [stmt |-> "drop_column", table |-> "t", name |-> "b"]}
    \cup {[stmt |-> "insert", table |-> "t", columns |-> c, values |-> <<Int64(1), Null>>] :
             c \in {<<>>, <<"b", "a">>}}
    \cup {[stmt |-> "update", table |-> "t", where |-> w,
           sets |-> <<[name |-> "a", value |-> One], [name |-> "b", value |-> Or(A, Not(B))]>>] :
             w \in Printed \cup {NoExpr}}
    \cup {[stmt |-> "delete", table |-> "t", where |-> w] : w \in Wheres \cup {NoExpr}}
    \cup {Select(i, f, w, g, h, o, l) :
             i \in {<<>>, <<Item(Or(A, B)), As(Agg("SUM", <<"t", "a">>), "u")>>, <<CountStar>>},
             f \in {From(""), From("u"), Joined}, w \in {NoExpr, And(A, Or(B, One))},
             g \in {<<>>, <<<<"a">>, <<"t", "b">>>>}, h \in {NoExpr, HavingCount("<", One)},
             o \in {<<>>, <<Desc(<<"a">>), Asc(<<"t", "b">>)>>}, l \in {<<>>, <<1>>}}

Alphabet == {"a", "BEGIN", "=", "AND", "OR", "NOT", "(", ")"}
MCTexts == UNION {[1 .. n -> Alphabet] : n \in 0 .. 5}

-----------------------------------------------------------------------------
\* t(a INT PRIMARY KEY, b INT)
Cells == {-2, 1, 2}
Table(columns, rows) == [name |-> "t", columns |-> columns, pk |-> 1, rows |-> rows,
                         types |-> [i \in 1 .. Len(columns) |-> "Int64"]]
MCTables == {Table(<<"a", "b">>, {<<Int64(k), Int64(f[k])>> : k \in ks}) : ks \in SUBSET Keys, f \in [Keys -> Cells]}

Conditions == {NoExpr, Compare("=", One, A), Compare(">=", A, One), Compare(">", One, A),
               Compare("<", One, A), Compare("<=", Column(<<"u", "a">>), One), And(Not(Compare("=", B, One)), Compare("<", A, B)),
               Or(Compare("=", A, Literal(Null)), Compare("<", A, B)), Compare("=", Column(<<"t", "u">>), One)}
MCSelects ==
    {Select(i, From("u"), w, <<>>, NoExpr, o, l) :
        i \in {<<>>, <<Item(B)>>, <<As(Item(B), "a"), Item(Column(<<"u", "a">>))>>,
               <<As(Item(Compare("<", A, B)), "u"), Item(A)>>},
        w \in Conditions,
        o \in {<<>>, <<Asc(<<"b">>)>>, <<Desc(<<"u", "a">>)>>, <<Asc(<<"u">>), Desc(<<"a">>)>>},
        l \in {<<>>, <<0>>, <<2>>}}
    \cup {Select(i, From(""), w, g, h, o, l) :
        i \in {<<CountStar>>, <<As(Agg("SUM", <<"b">>), "u"), Item(B)>>,
               <<Item(B), Agg("MIN", <<"t", "a">>), Agg("AVG", <<"b">>)>>,
               <<Agg("MAX", <<"b">>), Agg("AVG", <<"b">>), Agg("MAX", <<"t", "b">>)>>},
        w \in {NoExpr, Compare(">=", A, One)}, g \in {<<>>, <<<<"b">>>>, <<<<"t", "a">>, <<"b">>>>},
        h \in {NoExpr, HavingCount("=", One), Compare("<", Column(<<"SUM", "(", "t", "b">>), Column(<<"t", "b">>))},
        o \in {<<>>, <<Desc(<<"b">>)>>}, l \in {<<>>, <<1>>}}

\* t(a INT PRIMARY KEY, b INT, u INT)
MCWideTables ==
    {Table(<<"a", "b", "u">>, {<<Int64(k), Int64(f[k]), Int64(1)>> : k \in ks}) :
        ks \in SUBSET Keys, f \in [Keys -> {0, 1, 2}]}
Set(n, e) == [name |-> n, value |-> e]
MCWrites ==
    {[stmt |-> "delete", table |-> "t", where |-> w] : w \in Conditions}
    \cup {[stmt |-> "update", table |-> "t", where |-> w, sets |-> s] :
             w \in Conditions,
             s \in {<<Set("b", One)>>, <<Set("b", Column(<<"u">>)), Set("u", B)>>, <<Set("a", B), Set("u", B)>>,
                    <<Set("u", Compare("=", A, B))>>, <<Set("b", A), Set("t", One)>>}}
    \cup {[stmt |-> "insert", table |-> "t", columns |-> c, values |-> v, where |-> NoExpr] :
             c \in {<<>>, <<"u", "b", "a">>, <<"u", "b">>, <<"a", "a", "b">>},
             v \in {<<Int64(1), Int64(2), Int64(0)>>, <<Int64(2), Null, Int64(1)>>, <<Int64(5), Int64(6)>>}}

-----------------------------------------------------------------------------
\* The second user key continues the first one.
MCUsers == <<<<1>>, <<1, 1>>, <<2>>>>
WriteSets(n, users) == UNION {[1 .. k -> [user : users, type : {kTypeDeletion, kTypeValue}]] : k \in 0 .. n}
\* Blocks of one entry, of about two, and one block for all.
Options == {[size |-> 10, interval |-> 2], [size |-> 40, interval |-> 2], [size |-> 1000, interval |-> 1]}
MCStores == {[writes |-> w, heights |-> h, opt |-> o] :
                w \in WriteSets(4, 1 .. 3), h \in {<<1, 2, 1, 3>>, <<3, 1, 2, 2>>},
                o \in Options}
Sound == [table |-> 1, blocks |-> {}]
MCScans == {[writes |-> w, cuts |-> c, opt |-> [size |-> 10, interval |-> 2], bad |-> b] :
               w \in [1 .. 4 -> [user : {1, 3}, type : {kTypeDeletion, kTypeValue}]],
               c \in {<<1, 2>>, <<1, 3>>, <<2, 3>>, <<2, 4>>, <<0, 3>>},
               b \in {Sound} \cup [table : {1, 2}, blocks : {{0}, {1}, {2}}]}

Bytes(n) == [i \in 1 .. n |-> i % 256]
Batch(seq, key, value) == [seq |-> seq, entries |-> <<[type |-> 1, key |-> key, value |-> value]>>]
SmallBatches == <<Batch(1, <<7>>, <<>>), Batch(2, <<>>, <<8, 9>>), Batch(300, <<7>>, <<1>>)>>
MCLogs == {SmallBatches, <<>>, <<Batch(1, Bytes(127), Bytes(128))>>}

File(level, n, user) == [level |-> level, number |-> n, size |-> 130,
                         smallest |-> MakeInternalKey(user, n, 1), largest |-> MakeInternalKey(user, 1, 1)]
Rotate(n) == [NoEdit EXCEPT !.log = <<n>>]
Flush(n, user) == [NoEdit EXCEPT !.last = <<n>>, !.added = <<File(0, n, user)>>]
Compact(dead, below, n, user) ==
    [NoEdit EXCEPT !.deleted = <<[level |-> 0, number |-> dead]>> \o below, !.added = <<File(1, n, user)>>]
Opened == [NoEdit EXCEPT !.next = <<128>>, !.log = <<3>>]
MCEdits == {<<Opened, Rotate(5), Flush(4, <<2>>), Compact(4, <<>>, 6, <<2>>), Flush(129, <<1>>), Flush(130, <<3>>),
              Compact(129, <<>>, 131, <<1>>)>>,
            <<Flush(4, <<2>>), Flush(4, <<2>>), Compact(4, <<>>, 4, <<2>>),
              Compact(9, <<[level |-> 1, number |-> 4]>>, 4, <<2>>)>>}

-----------------------------------------------------------------------------
Values == {Null, Int64(0), Int64(-1), Int64(47), Int64(300), Bool(TRUE), Bool(FALSE), String(<<>>),
           String(<<47>>), String(<<1, 255>>)}
Columns2(c) == {<<[name |-> <<97>>, type |-> "Int64", pk |-> TRUE], c>>, <<c>>}
Schemas == [name : {<<116>>, Bytes(130)},
            columns : UNION {Columns2([name |-> n, type |-> t, pk |-> p]) :
                                n \in {<<97>>, <<98>>}, t \in {"Int64", "String", "Bool", "Null"}, p \in BOOLEAN}]
MCRecords ==
    {[op |-> "row", x |-> r] : r \in UNION {[1 .. n -> Values] : n \in 0 .. 2}}
    \cup {[op |-> "schema", x |-> t] : t \in {t \in Schemas : Validate(t)}}
    \cup {[op |-> "version", x |-> [numbers |-> <<1, s, e, 0, 300>>, is_tombstone |-> p = <<>>, payload |-> p]] :
              s \in {0, 5}, e \in {0, 70000}, p \in {<<>>, <<1, 0>>, Bytes(128)}}
    \cup {[op |-> "meta", x |-> [state |-> s, commit_ts |-> ts, writes |-> w]] :
              s \in 1 .. 4, ts \in {0, 9},
              w \in UNION {[1 .. n -> [table : {<<116>>}, pk : {Int64(-1), String(<<47>>)}, version_id : {2, 257}]] :
                              n \in 0 .. 2}}
MCRowKeys == [table : {<<116>>, <<116, 116>>}, pk : {Int64(47), Bool(TRUE), String(<<>>), String(<<47, 47>>)},
              id : {1, 47, 12079}]

-----------------------------------------------------------------------------
\* Strings with every escape and text that looks like one.
Strings == UNION {[1 .. n -> {"x", "n", "\\", "LF", "CR", "CTL"}] : n \in 0 .. 3}
Cell(t, v) == [type |-> t, v |-> v]
Result(names, rows, n, plan) == [names |-> names, rows |-> rows, affected |-> n, plan |-> plan]
MCResults ==
    {Result(<<>>, <<>>, n, <<>>) : n \in 0 .. 3}
    \cup {Result(<<<<"x">>>>, <<<<Cell("String", s)>>>>, 0, p) : s \in Strings, p \in {<<>>, <<"p">>}}
    \cup {Result(<<<<"x">>, <<"y">>>>, r, 0, <<>>) :
              r \in UNION {[1 .. n -> {<<Cell("Int64", <<"2">>), Cell("Null", <<>>)>>,
                                       <<Cell("String", <<"*END">>), Cell("Bool", <<"0">>)>>}] : n \in 0 .. 2}}
MCClientTexts == UNION {[1 .. n -> {"x", "'", ";", "LF", " ", "CR"}] : n \in 0 .. 5}
                   \cup [1 .. 6 -> {"x", "'", ";", "LF"}]

-----------------------------------------------------------------------------
Init == StorageInit \/ ProtocolInit \/ SqlInit
Next == SqlNext \/ StorageNext \/ ProtocolNext \/ Finished
Spec == Init /\ [][Next]_vars
=============================================================================
