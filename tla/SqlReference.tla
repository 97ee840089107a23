---------------------------- MODULE SqlReference ----------------------------
(***************************************************************************)
(* What SQL text and statements mean, said without the code: a printer and *)
(* an ambiguous grammar for the parser, relational definitions for the     *)
(* statements.  SqlCheck compares the code's operators with these.         *)
(***************************************************************************)
EXTENDS SqlSession
LOCAL INSTANCE FiniteSetsExt

-----------------------------------------------------------------------------
\* Text.  Unparse(e, l) has parentheses only where binding strength l asks for them:
\* 1 OR, 2 AND, 3 NOT, 4 comparison, 5 operand; AND and OR associate to the left.
Level(e) == CASE e.kind = "or" -> 1 [] e.kind = "and" -> 2 [] e.kind = "not" -> 3
              [] e.kind = "compare" -> 4 [] OTHER -> 5

PrintValue(x) == CASE x = Int64(1) -> Integer [] x.type = "String" -> StringTok
                   [] x = Bool(TRUE) -> "TRUE" [] x = Bool(FALSE) -> "FALSE" [] IsNull(x) -> "NULL"
PrintRef(ref) == IF Len(ref) = 2 THEN <<ref[1], ".", ref[2]>> ELSE ref
PrintColumn(ref) == IF IsAggName(ref) THEN <<ref[1], "(">> \o PrintRef(AggArg(ref)) \o <<")">>
                    ELSE PrintRef(ref)

RECURSIVE Unparse(_, _)
Unparse(e, l) ==
    LET text == CASE e.kind = "or" -> Unparse(e.left, 1) \o <<"OR">> \o Unparse(e.right, 2)
                  [] e.kind = "and" -> Unparse(e.left, 2) \o <<"AND">> \o Unparse(e.right, 3)
                  [] e.kind = "not" -> <<"NOT">> \o Unparse(e.left, 3)
                  [] e.kind = "compare" -> Unparse(e.left, 5) \o <<e.op>> \o Unparse(e.right, 5)
                  [] e.kind = "column" -> PrintColumn(e.ref)
                  [] OTHER -> <<PrintValue(e.value)>>
    IN  IF Level(e) < l THEN <<"(">> \o text \o <<")">> ELSE text

RECURSIVE Commas(_)
Commas(texts) == IF Len(texts) < 2 THEN (IF texts = <<>> THEN <<>> ELSE texts[1])
                 ELSE texts[1] \o <<",">> \o Commas(Tail(texts))
Clause(k, e) == IF e = NoExpr THEN <<>> ELSE <<k>> \o Unparse(e, 1)
ByClause(k, texts) == IF texts = <<>> THEN <<>> ELSE <<k, "BY">> \o Commas(texts)
Named(alias) == IF alias = "" THEN <<>> ELSE <<"AS", alias>>
TypeName(t) == CASE t = "Int64" -> "INT" [] t = "String" -> "TEXT" [] t = "Bool" -> "BOOL"

PrintFrom(from) ==
    LET join[i \in 0 .. Len(from.joins)] ==
            IF i = 0 THEN <<from.base.name>> \o Named(from.base.alias)
            ELSE join[i - 1] \o <<"INNER", "JOIN", from.joins[i].right.name>>
                 \o Named(from.joins[i].right.alias) \o <<"ON">> \o Unparse(from.joins[i].on, 1)
    IN  join[Len(from.joins)]

PrintStmt(s) ==
    CASE s.stmt \in {"BEGIN", "COMMIT", "ABORT"} -> <<s.stmt>>
      [] s.stmt = "create" ->
             <<"CREATE", "TABLE", s.table, "(">>
             \o Commas(Seq2(s.columns, LAMBDA c : <<c.name, TypeName(c.type)>>
                                                  \o (IF c.pk THEN <<"PRIMARY", "KEY">> ELSE <<>>)))
             \o <<")">>
      [] s.stmt = "drop" ->
             <<"DROP", "TABLE">> \o (IF s.if_exists THEN <<"IF", "EXISTS">> ELSE <<>>) \o <<s.table>>
      [] s.stmt = "add_column" ->
             <<"ALTER", "TABLE", s.table, "ADD", "COLUMN", s.name, TypeName(s.type), "DEFAULT",
               PrintValue(s.value)>>
      [] s.stmt = "drop_column" -> <<"ALTER", "TABLE", s.table, "DROP", "COLUMN", s.name>>
      [] s.stmt = "insert" ->
             <<"INSERT", "INTO", s.table>>
             \o (IF s.columns = <<>> THEN <<>>
                 ELSE <<"(">> \o Commas(Seq2(s.columns, LAMBDA c : <<c>>)) \o <<")">>)
             \o <<"VALUES", "(">> \o Commas(Seq2(s.values, LAMBDA x : <<PrintValue(x)>>)) \o <<")">>
      [] s.stmt = "update" ->
             <<"UPDATE", s.table, "SET">>
             \o Commas(Seq2(s.sets, LAMBDA a : <<a.name, "=">> \o Unparse(a.value, 1)))
             \o Clause("WHERE", s.where)
      [] s.stmt = "delete" -> <<"DELETE", "FROM", s.table>> \o Clause("WHERE", s.where)
      [] s.stmt = "select" ->
             <<"SELECT">>
             \o (IF s.items = <<>> THEN <<"*">>
                 ELSE Commas(Seq2(s.items, LAMBDA it : Unparse(it.expr, 1) \o Named(it.alias))))
             \o <<"FROM">> \o PrintFrom(s.from) \o Clause("WHERE", s.where)
             \o ByClause("GROUP", Seq2(s.group, PrintRef)) \o Clause("HAVING", s.having)
             \o ByClause("ORDER", Seq2(s.order, LAMBDA o : PrintRef(o.ref)
                                                           \o (IF o.asc THEN <<>> ELSE <<"DESC">>)))
             \o (IF s.limit = <<>> THEN <<>> ELSE <<"LIMIT", Integer>>)

\* The language of expressions: E -> P | P cmp P | NOT E | E AND E | E OR E and
\* P -> name | literal | ( E ).
RECURSIVE IsE(_)
IsP(s) == \/ Len(s) = 1 /\ s[1] \in Idents \cup Literals
          \/ Len(s) > 2 /\ s[1] = "(" /\ s[Len(s)] = ")" /\ IsE(SubSeq(s, 2, Len(s) - 1))
IsE(s) ==
    LET before(i) == SubSeq(s, 1, i - 1)
        after(i) == SubSeq(s, i + 1, Len(s))
    IN  /\ s # <<>>
        /\ \/ IsP(s)
           \/ s[1] = "NOT" /\ IsE(Tail(s))
           \/ \E i \in 1 .. Len(s) : s[i] \in CmpOps /\ IsP(before(i)) /\ IsP(after(i))
           \/ \E i \in 1 .. Len(s) : s[i] \in {"AND", "OR"} /\ IsE(before(i)) /\ IsE(after(i))

-----------------------------------------------------------------------------
\* Statements over a table whose keys are integers.
Pk(table, row) == row[table.pk].v[1]
Selected(table, alias, where) ==
    {row \in table.rows : where = NoExpr \/ Truth(Context(table, alias), where, row) = 2}
Count(n, P(_)) == Cardinality({i \in 1 .. n : P(i)})
First(s) == CHOOSE i \in s : \A j \in s : i <= j

\* The cell of the table a reference names; 0 if there is none.
CellOf(table, alias, ref) ==
    LET c == CellsNamed(Context(table, alias), ref, table.columns)
    IN  IF Cardinality(c) = 1 THEN CHOOSE i \in c : TRUE ELSE 0
CellsExist(table, alias, e) == \A r \in Columns(e) : CellOf(table, alias, r) # 0

\* Where ORDER BY finds a reference among the outputs: a label, else an unnamed
\* output of that very column; 0 if nowhere.
OrderPosition(table, stmt, ref) ==
    LET alias == stmt.from.base.alias
        cell == CellOf(table, alias, ref)
        label(it) == IF it.alias # "" THEN <<it.alias>>
                     ELSE IF it.expr.kind # "column" THEN Expression
                     ELSE IF it.agg THEN Canonical(table, it.expr.ref)
                     ELSE <<table.columns[CellOf(table, alias, it.expr.ref)]>>
        labelled == {i \in 1 .. Len(stmt.items) : label(stmt.items[i]) = ref}
        same == {i \in 1 .. Len(stmt.items) :
                    LET it == stmt.items[i]
                    IN  /\ ~it.agg /\ it.alias = "" /\ it.expr.kind = "column"
                        /\ cell # 0 /\ CellOf(table, alias, it.expr.ref) = cell}
    IN  IF stmt.items = <<>> THEN cell
        ELSE IF labelled # {} THEN First(labelled) ELSE IF same # {} THEN First(same) ELSE 0

OrderBefore(table, stmt, r, s) ==
    \E k \in 1 .. Len(stmt.order) :
        LET at(i) == OrderPosition(table, stmt, stmt.order[i].ref)
            less(x, y) == Truth(<<>>, Compare("<", Literal(x), Literal(y)), <<>>) = 2
        IN  /\ \A i \in 1 .. k - 1 : r[at(i)] = s[at(i)]
            /\ IF stmt.order[k].asc THEN less(r[at(k)], s[at(k)]) ELSE less(s[at(k)], r[at(k)])

\* The value of an aggregate over a set of rows.
Sum(table, cell, rows) == MapThenSumSet(LAMBDA r : r[cell].v[1], rows)
AggValue(table, alias, ref, rows) ==
    LET f == ref[1]
        cell == CellOf(table, alias, AggArg(ref))
        values == {r[cell].v[1] : r \in rows}
        sum == Sum(table, cell, rows)
        n == Cardinality(rows)
        near(q) == LET d == sum - q * n IN d * sum >= 0 /\ d < n /\ -d < n
    IN  CASE f = "COUNT" -> Int64(n)
          [] rows = {} -> Null
          [] f = "SUM" -> Int64(sum)
          [] f = "AVG" -> Int64(CHOOSE q \in -Int64Max - 1 .. Int64Max : near(q))
          [] f = "MIN" -> Int64(CHOOSE x \in values : \A y \in values : x <= y)
          [] f = "MAX" -> Int64(CHOOSE x \in values : \A y \in values : x >= y)

\* SUM and AVG are refused when a running total, in key order, leaves the range.
InRange(table, alias, ref, rows) ==
    ref[1] \in {"SUM", "AVG"} =>
        \A r \in rows :
            LET total == Sum(table, CellOf(table, alias, AggArg(ref)),
                             {s \in rows : Pk(table, s) <= Pk(table, r)})
            IN  -Int64Max - 1 <= total /\ total <= Int64Max

\* An expression with each column replaced by the value f gives it.
RECURSIVE Subst(_, _)
Subst(e, f) ==
    CASE e.kind = "column" -> Literal(f[e.ref])
      [] e.kind = "not" -> Not(Subst(e.left, f))
      [] e.kind = "literal" -> e
      [] OTHER -> [e EXCEPT !.left = Subst(@, f), !.right = Subst(@, f)]

Grouped(stmt) == stmt.group # <<>> \/ \E i \in 1 .. Len(stmt.items) : stmt.items[i].agg

\* The groups of a SELECT: the sets of selected rows that agree on the GROUP BY
\* columns; without GROUP BY there is one, empty or not.
Groups(table, stmt) ==
    LET alias == stmt.from.base.alias
        rows == Selected(table, alias, stmt.where)
        key(r) == Seq2(stmt.group, LAMBDA g : r[CellOf(table, alias, g)])
    IN  IF stmt.group = <<>> THEN {rows} ELSE {{r \in rows : key(r) = key(s)} : s \in rows}

\* What a column name of the select list or of HAVING is for a group.
GroupValue(table, alias, ref, rows) ==
    IF IsAggName(ref) THEN AggValue(table, alias, ref, rows)
    ELSE (CHOOSE r \in rows : TRUE)[CellOf(table, alias, ref)]

\* Statements that must be refused, whatever the rows.
WellFormed(table, stmt) ==
    LET alias == stmt.from.base.alias
        grouped(ref) == \E i \in 1 .. Len(stmt.group) :
                            CellOf(table, alias, stmt.group[i]) = CellOf(table, alias, ref)
        known(ref) == IF IsAggName(ref)
                      THEN AggArg(ref) = <<"*">> \/ CellOf(table, alias, AggArg(ref)) # 0
                      ELSE CellOf(table, alias, ref) # 0 /\ (Grouped(stmt) => grouped(ref))
    IN  /\ stmt.from.joins = <<>>
        /\ stmt.where # NoExpr => CellsExist(table, alias, stmt.where)
        /\ \A i \in 1 .. Len(stmt.items) :
               /\ \A ref \in Columns(stmt.items[i].expr) : known(ref)
               /\ Grouped(stmt) => stmt.items[i].expr.kind = "column"
        /\ stmt.having # NoExpr => Grouped(stmt) /\ \A ref \in Columns(stmt.having) : known(ref)
        /\ Grouped(stmt) => stmt.items # <<>>
        /\ \A i \in 1 .. Len(stmt.group) : CellOf(table, alias, stmt.group[i]) # 0
        /\ \A i, j \in 1 .. Len(stmt.group) :
               i # j => CellOf(table, alias, stmt.group[i]) # CellOf(table, alias, stmt.group[j])
        /\ \A i \in 1 .. Len(stmt.order) : OrderPosition(table, stmt, stmt.order[i].ref) # 0

\* No aggregate of the statement overflows in any group.
SumsFit(table, stmt) ==
    Grouped(stmt) =>
        \A g \in Groups(table, stmt) :
            \A ref \in Columns(stmt.having) \cup UNION {Columns(stmt.items[i].expr) : i \in 1 .. Len(stmt.items)} :
                IsAggName(ref) => InRange(table, stmt.from.base.alias, ref, g)

\* The sources of the result, each with the row it contributes: rows of the table,
\* or groups that satisfy HAVING.
Sources(table, stmt) ==
    IF ~Grouped(stmt) THEN Selected(table, stmt.from.base.alias, stmt.where)
    ELSE LET value(ref, g) == GroupValue(table, stmt.from.base.alias, ref, g)
         IN  {g \in Groups(table, stmt) :
                 stmt.having # NoExpr =>
                     Truth(<<>>, Subst(stmt.having, [ref \in Columns(stmt.having) |-> value(ref, g)]),
                           <<>>) = 2}

OutputRow(table, stmt, src) ==
    LET alias == stmt.from.base.alias
        cell(e) == LET t == Truth(Context(table, alias), e, src)
                   IN  IF e.kind \in {"literal", "column"} THEN Operand(Context(table, alias), e, src)
                       ELSE IF t = 1 THEN Null ELSE Bool(t = 2)
    IN  IF stmt.items = <<>> THEN src
        ELSE IF Grouped(stmt)
        THEN Seq2(stmt.items, LAMBDA it : GroupValue(table, alias, it.expr.ref, src))
        ELSE Seq2(stmt.items, LAMBDA it : cell(it.expr))
=============================================================================
