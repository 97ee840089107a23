------------------------------ MODULE SqlParser ------------------------------
(***************************************************************************)
(* The recursive-descent parser of sql_parser.cpp, from tokens to          *)
(* statements.  A token is a string; identifiers and literals are members  *)
(* of small sets, every other string is a keyword or punctuation, and Bad  *)
(* is input that the lexer rejects.  A parse answers [ok, p, x]: the       *)
(* position of the token after what was read, and the tree.                *)
(***************************************************************************)
EXTENDS SqlExpr

Idents == {"a", "b", "t", "u"}
Integer == "1"
StringTok == "'s'"
Bad == "?"

LiteralOf(tok) ==
    CASE tok = Integer -> Int64(1) [] tok = StringTok -> String(<<7>>)
      [] tok = "TRUE" -> Bool(TRUE) [] tok = "FALSE" -> Bool(FALSE) [] tok = "NULL" -> Null
Literals == {Integer, StringTok, "TRUE", "FALSE", "NULL"}
AggFuncs == {"COUNT", "SUM", "AVG", "MIN", "MAX"}

\* Lexer::NextToken: input it cannot read is a token of kind kEof, so the tokens of
\* a text end there.
Lex(text) ==
    LET ends == {i \in 1 .. Len(text) : text[i] = Bad}
    IN  IF ends = {} THEN text ELSE SubSeq(text, 1, (CHOOSE i \in ends : \A j \in ends : i <= j) - 1)

Cur(ts, p) == IF p <= Len(ts) THEN ts[p] ELSE "eof"
Done(p, x) == [ok |-> TRUE, p |-> p, x |-> x]
\* A failed parse; no text has a token at its position.
Fail == [ok |-> FALSE, p |-> 1000, x |-> <<>>]

\* Lexer::Match: the position after tok if it is the current token.
Skip(ts, p, tok) == IF Cur(ts, p) = tok THEN p + 1 ELSE p

\* Lexer::Expect for several tokens, then a continuation.
Expect(ts, p, toks) == \A i \in 1 .. Len(toks) : Cur(ts, p + i - 1) = toks[i]

\* Lexer::Expect after a parse.
Take(ts, r, tok) == IF r.ok /\ Cur(ts, r.p) = tok THEN Done(r.p + 1, r.x) ELSE Fail

\* The rest of a parse after its first part; the code returns on the first failure.
Then(r, Rest(_)) == IF r.ok THEN Rest(r) ELSE Fail

\* The loops `for (;;) { item; if (Match(kComma)) continue; break; }'.
CommaList(ts, start, Item(_)) ==
    LET list[p \in 1 .. Len(ts) + 1] ==
            Then(Item(p), LAMBDA r :
                IF Cur(ts, r.p) # "," THEN Done(r.p, <<r.x>>)
                ELSE Then(list[r.p + 1], LAMBDA l : Done(l.p, <<r.x>> \o l.x)))
    IN  IF start > Len(ts) + 1 THEN Fail ELSE list[start]

ParseIdent(ts, p) == IF Cur(ts, p) \in Idents THEN Done(p + 1, Cur(ts, p)) ELSE Fail

ParseColumnRef(ts, p) ==
    IF Cur(ts, p) \notin Idents THEN Fail
    ELSE IF Cur(ts, p + 1) # "." THEN Done(p + 1, <<Cur(ts, p)>>)
    ELSE IF Cur(ts, p + 2) \in Idents THEN Done(p + 3, <<Cur(ts, p), Cur(ts, p + 2)>>)
    ELSE Fail

ParseLiteralValue(ts, p) ==
    IF Cur(ts, p) \in Literals THEN Done(p + 1, LiteralOf(Cur(ts, p))) ELSE Fail

\* agg_func '(' ( '*' | column_ref ) ')' from the function's token on; the result
\* names the aggregate's output column (DefaultAggResultName): <<f, "(", ...>>.
DefaultAggResultName(f, ref) == <<f, "(">> \o ref
ParseAggCall(ts, p) ==
    LET arg == IF Cur(ts, p + 2) # "*" THEN ParseColumnRef(ts, p + 2)
               ELSE IF Cur(ts, p) = "COUNT" THEN Done(p + 3, <<"*">>) ELSE Fail
    IN  IF Cur(ts, p + 1) # "(" THEN Fail
        ELSE Then(Take(ts, arg, ")"), LAMBDA a : Done(a.p, DefaultAggResultName(Cur(ts, p), a.x)))

-----------------------------------------------------------------------------
\* Expressions; h is having_context_.
RECURSIVE ParseOr(_, _, _), OrRest(_, _, _), ParseAnd(_, _, _), AndRest(_, _, _),
          ParseNot(_, _, _), ParseCmp(_, _, _), ParsePrimary(_, _, _)

ParseOr(ts, p, h) == OrRest(ts, ParseAnd(ts, p, h), h)
OrRest(ts, left, h) ==
    IF ~left.ok \/ Cur(ts, left.p) # "OR" THEN left
    ELSE Then(ParseAnd(ts, left.p + 1, h), LAMBDA right : OrRest(ts, Done(right.p, Or(left.x, right.x)), h))

\* Mutant: the right operand of AND may be a whole OR expression.
ParseAndLoose(ts, p, h) ==
    Then(ParseNot(ts, p, h), LAMBDA left :
        IF Cur(ts, left.p) # "AND" THEN left
        ELSE Then(ParseOr(ts, left.p + 1, h), LAMBDA right : Done(right.p, And(left.x, right.x))))

ParseAnd(ts, p, h) == AndRest(ts, ParseNot(ts, p, h), h)
AndRest(ts, left, h) ==
    IF ~left.ok \/ Cur(ts, left.p) # "AND" THEN left
    ELSE Then(ParseNot(ts, left.p + 1, h), LAMBDA right : AndRest(ts, Done(right.p, And(left.x, right.x)), h))

ParseNot(ts, p, h) ==
    IF Cur(ts, p) # "NOT" THEN ParseCmp(ts, p, h)
    ELSE Then(ParseNot(ts, p + 1, h), LAMBDA e : Done(e.p, Not(e.x)))

ParseCmp(ts, p, h) ==
    Then(ParsePrimary(ts, p, h), LAMBDA left :
        IF Cur(ts, left.p) \notin CmpOps THEN left
        ELSE Then(ParsePrimary(ts, left.p + 1, h), LAMBDA right :
                 Done(right.p, Compare(Cur(ts, left.p), left.x, right.x))))

ParsePrimary(ts, p, h) ==
    CASE Cur(ts, p) = "(" -> Take(ts, ParseOr(ts, p + 1, h), ")")
      [] h /\ Cur(ts, p) \in AggFuncs -> Then(ParseAggCall(ts, p), LAMBDA a : Done(a.p, Column(a.x)))
      [] Cur(ts, p) \in Literals -> Done(p + 1, Literal(LiteralOf(Cur(ts, p))))
      [] Cur(ts, p) \in Idents -> Then(ParseColumnRef(ts, p), LAMBDA r : Done(r.p, Column(r.x)))
      [] OTHER -> Fail

ParseExpr(ts, p) == ParseOr(ts, p, FALSE)

\* An optional clause: after keyword k an item, else the default.
Optional(ts, p, k, Item(_), default) ==
    IF Cur(ts, p) = k THEN Item(p + 1) ELSE Done(p, default)
NoExpr == [kind |-> "none"]
Where(ts, p) == Optional(ts, p, "WHERE", LAMBDA q : ParseExpr(ts, q), NoExpr)

-----------------------------------------------------------------------------
\* Statements.
ParseColumnType(ts, p) ==
    CASE Cur(ts, p) \in {"INT", "INTEGER"} -> Done(p + 1, "Int64")
      [] Cur(ts, p) \in {"TEXT", "STRING"} -> Done(p + 1, "String")
      [] Cur(ts, p) \in {"BOOL", "BOOLEAN"} -> Done(p + 1, "Bool")
      [] OTHER -> Fail

ParseColumnDef(ts, p) ==
    IF ~ParseIdent(ts, p).ok THEN Fail
    ELSE Then(ParseColumnType(ts, p + 1), LAMBDA type :
             IF Cur(ts, type.p) # "PRIMARY" THEN Done(type.p, [name |-> Cur(ts, p), type |-> type.x, pk |-> FALSE])
             ELSE IF Cur(ts, type.p + 1) # "KEY" THEN Fail
             ELSE Done(type.p + 2, [name |-> Cur(ts, p), type |-> type.x, pk |-> TRUE]))

\* p is the position after the statement's first keyword in what follows.
ParseCreateTable(ts, p) ==
    IF ~(Cur(ts, p) = "TABLE" /\ ParseIdent(ts, p + 1).ok /\ Cur(ts, p + 2) = "(") THEN Fail
    ELSE Then(Take(ts, CommaList(ts, p + 3, LAMBDA q : ParseColumnDef(ts, q)), ")"), LAMBDA cols :
             IF Cardinality({i \in 1 .. Len(cols.x) : cols.x[i].pk}) # 1 THEN Fail
             ELSE Done(cols.p, [stmt |-> "create", table |-> Cur(ts, p + 1), columns |-> cols.x]))

ParseDropTable(ts, p) ==
    LET if_exists == Cur(ts, p + 1) = "IF"
        q == IF if_exists THEN p + 3 ELSE p + 1
    IN  IF /\ Cur(ts, p) = "TABLE" /\ (if_exists => Cur(ts, p + 2) = "EXISTS")
           /\ ParseIdent(ts, q).ok
        THEN Done(q + 1, [stmt |-> "drop", table |-> Cur(ts, q), if_exists |-> if_exists])
        ELSE Fail

ParseAlterTable(ts, p) ==
    CASE ~(/\ Cur(ts, p) = "TABLE" /\ ParseIdent(ts, p + 1).ok
           /\ Cur(ts, p + 3) = "COLUMN" /\ ParseIdent(ts, p + 4).ok) -> Fail
      [] Cur(ts, p + 2) = "DROP" ->
             Done(p + 5, [stmt |-> "drop_column", table |-> Cur(ts, p + 1), name |-> Cur(ts, p + 4)])
      [] Cur(ts, p + 2) = "ADD" ->
             Then(Take(ts, ParseColumnType(ts, p + 5), "DEFAULT"), LAMBDA type :
                 Then(ParseLiteralValue(ts, type.p), LAMBDA dflt :
                     Done(dflt.p, [stmt |-> "add_column", table |-> Cur(ts, p + 1), name |-> Cur(ts, p + 4),
                                   type |-> type.x, value |-> dflt.x])))
      [] OTHER -> Fail

ParseInsert(ts, p) ==
    IF ~(Cur(ts, p) = "INTO" /\ ParseIdent(ts, p + 1).ok) THEN Fail
    ELSE Then(IF Cur(ts, p + 2) # "(" THEN Done(p + 2, <<>>)
              ELSE Take(ts, CommaList(ts, p + 3, LAMBDA q : ParseIdent(ts, q)), ")"), LAMBDA names :
         IF ~Expect(ts, names.p, <<"VALUES", "(">>) THEN Fail
         ELSE Then(Take(ts, CommaList(ts, names.p + 2, LAMBDA q : ParseLiteralValue(ts, q)), ")"), LAMBDA values :
              IF Cur(ts, values.p) = "," \/ (names.x # <<>> /\ Len(names.x) # Len(values.x)) THEN Fail
              ELSE Done(values.p, [stmt |-> "insert", table |-> Cur(ts, p + 1),
                                   columns |-> names.x, values |-> values.x])))

\* ParseSelectItem: [agg, expr, alias]; an aggregate is a column named after it.
ParseSelectItem(ts, p) ==
    LET agg == Cur(ts, p) \in AggFuncs
    IN  Then(IF agg THEN Then(ParseAggCall(ts, p), LAMBDA a : Done(a.p, Column(a.x))) ELSE ParseExpr(ts, p), LAMBDA e :
            Then(Optional(ts, e.p, "AS", LAMBDA q : ParseIdent(ts, q), ""), LAMBDA alias :
                Done(alias.p, [agg |-> agg, expr |-> e.x, alias |-> alias.x])))

\* name [ [ AS ] alias ]
ParseFromItem(ts, p) ==
    LET q == Skip(ts, p + 1, "AS")
        named == Cur(ts, q) \in Idents
    IN  IF ~ParseIdent(ts, p).ok \/ (q = p + 2 /\ ~named) THEN Fail
        ELSE Done(IF named THEN q + 1 ELSE q,
                  [name |-> Cur(ts, p), alias |-> IF named THEN Cur(ts, q) ELSE ""])

\* from_item ( INNER JOIN from_item ON expr )*; other joins are refused.
ParseFromClause(ts, p) ==
    LET joins[q \in 1 .. Len(ts) + 1] ==
            CASE Cur(ts, q) \in {",", "LEFT", "RIGHT", "FULL", "CROSS", "OUTER", "JOIN"} -> Fail
              [] Cur(ts, q) = "INNER" ->
                     IF Cur(ts, q + 1) # "JOIN" THEN Fail
                     ELSE Then(Take(ts, ParseFromItem(ts, q + 2), "ON"), LAMBDA right :
                              Then(ParseExpr(ts, right.p), LAMBDA on :
                                  Then(joins[on.p], LAMBDA l : Done(l.p, <<[right |-> right.x, on |-> on.x]>> \o l.x))))
              [] OTHER -> Done(q, <<>>)
    IN  Then(ParseFromItem(ts, p), LAMBDA base :
            Then(joins[base.p], LAMBDA l : Done(l.p, [base |-> base.x, joins |-> l.x])))

ParseOrderItem(ts, p) ==
    Then(ParseColumnRef(ts, p), LAMBDA ref :
        Done(IF Cur(ts, ref.p) \in {"ASC", "DESC"} THEN ref.p + 1 ELSE ref.p,
             [ref |-> ref.x, asc |-> Cur(ts, ref.p) # "DESC"]))

\* GROUP and ORDER need BY.
ByList(ts, p, k, Item(_)) ==
    IF Cur(ts, p) # k THEN Done(p, <<>>)
    ELSE IF Cur(ts, p + 1) = "BY" THEN CommaList(ts, p + 2, Item) ELSE Fail

ParseLimit(ts, p) ==
    CASE Cur(ts, p) # "LIMIT" -> Done(p, <<>>)
      [] Cur(ts, p + 1) = Integer -> Done(p + 2, <<1>>)
      [] OTHER -> Fail

ParseSelect(ts, p) ==
    LET items == IF Cur(ts, p) = "*" THEN Done(p + 1, <<>>)
                 ELSE CommaList(ts, p, LAMBDA q : ParseSelectItem(ts, q))
    IN  Then(Take(ts, items, "FROM"), LAMBDA i :
        Then(ParseFromClause(ts, i.p), LAMBDA from :
        Then(Where(ts, from.p), LAMBDA where :
        Then(ByList(ts, where.p, "GROUP", LAMBDA q : ParseColumnRef(ts, q)), LAMBDA group :
        Then(Optional(ts, group.p, "HAVING", LAMBDA q : ParseOr(ts, q, TRUE), NoExpr), LAMBDA having :
        Then(ByList(ts, having.p, "ORDER", LAMBDA q : ParseOrderItem(ts, q)), LAMBDA order :
        Then(ParseLimit(ts, order.p), LAMBDA limit :
            IF Cur(ts, limit.p) \in {"UNION", "INTERSECT", "EXCEPT"} THEN Fail
            ELSE Done(limit.p, [stmt |-> "select", items |-> i.x, from |-> from.x, where |-> where.x,
                                group |-> group.x, having |-> having.x, order |-> order.x,
                                limit |-> limit.x]))))))))

ParseUpdate(ts, p) ==
    LET assignment(q) ==
            IF ~(ParseIdent(ts, q).ok /\ Cur(ts, q + 1) = "=") THEN Fail
            ELSE Then(ParseExpr(ts, q + 2), LAMBDA e : Done(e.p, [name |-> Cur(ts, q), value |-> e.x]))
    IN  IF ~(ParseIdent(ts, p).ok /\ Cur(ts, p + 1) = "SET") THEN Fail
        ELSE Then(CommaList(ts, p + 2, assignment), LAMBDA sets :
             Then(Where(ts, sets.p), LAMBDA where :
                 Done(where.p, [stmt |-> "update", table |-> Cur(ts, p), sets |-> sets.x, where |-> where.x])))

ParseDelete(ts, p) ==
    IF ~(Cur(ts, p) = "FROM" /\ ParseIdent(ts, p + 1).ok) THEN Fail
    ELSE Then(Where(ts, p + 2), LAMBDA where :
             Done(where.p, [stmt |-> "delete", table |-> Cur(ts, p + 1), where |-> where.x]))

\* Parser::ParseOne with RejectUnsupportedStatementStart.
ParseOne(ts, p) ==
    LET k == Cur(ts, p)
        q == p + 1
    IN  CASE k \in {"BEGIN", "COMMIT"} -> Done(Skip(ts, q, "TRANSACTION"), [stmt |-> k])
          [] k \in {"ABORT", "ROLLBACK"} -> Done(Skip(ts, q, "TRANSACTION"), [stmt |-> "ABORT"])
          [] k = "CREATE" -> ParseCreateTable(ts, q)
          [] k = "DROP" -> ParseDropTable(ts, q)
          [] k = "ALTER" -> ParseAlterTable(ts, q)
          [] k = "INSERT" -> ParseInsert(ts, q)
          [] k = "SELECT" -> ParseSelect(ts, q)
          [] k = "UPDATE" -> ParseUpdate(ts, q)
          [] k = "DELETE" -> ParseDelete(ts, q)
          [] OTHER -> Fail

\* Parser::ParseScript: statements separated by one or more ';'.
ParseScript(text) ==
    LET ts == Lex(text)
        script[p \in 1 .. Len(ts) + 1] ==
            CASE p = Len(ts) + 1 -> Done(p, <<>>)
              [] Cur(ts, p) = ";" -> script[p + 1]
              [] OTHER -> Then(ParseOne(ts, p), LAMBDA s :
                              IF Cur(ts, s.p) \notin {";", "eof"} THEN Fail
                              ELSE Then(script[s.p], LAMBDA l : Done(l.p, <<s.x>> \o l.x)))
    IN  script[1]
=============================================================================
