------------------------------ MODULE SqlCheck ------------------------------
(***************************************************************************)
(* The pure operators of the SQL layer against their reference: a case is  *)
(* chosen, the code's operator is applied to it, and the invariants        *)
(* compare what it answers with SqlReference.                              *)
(***************************************************************************)
EXTENDS SqlReference, Cases

CONSTANTS
    Exprs, ExprRows,        \* expressions and rows of ExprTables
    ExprTables,             \* a context of two tables
    Refs, Contexts,         \* column references and FROM lists
    Statements, Texts,      \* statements to print and parse, token strings of a WHERE
    Tables, Selects,        \* tables t(a, b) and SELECT statements on them
    WideTables, Writes      \* tables t(a, b, u) and INSERT, UPDATE, DELETE on them

SqlInit ==
    /\ Fresh
    /\ \/ \E e \in Exprs, row \in ExprRows : input = [op |-> "eval", e |-> e, row |-> row]
       \/ \E ref \in Refs, tables \in Contexts : input = [op |-> "resolve", ref |-> ref, tables |-> tables]
       \/ \E s \in Statements : input = [op |-> "parse", script |-> <<s>>, text |-> PrintStmt(s)]
       \/ \E s, r \in Statements :
             /\ s.stmt # "select" /\ r.stmt \notin {"select", "update", "delete"}
             /\ input = [op |-> "parse", script |-> <<s, r>>,
                         text |-> PrintStmt(s) \o <<";">> \o PrintStmt(r) \o <<";", ";">>]
       \/ \E text \in Texts : input = [op |-> "accept", text |-> text]
       \/ \E t \in Tables, s \in Selects : input = [op |-> "select", table |-> t, stmt |-> s]
       \/ \E t \in WideTables, s \in Writes, owned \in BOOLEAN :
             input = [op |-> "write", table |-> t, stmt |-> s, owned |-> owned]

EvalStep == Step("eval", [value |-> Eval(ExprTables, input.e, input.row),
                          bool |-> EvalBool(ExprTables, input.e, input.row)])
ResolveStep == Step("resolve", Resolve(input.tables, input.ref))
ParseStep == Step("parse", ParseScript(input.text))
AcceptStep == Step("accept", ParseScript(<<"DELETE", "FROM", "t", "WHERE">> \o input.text))
SelectStep == Step("select", [all |-> RunSelect(input.table, [input.stmt EXCEPT !.limit = <<>>]),
                              limited |-> RunSelect(input.table, input.stmt)])
WriteStep ==
    LET answer(r) == [ok |-> r.ok, rows |-> Complete(input.table, input.owned, r)]
    IN  Step("write", answer(CASE input.stmt.stmt = "insert" -> RunInsert(input.table, input.stmt)
                               [] input.stmt.stmt = "update" -> RunUpdate(input.table, input.stmt)
                               [] input.stmt.stmt = "delete" -> RunDelete(input.table, input.stmt)))
SqlNext == EvalStep \/ ResolveStep \/ ParseStep \/ AcceptStep \/ SelectStep \/ WriteStep

-----------------------------------------------------------------------------
\* Expr::Eval computes Kleene's three-valued logic and fails exactly on ill-typed
\* operands; a row passes EvalBool only if its predicate is true, not if unknown.
EvalIsKleene ==
    Answered("eval") =>
        LET t == Truth(ExprTables, input.e, input.row)
            leaf == input.e.kind \in {"literal", "column"}
        IN  /\ out.bool = IF t = Err THEN Error ELSE OK(Bool(t = 2))
            /\ ~leaf => out.value = CASE t = Err -> Error [] t = 1 -> OK(Null) [] OTHER -> OK(Bool(t = 2))

\* BindContext::Resolve answers the one cell of the joined row that a reference can
\* mean, and refuses it when there is none or when it is ambiguous; AddTable keeps
\* a qualifier from meaning two tables.
ResolveExact ==
    Answered("resolve") /\ NamesDistinct(input.tables) =>
        LET cells == CellsNamed(input.tables, input.ref, <<1, 2, 3>>)
        IN  /\ out.ok = (Cardinality(cells) = 1)
            /\ out.ok => out.out \in cells

\* The parser gives every statement back from its text with the least parentheses
\* (so NOT, AND, OR and comparisons bind as printed), alone and in a script, and
\* accepts as WHERE exactly the texts of the grammar.
ParserExact ==
    /\ Answered("parse") => out.ok /\ out.x = input.script
    /\ Answered("accept") => out.ok = IsE(input.text)

\* SELECT answers one row for each selected row or group, ordered as asked and
\* stable, LIMIT takes a prefix, and what is refused is what is ill-formed or
\* overflows: access path, filter, aggregation, HAVING, projection and sort together.
SelectMatchesReference ==
    Answered("select") =>
        LET t == input.table
            s == input.stmt
            rows == out.all.rows
            sources == Sources(t, s)
            n == Len(rows)
        IN  /\ out.all.ok = (WellFormed(t, s) /\ SumsFit(t, s))
            /\ out.all.ok =>
                   /\ n = Cardinality(sources)
                   /\ \A i \in 1 .. n : Count(n, LAMBDA j : rows[j] = rows[i])
                          = Cardinality({x \in sources : OutputRow(t, s, x) = rows[i]})
                   /\ \A i, j \in 1 .. n : i < j =>
                          /\ ~OrderBefore(t, s, rows[j], rows[i])
                          /\ s.items = <<>> /\ ~OrderBefore(t, s, rows[i], rows[j])
                                 => Pk(t, rows[i]) < Pk(t, rows[j])
                   /\ s.limit # <<>> =>
                          /\ out.limited.ok
                          /\ out.limited.rows = SubSeq(rows, 1, Smaller(s.limit[1], n))

\* A write statement that succeeds changes exactly the rows its WHERE selects, from
\* their old values; one that fails in its own transaction changes nothing.
WritesAllOrNothing ==
    Answered("write") =>
        LET t == input.table
            s == input.stmt
            hit == Selected(t, "", s.where)
            new(r) == [i \in 1 .. Len(r) |->
                          LET k == {j \in 1 .. Len(s.sets) : s.sets[j].name = t.columns[i]}
                          IN  IF k = {} THEN r[i]
                              ELSE Eval(Schema(t), s.sets[CHOOSE j \in k : \A l \in k : l <= j].value, r).out]
        IN  /\ ~out.ok /\ input.owned => out.rows = t.rows
            /\ out.ok => CASE s.stmt = "delete" -> out.rows = t.rows \ hit
                           [] s.stmt = "update" -> out.rows = (t.rows \ hit) \cup {new(r) : r \in hit}
                           [] s.stmt = "insert" ->
                                  /\ t.rows \subseteq out.rows /\ Cardinality(out.rows \ t.rows) = 1
                                  /\ \A r \in out.rows \ t.rows, i \in 1 .. Len(s.columns) :
                                         r[ColumnIndex(t.columns, s.columns[i])] = s.values[i]
            \* keys stay unique and every row has the table's types
            /\ \A r \in out.rows : Valid(t, r) /\ \A q \in out.rows : r[t.pk] = q[t.pk] => r = q
=============================================================================
