------------------------------- MODULE SqlExpr -------------------------------
(***************************************************************************)
(* SQL values, expressions and name resolution as pure operators: Value    *)
(* (types.cpp), Expr (expr.cpp), BindContext (bind_context.cpp).           *)
(*                                                                         *)
(* The content of a value is a sequence: <<n>> for an integer, <<0>> or    *)
(* <<1>> for a Bool, the characters (small numbers) of a string, <<>> for  *)
(* Null; within a type the order of values is the order of these           *)
(* sequences.  A column reference is <<column>> or <<qualifier, column>>:  *)
(* SplitColumnRef is done.  What may fail answers [ok, out].               *)
(***************************************************************************)
EXTENDS Integers, Sequences, FiniteSets

Value(t, c) == [type |-> t, v |-> c]
Null == Value("Null", <<>>)
Int64(n) == Value("Int64", <<n>>)
Bool(b) == Value("Bool", <<IF b THEN 1 ELSE 0>>)
String(s) == Value("String", s)
IsNull(x) == x.type = "Null"

OK(x) == [ok |-> TRUE, out |-> x]
Error == [ok |-> FALSE, out |-> Null]

\* Expr::Kind.
Literal(x) == [kind |-> "literal", value |-> x]
Column(ref) == [kind |-> "column", ref |-> ref]
Compare(op, l, r) == [kind |-> "compare", op |-> op, left |-> l, right |-> r]
Not(e) == [kind |-> "not", left |-> e]
And(l, r) == [kind |-> "and", left |-> l, right |-> r]
Or(l, r) == [kind |-> "or", left |-> l, right |-> r]
CmpOps == {"=", "!=", "<", "<=", ">", ">="}

\* Order of two contents: -1, 0 or 1 (int64 and bool comparison, string::compare).
Cmp(s, t) ==
    IF s = t THEN 0
    ELSE IF \E i \in 0 .. Len(s) :
               /\ i < Len(t) /\ SubSeq(s, 1, i) = SubSeq(t, 1, i)
               /\ i = Len(s) \/ s[i + 1] < t[i + 1]
         THEN -1 ELSE 1

\* What an operator says of the result of Cmp.
Holds(op, cmp) ==
    CASE op = "=" -> cmp = 0 [] op = "!=" -> cmp # 0
      [] op = "<" -> cmp < 0 [] op = "<=" -> cmp <= 0
      [] op = ">" -> cmp > 0 [] op = ">=" -> cmp >= 0

\* Expr::CompareValues.
CompareValues(op, l, r) ==
    IF IsNull(l) \/ IsNull(r) THEN OK(Null)
    ELSE IF l.type # r.type THEN Error
    ELSE OK(Bool(Holds(op, Cmp(l.v, r.v))))

\* The end of Expr::EvalLogic: -1 is unknown, 0 false, 1 true.
Tri(x) == IF IsNull(x) THEN -1 ELSE x.v[1]
FromTri(t) == IF t = -1 THEN Null ELSE Bool(t = 1)

AndTri(l, r) == IF l = 0 \/ r = 0 THEN 0 ELSE IF l < 0 \/ r < 0 THEN -1 ELSE 1

\* Mutant: an unknown operand makes OR unknown before a true one decides it.
OrTriUnknownFirst(l, r) == IF l < 0 \/ r < 0 THEN -1 ELSE IF l = 1 \/ r = 1 THEN 1 ELSE 0

OrTri(l, r) == IF l = 1 \/ r = 1 THEN 1 ELSE IF l < 0 \/ r < 0 THEN -1 ELSE 0

Logical(x) == x.type \in {"Null", "Bool"}

-----------------------------------------------------------------------------
\* BindContext.  A table in FROM is [name, alias, columns]; alias "" is none.
NamesOf(t) == {t.name, t.alias} \ {""}

\* BindContext::AddTable for all tables in order: no name or alias twice.
NamesDistinct(tables) ==
    \A i, j \in 1 .. Len(tables) : i < j => NamesOf(tables[i]) \cap NamesOf(tables[j]) = {}

ColumnIndex(columns, c) ==
    IF \E i \in 1 .. Len(columns) : columns[i] = c
    THEN CHOOSE i \in 1 .. Len(columns) : columns[i] = c ELSE 0

\* BoundTable::row_offset: the columns of the tables before it.
RowOffset(tables, i) ==
    LET sum[k \in 0 .. Len(tables)] == IF k = 0 THEN 0 ELSE sum[k - 1] + Len(tables[k].columns)
    IN  sum[i - 1]

\* Mutant: an unqualified name takes the first table that has it.
ResolveFirst(tables, ref) ==
    LET c == ref[Len(ref)]
        hits == {i \in 1 .. Len(tables) : /\ ColumnIndex(tables[i].columns, c) # 0
                                          /\ Len(ref) = 2 => ref[1] \in NamesOf(tables[i])}
        i == CHOOSE x \in hits : \A y \in hits : x <= y
    IN  IF hits = {} THEN Error
        ELSE OK(RowOffset(tables, i) + ColumnIndex(tables[i].columns, c))

\* BindContext::Resolve: the position in the joined row.
Resolve(tables, ref) ==
    LET c == ref[Len(ref)]
        hits == IF Len(ref) = 2
                THEN {i \in 1 .. Len(tables) : ref[1] \in NamesOf(tables[i])}
                ELSE {i \in 1 .. Len(tables) : ColumnIndex(tables[i].columns, c) # 0}
        i == CHOOSE x \in hits : TRUE
    IN  IF Cardinality(hits) # 1 \/ ColumnIndex(tables[i].columns, c) = 0 THEN Error
        ELSE OK(RowOffset(tables, i) + ColumnIndex(tables[i].columns, c))

\* Expr::Bind: every column of an expression resolves.  (TableSchema is a context
\* of one table without names.)
RECURSIVE Bind(_, _)
Bind(tables, e) ==
    CASE e.kind = "literal" -> TRUE
      [] e.kind = "column" -> Resolve(tables, e.ref).ok
      [] e.kind = "not" -> Bind(tables, e.left)
      [] OTHER -> Bind(tables, e.left) /\ Bind(tables, e.right)

-----------------------------------------------------------------------------
\* Expr::Eval, EvalCompare and EvalLogic: both operands are evaluated, whatever
\* the first one says.
RECURSIVE Eval(_, _, _)
Eval(tables, e, row) ==
    LET l == Eval(tables, e.left, row)
        r == Eval(tables, e.right, row)
    IN  CASE e.kind = "literal" -> OK(e.value)
          [] e.kind = "column" ->
                 LET i == Resolve(tables, e.ref).out
                 IN  IF i > Len(row) THEN Error ELSE OK(row[i])
          [] e.kind = "compare" ->
                 IF ~l.ok \/ ~r.ok THEN Error ELSE CompareValues(e.op, l.out, r.out)
          [] e.kind = "not" ->
                 IF ~l.ok \/ ~Logical(l.out) THEN Error
                 ELSE IF IsNull(l.out) THEN OK(Null) ELSE OK(Bool(Tri(l.out) = 0))
          [] OTHER ->
                 IF ~l.ok \/ ~r.ok \/ ~Logical(l.out) \/ ~Logical(r.out) THEN Error
                 ELSE LET f(x, y) == IF e.kind = "and" THEN AndTri(x, y) ELSE OrTri(x, y)
                      IN  OK(FromTri(f(Tri(l.out), Tri(r.out))))

\* Expr::EvalBool.
EvalBool(tables, e, row) ==
    LET x == Eval(tables, e, row)
    IN  IF ~x.ok \/ ~Logical(x.out) THEN Error ELSE OK(Bool(Tri(x.out) = 1))

-----------------------------------------------------------------------------
\* Reference.  Truth values are 0 (false), 1 (unknown) and 2 (true): AND is the
\* minimum, OR the maximum, NOT the mirror image.  Err marks ill-typed operands.
Err == 3
Smaller(x, y) == IF x < y THEN x ELSE y

\* The cell that a reference names: of the only column with that name among the
\* tables that the qualifier, if any, names.
CellsNamed(tables, ref, row) ==
    {RowOffset(tables, i) + j : <<i, j>> \in
        {<<i, j>> \in (1 .. Len(tables)) \X (1 .. Len(row)) :
            /\ j <= Len(tables[i].columns) /\ tables[i].columns[j] = ref[Len(ref)]
            /\ Len(ref) = 2 => ref[1] \in NamesOf(tables[i])}}

Operand(tables, e, row) ==
    IF e.kind = "literal" THEN e.value
    ELSE row[CHOOSE c \in CellsNamed(tables, e.ref, row) : TRUE]

RECURSIVE Truth(_, _, _)
Truth(tables, e, row) ==
    IF e.kind \in {"literal", "column"}
    THEN LET x == Operand(tables, e, row)
         IN  IF IsNull(x) THEN 1 ELSE IF x.type = "Bool" THEN 2 * x.v[1] ELSE Err
    ELSE IF e.kind = "compare"
    THEN LET value(s) == IF s.kind \in {"literal", "column"} THEN Operand(tables, s, row)
                         ELSE CASE Truth(tables, s, row) = 0 -> Bool(FALSE)
                                [] Truth(tables, s, row) = 1 -> Null
                                [] Truth(tables, s, row) = 2 -> Bool(TRUE)
                                [] OTHER -> String(<<-1>>)
             l == value(e.left)
             r == value(e.right)
             less(x, y) == \E i \in 0 .. Len(x) : /\ SubSeq(x, 1, i) = SubSeq(y, 1, i)
                                                  /\ i < Len(y) /\ (i < Len(x) => x[i + 1] < y[i + 1])
             holds == CASE e.op = "=" -> l.v = r.v [] e.op = "!=" -> l.v # r.v
                        [] e.op = "<" -> less(l.v, r.v) [] e.op = ">=" -> ~less(l.v, r.v)
                        [] e.op = ">" -> less(r.v, l.v) [] e.op = "<=" -> ~less(r.v, l.v)
         IN  IF \E s \in {e.left, e.right} : s.kind \notin {"literal", "column"}
                                             /\ Truth(tables, s, row) = Err THEN Err
             ELSE IF IsNull(l) \/ IsNull(r) THEN 1
             ELSE IF l.type # r.type THEN Err
             ELSE IF holds THEN 2 ELSE 0
    ELSE LET l == Truth(tables, e.left, row)
             r == IF e.kind = "not" THEN 1 ELSE Truth(tables, e.right, row)
         IN  IF Err \in {l, r} THEN Err
             ELSE IF e.kind = "not" THEN 2 - l
             ELSE IF e.kind = "and" THEN Smaller(l, r)
             ELSE 2 - Smaller(2 - l, 2 - r)
=============================================================================
