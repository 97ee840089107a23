----------------------------- MODULE SqlSession -----------------------------
(***************************************************************************)
(* The statements of sql_session.cpp as functions of a table: access path, *)
(* plan of a SELECT, INSERT, UPDATE and DELETE.  A SELECT answers [ok,     *)
(* names, rows]; the others answer [ok, rows], the rows that the           *)
(* transaction sees after the statement.  An output name is a column       *)
(* reference; Expression stands for the printed form of an expression.     *)
(***************************************************************************)
EXTENDS SqlQuery
LOCAL INSTANCE SequencesExt

Expression == <<"expression">>
Rejected == [ok |-> FALSE, names |-> <<>>, rows |-> <<>>]
Seq2(s, Op(_)) == [i \in 1 .. Len(s) |-> Op(s[i])]
InSeq(x, s) == \E i \in 1 .. Len(s) : s[i] = x
Distinct(s) == \A i, j \in 1 .. Len(s) : i # j => s[i] # s[j]

\* The table as it stands in FROM, and as TableSchema (no names).
Context(table, alias) == <<[name |-> table.name, alias |-> alias, columns |-> table.columns]>>
Schema(table) == <<[name |-> "", alias |-> "", columns |-> table.columns]>>
BareName(table, ref) == <<ref[Len(ref)]>>

-----------------------------------------------------------------------------
\* Access path.

\* MatchPkCompare: pk <op> literal, either way round, literal not NULL; the operator
\* with the column on the left (FlipCmp).  <<>> when the predicate has another form.
FlipCmp(op) == CASE op = "<" -> ">" [] op = "<=" -> ">=" [] op = ">" -> "<" [] op = ">=" -> "<=" [] OTHER -> op

MatchPkCompare(e, pk) ==
    LET is(col, lit) == /\ col.kind = "column" /\ col.ref = <<pk>>
                        /\ lit.kind = "literal" /\ ~IsNull(lit.value)
    IN  IF e.kind # "compare" THEN <<>>
        ELSE IF is(e.left, e.right) THEN <<[op |-> e.op, bound |-> e.right.value]>>
        ELSE IF is(e.right, e.left) THEN <<[op |-> FlipCmp(e.op), bound |-> e.left.value]>>
        ELSE <<>>

\* SqlSession::PlanAccess, with MatchPkEquality and BoundsFromPkCmp.  A range scan has
\* no filter above it.
PlanAccess(table, where) ==
    LET m == MatchPkCompare(where, table.columns[table.pk])
    IN  IF where = NoExpr THEN SeqScan(table)
        ELSE IF m # <<>> /\ m[1].op = "=" THEN PkPointGet(table, m[1].bound)
        ELSE IF m # <<>> /\ m[1].op = ">=" THEN PkRangeScan(table, <<m[1].bound>>, <<>>)
        ELSE IF m # <<>> /\ m[1].op = "<" THEN PkRangeScan(table, <<>>, <<m[1].bound>>)
        ELSE Filter(SeqScan(table), Schema(table), where)

\* Expr::Bind(BindContext) and MapColumnNames: the expression with each column
\* reference ref replaced by Name(ref).
RECURSIVE MapColumns(_, _)
MapColumns(e, f) ==
    CASE e.kind = "column" -> Column(f[e.ref])
      [] e.kind = "not" -> Not(MapColumns(e.left, f))
      [] e.kind \in {"compare", "and", "or"} ->
             [e EXCEPT !.left = MapColumns(@, f), !.right = MapColumns(@, f)]
      [] OTHER -> e

\* CollectColumnNames.
RECURSIVE Columns(_)
Columns(e) ==
    CASE e.kind = "column" -> {e.ref}
      [] e.kind = "not" -> Columns(e.left)
      [] e.kind \in {"compare", "and", "or"} -> Columns(e.left) \cup Columns(e.right)
      [] OTHER -> {}

Bare(table, e) == MapColumns(e, [r \in Columns(e) |-> BareName(table, r)])

-----------------------------------------------------------------------------
\* SELECT.

\* ParseDefaultAggResultName: whether a column name is that of an aggregate.
IsAggName(ref) == Len(ref) >= 3
AggArg(ref) == SubSeq(ref, 3, Len(ref))

\* EnsureAggSpec and ResolveAggArg: the aggregate behind an output name, with its
\* argument resolved and its name canonical.
AggResolves(ctx, ref) == AggArg(ref) = <<"*">> \/ Resolve(ctx, AggArg(ref)).ok
Canonical(table, ref) ==
    IF AggArg(ref) = <<"*">> THEN ref
    ELSE DefaultAggResultName(ref[1], BareName(table, AggArg(ref)))
AggSpec(ctx, ref) ==
    [f |-> ref[1], name |-> ref,
     arg |-> IF AggArg(ref) = <<"*">> THEN 0 ELSE Resolve(ctx, AggArg(ref)).out]

\* FindOutputColumn: by label, else by column for outputs that are bare columns.
FindOutputColumn(ctx, table, names, bare_ok, ref) ==
    LET labelled == {i \in 1 .. Len(names) : names[i] = ref}
        bare == {i \in 1 .. Len(names) : /\ Resolve(ctx, ref).ok /\ bare_ok[i]
                                         /\ names[i] = BareName(table, ref)}
        first(s) == CHOOSE i \in s : \A j \in s : i <= j
    IN  IF labelled # {} THEN first(labelled) ELSE IF bare # {} THEN first(bare) ELSE 0

\* ORDER BY and LIMIT over a plan with its output names; then Collect.
Finish(ctx, table, stmt, plan, names, bare_ok) ==
    LET index(o) == FindOutputColumn(ctx, table, names, bare_ok, o.ref)
        keys == Seq2(stmt.order, LAMBDA o : [index |-> index(o), asc |-> o.asc])
        sorted == IF stmt.order = <<>> THEN plan ELSE Sort(plan, keys)
        limited == IF stmt.limit = <<>> THEN sorted ELSE Limit(sorted, stmt.limit[1])
    IN  IF (\E i \in 1 .. Len(stmt.order) : index(stmt.order[i]) = 0) \/ limited.err THEN Rejected
        ELSE [ok |-> TRUE, names |-> names, rows |-> limited.rows]

\* The plan of a SELECT without aggregates.
SelectRows(ctx, table, stmt, source) ==
    LET items == stmt.items
        star == items = <<>>
        name(item) == IF item.alias # "" THEN <<item.alias>>
                      ELSE IF item.expr.kind = "column" THEN BareName(table, item.expr.ref)
                      ELSE Expression
        names == IF star THEN Seq2(table.columns, LAMBDA c : <<c>>) ELSE Seq2(items, name)
        bare_ok == IF star THEN Seq2(names, LAMBDA n : TRUE)
                   ELSE Seq2(items, LAMBDA it : it.alias = "" /\ it.expr.kind = "column")
        plan == IF star THEN source ELSE Project(source, ctx, Seq2(items, LAMBDA it : it.expr))
    IN  IF \E i \in 1 .. Len(items) : ~Bind(ctx, items[i].expr) THEN Rejected
        ELSE Finish(ctx, table, stmt, plan, names, bare_ok)

\* The aggregates of a plan without repetition: those of the select list, then those
\* only HAVING names.
PlanAggs(table, items, having) ==
    LET listed == Seq2(SelectSeq(items, LAMBDA it : it.agg),
                       LAMBDA it : Canonical(table, it.expr.ref))
        more == SetToSeq({r \in Columns(having) : IsAggName(r)})
        all == listed \o more
    IN  Seq2(SelectSeq([i \in 1 .. Len(all) |-> i],
                       LAMBDA i : \A j \in 1 .. i - 1 : all[j] # all[i]), LAMBDA i : all[i])

\* NormalizeHavingColumns for one name.
HavingName(ctx, table, group, ref) ==
    IF IsAggName(ref) THEN Canonical(table, ref)
    ELSE IF Resolve(ctx, ref).ok /\ InSeq(BareName(table, ref), group) THEN BareName(table, ref)
    ELSE ref

\* The plan of a SELECT with aggregates or GROUP BY:
\* access, HashAggregate, Filter for HAVING, Project, Sort, Limit.
SelectGroups(ctx, table, stmt, source) ==
    LET items == stmt.items
        group == Seq2(stmt.group, LAMBDA r : BareName(table, r))
        having == MapColumns(stmt.having, [r \in Columns(stmt.having) |-> HavingName(ctx, table, group, r)])
        aggs == PlanAggs(table, items, having)
        cols == Seq2(group \o aggs, LAMBDA r : r)
        \* the synthetic schema: a reference is the whole output name
        place(r) == CHOOSE i \in 1 .. Len(cols) : cols[i] = r
        plan == HashAggregate(source, Seq2(group, LAMBDA r : Resolve(ctx, r).out),
                              Seq2(aggs, LAMBDA r : AggSpec(ctx, r)))
        labels == <<[name |-> "", alias |-> "", columns |-> [i \in 1 .. Len(cols) |-> i]]>>
        byPlace(e) == MapColumns(e, [r \in Columns(e) |-> <<place(r)>>])
        filtered == IF having = NoExpr THEN plan ELSE Filter(plan, labels, byPlace(having))
        source_of(it) == IF it.agg THEN Canonical(table, it.expr.ref) ELSE BareName(table, it.expr.ref)
        names == Seq2(items, LAMBDA it : IF it.alias # "" THEN <<it.alias>> ELSE source_of(it))
        projected == Project(filtered, labels, Seq2(items, LAMBDA it : Column(<<place(source_of(it))>>)))
        legal(it) == IF it.agg THEN AggResolves(ctx, it.expr.ref)
                     ELSE /\ it.expr.kind = "column" /\ Resolve(ctx, it.expr.ref).ok
                          /\ InSeq(BareName(table, it.expr.ref), group)
    IN  IF \/ \E i \in 1 .. Len(stmt.group) : ~Resolve(ctx, stmt.group[i]).ok
           \/ items = <<>> \/ \E i \in 1 .. Len(items) : ~legal(items[i])
           \/ \E r \in Columns(stmt.having) : IsAggName(r) /\ ~AggResolves(ctx, r)
           \/ \E r \in Columns(having) : ~IsAggName(r) /\ ~InSeq(r, group)
           \/ ~Distinct(cols)
        THEN Rejected
        ELSE Finish(ctx, table, stmt, projected, names, Seq2(items, LAMBDA it : ~it.agg /\ it.alias = ""))

\* SqlSession::RunSelect.
RunSelect(table, stmt) ==
    LET ctx == Context(table, stmt.from.base.alias)
        grouped == stmt.group # <<>> \/ \E i \in 1 .. Len(stmt.items) : stmt.items[i].agg
        source == PlanAccess(table, Bare(table, stmt.where))
    IN  IF \/ stmt.from.joins # <<>> \/ stmt.from.base.name # table.name
           \/ grouped /\ stmt.items = <<>>
           \/ stmt.having # NoExpr /\ ~grouped
           \/ stmt.where # NoExpr /\ ~Bind(ctx, stmt.where)
        THEN Rejected
        ELSE IF grouped THEN SelectGroups(ctx, table, stmt, source)
        ELSE SelectRows(ctx, table, stmt, source)

-----------------------------------------------------------------------------
\* INSERT, UPDATE and DELETE.
Valid(table, row) == /\ Len(row) = Len(table.columns)
                     /\ \A i \in 1 .. Len(row) : row[i].type = table.types[i]
Left(rows) == [ok |-> TRUE, rows |-> rows]
Refused(table) == [ok |-> FALSE, rows |-> table.rows]

\* RunInsert and InsertOp: a column list must name every column once.
RunInsert(table, stmt) ==
    LET n == Len(table.columns)
        at(i) == CHOOSE j \in 1 .. Len(stmt.columns) : stmt.columns[j] = table.columns[i]
        named == /\ Distinct(stmt.columns) /\ Len(stmt.columns) = Len(stmt.values)
                 /\ {stmt.columns[i] : i \in 1 .. Len(stmt.columns)}
                        = {table.columns[i] : i \in 1 .. n}
        row == IF stmt.columns = <<>> THEN stmt.values ELSE [i \in 1 .. n |-> stmt.values[at(i)]]
    IN  IF \/ stmt.columns # <<>> /\ ~named
           \/ ~Valid(table, row)
           \/ \E r \in table.rows : r[table.pk] = row[table.pk]
        THEN Refused(table) ELSE Left(table.rows \cup {row})

\* The inner loop of UpdateOp::Execute: values are computed from the old row.
Assign(table, sets, row) ==
    LET new[k \in 0 .. Len(sets)] ==
            IF k = 0 THEN row
            ELSE [new[k - 1] EXCEPT ![ColumnIndex(table.columns, sets[k].name)] =
                      Eval(Schema(table), sets[k].value, row).out]
    IN  new[Len(sets)]

\* RunUpdate and UpdateOp: all targets are read before the first is written.  A row
\* that fails ends the statement; the rows before it are written.
RunUpdate(table, stmt) ==
    LET source == PlanAccess(table, stmt.where)
        new(row) == Assign(table, stmt.sets, row)
        fails(row) ==
            \/ \E k \in 1 .. Len(stmt.sets) : ~Eval(Schema(table), stmt.sets[k].value, row).ok
            \/ new(row)[table.pk] # row[table.pk] \/ ~Valid(table, new(row))
        bad == {i \in 1 .. Len(source.rows) : fails(source.rows[i])}
        done == {source.rows[i] : i \in {j \in 1 .. Len(source.rows) : \A b \in bad : j < b}}
    IN  IF \/ \E k \in 1 .. Len(stmt.sets) :
                 \/ ColumnIndex(table.columns, stmt.sets[k].name) = 0
                 \/ ~Bind(Schema(table), stmt.sets[k].value)
           \/ stmt.where # NoExpr /\ ~Bind(Schema(table), stmt.where)
        THEN Refused(table)
        ELSE IF source.err THEN Refused(table)
        ELSE [ok |-> bad = {}, rows |-> (table.rows \ done) \cup {new(row) : row \in done}]

\* RunDelete and DeleteOp.
RunDelete(table, stmt) ==
    LET source == PlanAccess(table, stmt.where)
    IN  IF stmt.where # NoExpr /\ ~Bind(Schema(table), stmt.where) THEN Refused(table)
        ELSE IF source.err THEN Refused(table)
        ELSE Left(table.rows \ {source.rows[i] : i \in 1 .. Len(source.rows)})

\* Mutant: the guard commits whatever the statement says.
CommitAnyway(table, owned, r) == r.rows

\* AutoTxnGuard::Complete and its destructor: a transaction the statement began is
\* aborted when the statement fails, one the client began is left as it is.
Complete(table, owned, r) == IF owned /\ ~r.ok THEN table.rows ELSE r.rows
=============================================================================
