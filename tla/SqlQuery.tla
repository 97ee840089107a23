------------------------------ MODULE SqlQuery ------------------------------
(***************************************************************************)
(* What a statement computes: the executors (executor.cpp).  A scan        *)
(* follows the order of the encoded primary keys.                          *)
(*                                                                         *)
(* A table is [name, columns, types, pk, rows]: pk is the index of the key *)
(* column, rows a set.  An executor is whether its Open succeeds, the rows *)
(* that its Next would return, and whether the call after them fails:      *)
(* [open, rows, err].                                                      *)
(***************************************************************************)
EXTENDS SqlParser, RecordFormat
LOCAL INSTANCE SequencesExt

CONSTANTS
    Int64Max    \* std::numeric_limits<std::int64_t>::max(), scaled down

ASSUME Int64MaxAssumption == Int64Max \in Nat

Stream(rows, err) == [open |-> TRUE, rows |-> rows, err |-> err]
Failed == [open |-> FALSE, rows |-> <<>>, err |-> TRUE]

-----------------------------------------------------------------------------
\* Transaction::Scan and TableRowScan: rows from start on (none: <<>>) and before
\* end, in the order of their keys.
Scan(table, start, end) ==
    LET key(row) == EncodePkForKey(row[table.pk])
        in == {row \in table.rows :
                  /\ start # <<>> => Cmp(key(row), EncodePkForKey(start[1])) >= 0
                  /\ end # <<>> => Cmp(key(row), EncodePkForKey(end[1])) < 0}
    IN  Stream(SetToSortSeq(in, LAMBDA r, s : Cmp(key(r), key(s)) < 0), FALSE)

\* SeqScanExecutor, PkRangeScanExecutor, PkPointGetExecutor.
SeqScan(table) == Scan(table, <<>>, <<>>)
PkRangeScan(table, start, end) == Scan(table, start, end)
PkPointGet(table, x) == Stream(SetToSeq({row \in table.rows : row[table.pk] = x}), FALSE)

-----------------------------------------------------------------------------
\* Executors over a child.

\* Rows up to the first that fails, those that pass mapped; the common loop of
\* Filter and Project.
UpToError(child, Result(_), keep(_), map(_)) ==
    LET bad == {i \in 1 .. Len(child.rows) : ~Result(child.rows[i])}
        n == IF bad = {} THEN Len(child.rows) + 1 ELSE CHOOSE i \in bad : \A j \in bad : i <= j
        kept == SelectSeq(SubSeq(child.rows, 1, n - 1), keep)
    IN  IF ~child.open THEN Failed
        ELSE Stream([i \in 1 .. Len(kept) |-> map(kept[i])], bad # {} \/ child.err)

Filter(child, tables, e) ==
    UpToError(child, LAMBDA r : EvalBool(tables, e, r).ok,
              LAMBDA r : EvalBool(tables, e, r).out = Bool(TRUE), LAMBDA r : r)

Project(child, tables, exprs) ==
    UpToError(child, LAMBDA r : \A i \in 1 .. Len(exprs) : Eval(tables, exprs[i], r).ok,
              LAMBDA r : TRUE, LAMBDA r : [i \in 1 .. Len(exprs) |-> Eval(tables, exprs[i], r).out])

\* CompareForSort.  The values of one output column have one type, apart from Null.
CompareForSort(a, b) ==
    CASE IsNull(a) /\ IsNull(b) -> 0
      [] IsNull(a) -> 1
      [] IsNull(b) -> -1
      [] OTHER -> Cmp(a.v, b.v)

\* The comparator of SortExecutor::Open; a key is [index, asc].
SortsBefore(keys, r, s) ==
    \E k \in 1 .. Len(keys) :
        LET cmp(i) == CompareForSort(r[keys[i].index], s[keys[i].index])
        IN  /\ \A i \in 1 .. k - 1 : cmp(i) = 0
            /\ IF keys[k].asc THEN cmp(k) < 0 ELSE cmp(k) > 0

\* SortExecutor: drains its child, then stable_sort.
Sort(child, keys) ==
    LET rows == child.rows
        before(i, j) == \/ SortsBefore(keys, rows[i], rows[j])
                        \/ ~SortsBefore(keys, rows[j], rows[i]) /\ i < j
        at(k) == CHOOSE i \in 1 .. Len(rows) :
                     Cardinality({j \in 1 .. Len(rows) : before(j, i)}) = k - 1
    IN  IF child.err THEN Failed ELSE Stream([k \in 1 .. Len(rows) |-> rows[at(k)]], FALSE)

\* LimitExecutor: does not call its child after the last row it wants.
Limit(child, n) ==
    IF child.open /\ Len(child.rows) >= n THEN Stream(SubSeq(child.rows, 1, n), FALSE) ELSE child

-----------------------------------------------------------------------------
\* HashAggregateExecutor.  An aggregate is [f, arg, name]: arg is the index of the
\* column, 0 for COUNT(*).
NoAcc == [ok |-> TRUE, n |-> 0, sum |-> 0, minv |-> 0, maxv |-> 0, has |-> FALSE]

\* Mutant: the overflow check of SUM looks at the upper bound only.
AddCheckedAbove(acc, d) ==
    IF d > 0 /\ acc.sum > Int64Max - d THEN [acc EXCEPT !.ok = FALSE]
    ELSE [acc EXCEPT !.sum = @ + d, !.n = @ + 1, !.has = TRUE]

\* AddChecked and what follows it for SUM and AVG.
AddChecked(acc, d) ==
    IF \/ d > 0 /\ acc.sum > Int64Max - d
       \/ d < 0 /\ acc.sum < (-Int64Max - 1) - d
    THEN [acc EXCEPT !.ok = FALSE]
    ELSE [acc EXCEPT !.sum = @ + d, !.n = @ + 1, !.has = TRUE]

Accumulate(agg, row, acc) ==
    LET cell == row[agg.arg]
        v == cell.v[1]
    IN  IF ~acc.ok THEN acc
        ELSE IF agg.f = "COUNT"
        THEN IF agg.arg = 0 \/ ~IsNull(cell) THEN [acc EXCEPT !.n = @ + 1] ELSE acc
        ELSE IF IsNull(cell) THEN acc
        ELSE IF cell.type # "Int64" THEN [acc EXCEPT !.ok = FALSE]
        ELSE IF agg.f \in {"SUM", "AVG"} THEN AddChecked(acc, v)
        ELSE [acc EXCEPT !.n = @ + 1, !.has = TRUE,
                         !.minv = IF acc.has /\ acc.minv <= v THEN @ ELSE v,
                         !.maxv = IF acc.has /\ acc.maxv >= v THEN @ ELSE v]

\* Division of int64_t truncates toward zero.
Truncated(m, n) == IF m >= 0 THEN m \div n ELSE -((-m) \div n)

FinalizeAgg(agg, acc) ==
    CASE agg.f = "COUNT" -> Int64(acc.n)
      [] ~acc.has -> Null
      [] agg.f = "SUM" -> Int64(acc.sum)
      [] agg.f = "AVG" -> Int64(Truncated(acc.sum, acc.n))
      [] agg.f = "MIN" -> Int64(acc.minv)
      [] agg.f = "MAX" -> Int64(acc.maxv)

\* The row of a scalar aggregate on empty input; GROUP BY has none.
EmptyGroups(child, group, aggs) ==
    IF group = <<>> THEN <<[i \in 1 .. Len(aggs) |-> FinalizeAgg(aggs[i], NoAcc)]>> ELSE <<>>

HashAggregate(child, group, aggs) ==
    LET rows == child.rows
        key(row) == [i \in 1 .. Len(group) |-> row[group[i]]]
        \* the first row of each group, in the order in which groups are met
        firsts == SelectSeq([i \in 1 .. Len(rows) |-> i],
                            LAMBDA i : \A j \in 1 .. i - 1 : key(rows[j]) # key(rows[i]))
        acc(agg, k) ==
            LET fold[i \in 0 .. Len(rows)] ==
                    IF i = 0 THEN NoAcc
                    ELSE IF key(rows[i]) = k THEN Accumulate(agg, rows[i], fold[i - 1])
                    ELSE fold[i - 1]
            IN  fold[Len(rows)]
        keys == [i \in 1 .. Len(firsts) |-> key(rows[firsts[i]])]
        cells(k) == k \o [i \in 1 .. Len(aggs) |-> FinalizeAgg(aggs[i], acc(aggs[i], k))]
    IN  IF \/ child.err
           \/ \E i \in 1 .. Len(keys), j \in 1 .. Len(aggs) : ~acc(aggs[j], keys[i]).ok
        THEN Failed
        ELSE IF rows = <<>> THEN Stream(EmptyGroups(child, group, aggs), FALSE)
        ELSE Stream([i \in 1 .. Len(keys) |-> cells(keys[i])], FALSE)
=============================================================================
