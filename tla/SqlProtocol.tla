---------------------------- MODULE SqlProtocol ----------------------------
(***************************************************************************)
(* The wire protocol of the SQL server (sql_server/protocol.cpp), what a   *)
(* connection does with a line (SqlHandleLine) and how the client cuts its *)
(* input into statements (examples/reldb_sql_cli.cpp).                     *)
(*                                                                         *)
(* A text is a sequence of symbols: a symbol is a character, a fixed word  *)
(* of the protocol ("*ROW", "$S:") or a number.  CTL stands for the        *)
(* control characters without an escape of their own.                      *)
(***************************************************************************)
EXTENDS Integers, Sequences, FiniteSets
LOCAL INSTANCE SequencesExt

CONSTANTS
    MaxStatementBytes   \* kMaxStatementBytes

ASSUME MaxStatementAssumption == MaxStatementBytes \in Nat \ {0}

Number == <<"0", "1", "2", "3">>
Decimal(n) == Number[n + 1]

-----------------------------------------------------------------------------
\* Cells.  A value is [type, v]; v is a text, or a number as a text.
Escape(ch) ==
    CASE ch = "\\" -> <<"\\", "\\">> [] ch = "LF" -> <<"\\", "n">> [] ch = "CR" -> <<"\\", "r">>
      [] ch = "TAB" -> <<"\\", "t">> [] ch = "CTL" -> <<"\\", "x", "1", "B">> [] OTHER -> <<ch>>

EscapeString(s) == FlattenSeq([i \in 1 .. Len(s) |-> Escape(s[i])])

\* UnescapeString: [ok, out].
UnescapeString(t) ==
    LET Good(s) == [ok |-> TRUE, out |-> s]
        None == [ok |-> FALSE, out |-> <<>>]
        then(ch, rest) == IF rest.ok THEN Good(<<ch>> \o rest.out) ELSE None
        from[i \in 1 .. Len(t) + 2] ==
            IF i > Len(t) THEN Good(<<>>)
            ELSE IF t[i] # "\\" THEN then(t[i], from[i + 1])
            ELSE IF i + 1 > Len(t) THEN None
            ELSE CASE t[i + 1] = "\\" -> then("\\", from[i + 2])
                   [] t[i + 1] = "n" -> then("LF", from[i + 2])
                   [] t[i + 1] = "r" -> then("CR", from[i + 2])
                   [] t[i + 1] = "t" -> then("TAB", from[i + 2])
                   [] t[i + 1] = "x" ->
                          IF i + 3 <= Len(t) /\ t[i + 2] = "1" /\ t[i + 3] = "B"
                          THEN then("CTL", from[i + 4]) ELSE None
                   [] OTHER -> None
    IN  from[1]

EncodeCell(x) ==
    CASE x.type = "Null" -> <<"$N">>
      [] x.type = "Int64" -> <<"$I:">> \o x.v
      [] x.type = "Bool" -> <<"$B:">> \o x.v
      [] x.type = "String" -> <<"$S:">> \o EscapeString(x.v)

DecodeCell(line) ==
    LET tag == IF line = <<>> THEN "" ELSE line[1]
        rest == SubSeq(line, 2, Len(line))
        made(t, ok, c) == [ok |-> ok, out |-> [type |-> t, v |-> c]]
        number == Len(rest) = 1 /\ \E i \in 1 .. Len(Number) : Number[i] = rest[1]
    IN  CASE tag = "$N" -> made("Null", rest = <<>>, <<>>)
          [] tag = "$I:" -> made("Int64", number, rest)
          [] tag = "$B:" -> made("Bool", rest \in {<<"0">>, <<"1">>}, rest)
          [] tag = "$S:" -> made("String", UnescapeString(rest).ok, UnescapeString(rest).out)
          [] OTHER -> made("Null", FALSE, <<>>)

-----------------------------------------------------------------------------
\* Replies.  A query result is [names, rows, affected, plan].
Line(s) == s \o <<"LF">>
EncodeError(message) == Line(<<"-ERR ">> \o message)
EncodeOk == Line(<<"+OK">>)
EncodeOkRowsAffected(n) == Line(<<"+OK rows_affected=", Decimal(n)>>)

EncodeQueryResult(r) ==
    LET ncols == IF r.names # <<>> THEN Len(r.names)
                 ELSE IF r.rows = <<>> THEN 0 ELSE Len(r.rows[1])
        name(c) == IF c <= Len(r.names) THEN r.names[c] ELSE <<>>
        cell(row, c) == IF c <= Len(row) THEN EncodeCell(row[c]) ELSE <<"$N">>
        row(i) == Line(<<"*ROW">>) \o FlattenSeq([c \in 1 .. ncols |-> Line(cell(r.rows[i], c))])
    IN  IF r.names = <<>> /\ r.rows = <<>>
        THEN IF r.affected > 0 THEN EncodeOkRowsAffected(r.affected) ELSE EncodeOk
        ELSE (IF r.plan = <<>> THEN <<>> ELSE Line(<<"*PLAN ">> \o r.plan))
             \o Line(<<"*RESULT ", Decimal(Len(r.rows)), " ", Decimal(ncols)>>)
             \o Line(<<"*COLS ", Decimal(ncols)>>)
             \o FlattenSeq([c \in 1 .. ncols |-> Line(name(c))])
             \o FlattenSeq([i \in 1 .. Len(r.rows) |-> row(i)])
             \o Line(<<"*END">>)

\* SplitLines: a CR before the end of a line is dropped.
SplitLines(text) ==
    LET ends == SelectSeq([i \in 1 .. Len(text) |-> i], LAMBDA i : text[i] = "LF")
        begin(k) == IF k = 1 THEN 1 ELSE ends[k - 1] + 1
        chomp(s) == IF s # <<>> /\ s[Len(s)] = "CR" THEN SubSeq(s, 1, Len(s) - 1) ELSE s
        rest == SubSeq(text, begin(Len(ends) + 1), Len(text))
    IN  [k \in 1 .. Len(ends) |-> chomp(SubSeq(text, begin(k), ends[k] - 1))]
        \o (IF rest = <<>> THEN <<>> ELSE <<chomp(rest)>>)

\* RecvLine and RecvReply of the client: one line, or all up to "*END"; every CR is
\* dropped.  <<>> if the text ends before the reply does.
RecvReply(text) ==
    LET lines == SplitLines(SelectSeq(text, LAMBDA ch : ch # "CR"))
        ends == {i \in 1 .. Len(lines) : lines[i] = <<"*END">>}
        upTo(k) == FlattenSeq([i \in 1 .. k |-> Line(lines[i])])
    IN  IF lines = <<>> THEN <<>>
        ELSE IF lines[1] # <<>> /\ lines[1][1] \in {"*PLAN ", "*RESULT "}
        THEN IF ends = {} THEN <<>> ELSE upTo(CHOOSE i \in ends : \A j \in ends : i <= j)
        ELSE upTo(1)

\* DecodeReply: [ok, kind, and the result as given to EncodeQueryResult].
DecodeReply(text) ==
    LET lines == SplitLines(text)
        bad == [ok |-> FALSE, kind |-> "unknown", result |-> <<>>]
        head(i) == IF i <= Len(lines) /\ lines[i] # <<>> THEN lines[i][1] ELSE ""
        good(kind, names, rows, n, plan) ==
            [ok |-> TRUE, kind |-> kind,
             result |-> [names |-> names, rows |-> rows, affected |-> n, plan |-> plan]]
        value(s) == CHOOSE n \in 0 .. Len(Number) - 1 : Decimal(n) = s
        p == IF head(1) = "*PLAN " THEN 2 ELSE 1
        nrows == value(lines[p][2])
        ncols == value(lines[p][4])
        at(r, c) == p + 1 + ncols + (r - 1) * (ncols + 1) + 1 + c
        last == at(nrows + 1, 0)
    IN  IF lines = <<>> THEN bad
        ELSE CASE head(1) = "-ERR " -> good("error", <<>>, <<>>, 0, <<>>)
               [] head(1) = "+OK" -> good("ok", <<>>, <<>>, 0, <<>>)
               [] head(1) = "+OK rows_affected=" -> good("ok", <<>>, <<>>, value(lines[1][2]), <<>>)
               [] OTHER ->
                  IF \/ head(p) # "*RESULT " \/ head(p + 1) # "*COLS "
                     \/ lines[p + 1][2] # lines[p][4] \/ Len(lines) < last
                     \/ lines[last] # <<"*END">>
                     \/ \E r \in 1 .. nrows : lines[at(r, 0)] # <<"*ROW">>
                     \/ \E r \in 1 .. nrows, c \in 1 .. ncols : ~DecodeCell(lines[at(r, c)]).ok
                  THEN bad
                  ELSE good("result", [c \in 1 .. ncols |-> lines[p + 1 + c]],
                            [r \in 1 .. nrows |-> [c \in 1 .. ncols |-> DecodeCell(lines[at(r, c)]).out]],
                            0, IF p = 2 THEN SubSeq(lines[1], 2, Len(lines[1])) ELSE <<>>)

-----------------------------------------------------------------------------
\* Statements over lines.
Blank == {" ", "LF", "CR"}

\* Whether position i is outside quoted strings, after the symbols before it.  A
\* doubled quote closes and opens again, which is the code's skip.
Outside(s, i) == Cardinality({j \in 1 .. i - 1 : s[j] = "'"}) % 2 = 0

\* Mutant: a ';' inside a string ends the statement.
EndsWithSemicolon(s) ==
    \E i \in 1 .. Len(s) : s[i] = ";" /\ \A j \in i + 1 .. Len(s) : s[j] \in Blank

EndsWithStatementTerminator(s) ==
    \E i \in 1 .. Len(s) :
        /\ s[i] = ";" /\ Outside(s, i)
        /\ \A j \in i + 1 .. Len(s) : s[j] \in Blank

Trim(s) ==
    LET solid == {i \in 1 .. Len(s) : s[i] \notin Blank}
    IN  IF solid = {} THEN <<>>
        ELSE SubSeq(s, CHOOSE i \in solid : \A j \in solid : i <= j,
                       CHOOSE i \in solid : \A j \in solid : j <= i)

\* The first position from i on whose symbol is not in S.
SkipAll(s, i, S) == CHOOSE k \in i .. Len(s) + 1 : /\ k = Len(s) + 1 \/ s[k] \notin S
                                                   /\ \A j \in i .. k - 1 : s[j] \in S

\* ExtractCompleteStatements: statements to the first ';' outside quotes, trimmed;
\* [stmts, rest].  The blanks of its line and line ends after a ';' go with it.
RECURSIVE ExtractCompleteStatements(_)
ExtractCompleteStatements(buffer) ==
    LET semis == {i \in 1 .. Len(buffer) : buffer[i] = ";" /\ Outside(buffer, i)}
        semi == CHOOSE i \in semis : \A j \in semis : i <= j
        next == SkipAll(buffer, SkipAll(buffer, semi + 1, {" ", "CR"}), {"LF", "CR"})
        more == ExtractCompleteStatements(SubSeq(buffer, next, Len(buffer)))
    IN  IF semis = {} THEN [stmts |-> <<>>, rest |-> buffer]
        ELSE [more EXCEPT !.stmts = <<Trim(SubSeq(buffer, 1, semi))>> \o @]

\* SendStatement and the server's RecvLine: the lines of a statement, without CR.
SendStatement(stmt) == SplitLines(SelectSeq(stmt, LAMBDA ch : ch # "CR") \o <<"LF">>)

\* TryAppendLine: [ok, buffer].
TryAppendLine(buffer, line) ==
    LET joined == IF buffer = <<>> THEN line ELSE buffer \o <<"LF">> \o line
    IN  IF Len(joined) > MaxStatementBytes THEN [ok |-> FALSE, buffer |-> <<>>]
        ELSE [ok |-> TRUE, buffer |-> joined]

\* SqlHandleLine on a line that is no meta command: the buffer it leaves and its
\* replies, each the text executed or "too large".
SqlHandleLine(buffer, line) ==
    LET r == TryAppendLine(buffer, line)
    IN  IF buffer = <<>> /\ Trim(line) = <<>> THEN [buffer |-> <<>>, replies |-> <<>>]
        ELSE IF ~r.ok THEN [buffer |-> <<>>, replies |-> <<<<"too large">>>>]
        ELSE IF EndsWithStatementTerminator(r.buffer)
        THEN [buffer |-> <<>>, replies |-> <<r.buffer>>]
        ELSE [buffer |-> r.buffer, replies |-> <<>>]

\* All lines of a statement through one connection.
Exchange(buffer, stmt) ==
    LET lines == SendStatement(stmt)
        after[k \in 0 .. Len(lines)] ==
            IF k = 0 THEN [buffer |-> buffer, replies |-> <<>>]
            ELSE LET h == SqlHandleLine(after[k - 1].buffer, lines[k])
                 IN  [h EXCEPT !.replies = after[k - 1].replies \o @]
    IN  after[Len(lines)]
=============================================================================
