--------------------------- MODULE ProtocolCheck ---------------------------
(* The SQL server's protocol: replies through encoder, client and decoder, and *)
(* the client's input through statements, lines and the connection's buffer.   *)
EXTENDS SqlProtocol, Cases
LOCAL INSTANCE SequencesExt

CONSTANTS
    Results,        \* query results
    ClientTexts     \* what is typed or piped into the client

ReplyStep == Step("reply", DecodeReply(RecvReply(EncodeQueryResult(input.result))))
TalkStep ==
    Step("talk", LET r == ExtractCompleteStatements(input.text)
                 IN  [stmts |-> r.stmts, rest |-> r.rest,
                      exchanges |-> [i \in 1 .. Len(r.stmts) |-> Exchange(<<>>, r.stmts[i])]])

ProtocolInit ==
    /\ Fresh
    /\ \/ \E r \in Results : input = [op |-> "reply", result |-> r]
       \/ \E t \in ClientTexts : input = [op |-> "talk", text |-> t]
ProtocolNext == ReplyStep \/ TalkStep

-----------------------------------------------------------------------------
Solid(s) == SelectSeq(s, LAMBDA ch : ch \notin Blank)

\* Client and server stay in step.  The client decodes every query result to the values
\* the server encoded, whatever is in its strings.  It cuts its input into statements
\* and loses none of it; a statement that fits the server's buffer, sent line by line,
\* makes the server execute that statement once, reply once and keep nothing back.
ProtocolInStep ==
    /\ Answered("reply") =>
           out.ok /\ out.kind # "error" /\ out.result = input.result
    /\ Answered("talk") =>
           /\ Solid(FlattenSeq(out.stmts) \o out.rest) = Solid(input.text)
           /\ \A i \in 1 .. Len(out.stmts) :
                  LET stmt == SelectSeq(out.stmts[i], LAMBDA ch : ch # "CR")
                  IN  Len(stmt) <= MaxStatementBytes =>
                          out.exchanges[i] = [buffer |-> <<>>, replies |-> <<stmt>>]
=============================================================================
