---------------------------- MODULE LlmMessages ----------------------------
(***************************************************************************)
(* The llm.v1 messages of an OpenEvent log, and what a log says about one  *)
(* request.  A log is a sequence of messages; the seq of a message is its  *)
(* position.  A key stands for the pair (channel_id, stream_id) by which   *)
(* outputs are matched to requests.  Payload contents are left out: all    *)
(* that is kept of a body is whether there is one.                         *)
(***************************************************************************)
EXTENDS Integers, Sequences, FiniteSets

CONSTANT Keys

\* How the admission checks of a Worker will judge a request: its payload is
\* within the limit and its provider is configured, or one of these fails.
Fits == {"ok", "large", "config"}

(* Status codes: 0 stands for any HTTP status returned by the Provider. *)
Http == 0
ProviderCodes == {60000, 60001, 60002, 60003, 60007, 60008}
Duplicate == 60005
Interrupted == 60007
TooLarge == 60008
BadProvider == 60009
Codes == {Http, Duplicate, BadProvider} \cup ProviderCodes

Request(k, str, fit) ==
    [kind |-> "request", key |-> k, streaming |-> str, fit |-> fit]
Result(k, s, body, code) ==
    [kind |-> "result", key |-> k, ref |-> s, body |-> body, code |-> code]
AppendEvent(k, s, prev) ==
    [kind |-> "append", key |-> k, ref |-> s, prev |-> prev]
End(k, s, code) ==
    [kind |-> "end", key |-> k, ref |-> s, code |-> code]
Cancel(k, s) ==
    [kind |-> "cancel", key |-> k, ref |-> s]
System == [kind |-> "system"]       \* written by OpenEvent itself, principal 0
Invalid == [kind |-> "invalid"]     \* does not parse as llm.v1

\* The status codes _validate admits for each shape of an output; an End is
\* interrupted unless its code is Http.
ResultCodes == {60000, 60001, 60002, 60003, Duplicate, Interrupted, TooLarge, BadProvider}
InterruptedCodes == {60000, 60001, 60002, 60003, Interrupted, TooLarge}

Requests == [kind : {"request"}, key : Keys, streaming : BOOLEAN, fit : Fits]
Results ==
    [kind : {"result"}, key : Keys, ref : Nat, body : {TRUE}, code : {Http} \cup ResultCodes]
        \cup [kind : {"result"}, key : Keys, ref : Nat, body : {FALSE}, code : {Http}]
Appends == [kind : {"append"}, key : Keys, ref : Nat, prev : Nat]
Ends == [kind : {"end"}, key : Keys, ref : Nat, code : {Http} \cup InterruptedCodes]
Cancels == [kind : {"cancel"}, key : Keys, ref : Nat]
Outputs == Results \cup Appends \cup Ends
Messages == Requests \cup Outputs \cup Cancels \cup {System, Invalid}

IsRequest(m) == m.kind = "request"
IsOutput(m) == m.kind \in {"result", "append", "end", "cancel"}

-----------------------------------------------------------------------------
(***************************************************************************)
(* The reference reading of a log: the outcome of the request at seq s is  *)
(* decided by the earliest valid terminal candidate after it.  A consumer  *)
(* that reads the first n messages knows exactly this, however it keeps    *)
(* its books.                                                              *)
(***************************************************************************)
Earliest(S) == IF S = {} THEN 0 ELSE CHOOSE i \in S : \A j \in S : i <= j
Latest(S) == IF S = {} THEN 0 ELSE CHOOSE i \in S : \A j \in S : i >= j

\* Seqs up to n of the messages of one kind that match the request at seq s.
Matching(log, s, n, kind) ==
    {i \in (s + 1)..n : /\ log[i].kind = kind
                        /\ log[i].ref = s
                        /\ log[i].key = log[s].key}

FirstResult(log, s, n) == Earliest(Matching(log, s, n, "result"))

\* The event that decides the request: its first result if that has a body,
\* and, for a streaming request only, an end or a cancel; 0 when there is none.
Winner(log, s, n) ==
    LET first == FirstResult(log, s, n)
        bodied == IF first # 0 /\ log[first].body THEN {first} ELSE {}
        control == IF log[s].streaming
                   THEN Matching(log, s, n, "end") \cup Matching(log, s, n, "cancel")
                   ELSE {}
    IN  Earliest(bodied \cup control)

\* The output chain: first result, then every matching append, up to the winner.
ChainNodes(log, s, n) ==
    LET w == Winner(log, s, n)
        last == IF w = 0 THEN n ELSE w
        first == FirstResult(log, s, last)
    IN  IF first = 0 THEN {} ELSE {first} \cup Matching(log, s, last, "append")

ChainTail(log, s, n) == Latest(ChainNodes(log, s, n))

\* A reader of the first n messages has met, before the outcome was decided, an
\* output that it must report as a protocol error of the call.
Broken(log, s, n) ==
    LET w == Winner(log, s, n)
        last == IF w = 0 THEN n ELSE w
        first == FirstResult(log, s, last)
    IN  \/ /\ ~log[s].streaming
           /\ \/ first # 0 /\ ~log[first].body
              \/ Matching(log, s, last, "append") # {}
        \/ \E i \in Matching(log, s, last, "append") :
              log[i].prev # Latest({j \in ChainNodes(log, s, n) : j < i}) \/ log[i].prev = 0

\* What a reader of n messages says of the request at seq s.
CallStatus(log, s, n) ==
    IF Broken(log, s, n) THEN "broken"
    ELSE IF Winner(log, s, n) # 0 THEN "closed"
    ELSE IF FirstResult(log, s, n) # 0 THEN "streaming"
    ELSE IF log[s].streaming THEN "open"
    ELSE "ordinary"
=============================================================================
