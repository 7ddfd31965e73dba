--------------------------- MODULE ProviderIterator ---------------------------
(***************************************************************************)
(* What a Provider call is to the task that iterates over it: an ordinary  *)
(* request yields one result; a streaming one headers, appends and one end *)
(* event.  Then the iteration is over.  It may fail before that with a     *)
(* code that fits how far it got, or be cancelled, but only after abort(). *)
(***************************************************************************)
EXTENDS Naturals

VARIABLES
    streaming,    \* the request asked for a stream; never changes
    stage,        \* before, streaming (headers yielded), over (end yielded), gone
    asked,        \* a next() is running
    aborted,      \* abort() has begun
    ending        \* how the iteration ended, none before

ivars == <<streaming, stage, asked, aborted, ending>>

\* What a failure may say: 60001 and 60002 only before there are headers.
AfterHeaders == {"60000", "60003", "60007", "60008", "other"}
BeforeHeaders == {"60000", "60001", "60002", "60003", "60007", "60008", "other"}
Codes(st) == CASE st = "before" -> BeforeHeaders
               [] st = "streaming" -> AfterHeaders

IInit ==
    /\ streaming \in BOOLEAN
    /\ stage = "before" /\ asked = FALSE /\ aborted = FALSE /\ ending = "none"

Ask ==
    /\ ~asked /\ stage # "gone"
    /\ asked' = TRUE
    /\ UNCHANGED <<streaming, stage, aborted, ending>>

YieldOne(from, to) ==
    /\ asked /\ stage = from
    /\ stage' = to /\ asked' = FALSE
    /\ UNCHANGED <<streaming, aborted, ending>>

Yield ==
    \/ ~streaming /\ YieldOne("before", "over")           \* result
    \/ streaming /\ YieldOne("before", "streaming")       \* headers
    \/ YieldOne("streaming", "streaming")                 \* append
    \/ YieldOne("streaming", "over")                      \* completed, failed

Leave(how) ==
    /\ stage' = "gone" /\ ending' = how /\ asked' = FALSE
    /\ UNCHANGED <<streaming, aborted>>

Finish ==
    /\ asked
    /\ \/ stage \in {"before", "streaming"} /\ \E code \in Codes(stage) : Leave(code)
       \/ stage \in {"before", "streaming"} /\ aborted /\ Leave("cancelled")
       \/ stage = "over" /\ Leave("returned")

\* The consumer leaves its loop; it has been given something before.
Drop == ~asked /\ stage \in {"streaming", "over"} /\ Leave("dropped")

Abort ==
    /\ ~aborted /\ aborted' = TRUE
    /\ UNCHANGED <<streaming, stage, asked, ending>>

INext == Ask \/ Yield \/ Finish \/ Drop \/ Abort

ISpec == IInit /\ [][INext]_ivars

\* Every next() returns.
ILiveSpec == ISpec /\ WF_ivars(Yield \/ Finish)
=============================================================================
