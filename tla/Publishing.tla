------------------------------ MODULE Publishing ------------------------------
(***************************************************************************)
(* One call of _publish: allocate a UUID, send the same publication until  *)
(* its fate is known or the attempts are used up, and ask for its seq when *)
(* OpenEvent says that it has it already.  The three phases are loops of   *)
(* the same shape: two of them are call_rpc, the middle one is _publish's  *)
(* own.                                                                    *)
(*                                                                         *)
(* An attempt that timed out may still arrive later; a reply may be lost.  *)
(* X_... is X with a plausible bug; only the README's table refers to it.  *)
(***************************************************************************)
EXTENDS Integers, FiniteSets

CONSTANT MaxRetries     \* client.max_retries

ASSUME RetriesAssumption == MaxRetries \in Nat

Attempts == 0..MaxRetries
Uuids == 1..(MaxRetries + 1)

VARIABLES
    phase,      \* draw (get_uuid), before, publish, query (get_seq_by_uuid), done
    pc,         \* in a loop: check, go (checked, not yet sent), sent, wait
    attempt,    \* the loop variable
    failed,     \* last_error is not None
    uncertain,  \* an attempt may have committed
    uuid,       \* frozen.uuid, 0 before it is allocated
    stop,       \* stop_event
    outcome,    \* the conclusion: none, or how _publish ended
    reply,      \* the server's answer to the attempt in progress, none before
    net,        \* publications on their way to OpenEvent
    stored,     \* OpenEvent: the UUIDs it has committed
    drawn,      \* OpenEvent: UUIDs allocated
    late        \* history: RPCs begun after stop_event was set

client == <<phase, pc, attempt, failed, uncertain, uuid, outcome>>
openevent == <<net, stored, drawn>>
vars == <<client, stop, reply, openevent, late>>

Loops == {"draw", "publish", "query"}
Outcomes == {"seq", "committed", "not_committed", "unknown", "stopped", "refused"}

\* What OpenEvent answers to a publication: done, UUID known already, or one of
\* _NOT_COMMITTED.  Instead of an answer the caller may get one of
\* RETRYABLE_STATUSES, no status, or a reply that is not a positive seq, all
\* "unavailable" below; any other status is "odd".
Verdicts == {"ok", "exists", "denied"}

TypeOK ==
    /\ phase \in Loops \cup {"before", "done"}
    /\ pc \in {"check", "go", "sent", "wait"}
    /\ attempt \in Attempts
    /\ failed \in BOOLEAN /\ uncertain \in BOOLEAN /\ stop \in BOOLEAN
    /\ uuid \in Uuids \cup {0} /\ drawn \in Uuids \cup {0}
    /\ outcome \in Outcomes \cup {"none"}
    /\ reply \in Verdicts \cup {"none"}
    /\ net \subseteq [n : Attempts, uuid : Uuids]
    /\ stored \subseteq Uuids
    /\ late \in Nat

Init ==
    /\ phase = "draw" /\ pc = "check" /\ attempt = 0
    /\ failed = FALSE /\ uncertain = FALSE /\ uuid = 0
    /\ stop = FALSE /\ outcome = "none" /\ reply = "none"
    /\ net = {} /\ stored = {} /\ drawn = 0 /\ late = 0

-----------------------------------------------------------------------------
(* The loops. *)

Enter(p) ==
    /\ phase' = p /\ pc' = "check" /\ attempt' = 0 /\ failed' = FALSE
    /\ UNCHANGED <<uuid, outcome>>

Conclude(o) ==
    /\ phase' = "done" /\ outcome' = o
    /\ UNCHANGED <<pc, attempt, failed, uuid>>

\* What an error means for the publication, by the loop that gives up.
GiveUp(p) == CASE p = "draw" -> "not_committed"
               [] p = "publish" -> "unknown"
               [] p = "query" -> "committed"

\* RPCStopped, unless an attempt of this loop has failed before.
Halted(p) == IF failed \/ p = "query" THEN GiveUp(p) ELSE "stopped"

Check_Deaf ==
    /\ phase \in Loops /\ pc = "check"
    /\ pc' = "go"
    /\ UNCHANGED <<phase, attempt, failed, uncertain, uuid, outcome, stop, reply, openevent, late>>

\* stop_event and before_rpc are looked at before an attempt, not during it.
Check ==
    /\ phase \in Loops /\ pc = "check"
    /\ \/ ~stop /\ pc' = "go" /\ UNCHANGED <<phase, attempt, failed, uuid, outcome>>
       \/ stop /\ Conclude(Halted(phase))
    /\ UNCHANGED <<uncertain, stop, reply, openevent, late>>

Go ==
    /\ phase \in Loops /\ pc = "go"
    /\ pc' = "sent" /\ reply' = "none"
    /\ net' = IF phase = "publish" THEN net \cup {[n |-> attempt, uuid |-> uuid]} ELSE net
    /\ late' = IF stop THEN late + 1 ELSE late
    /\ UNCHANGED <<phase, attempt, failed, uncertain, uuid, outcome, stop, stored, drawn>>

FailedAttempt_NoLimit ==
    IF stop
    THEN Conclude(GiveUp(phase))
    ELSE pc' = "wait" /\ failed' = TRUE /\ UNCHANGED <<phase, attempt, uuid, outcome>>

\* The attempt has failed and may be repeated, unless that was the last one.
FailedAttempt ==
    IF attempt = MaxRetries \/ stop
    THEN Conclude(GiveUp(phase))
    ELSE pc' = "wait" /\ failed' = TRUE /\ UNCHANGED <<phase, attempt, uuid, outcome>>

\* The delay has passed, or the stop event has cut it short.
Wait ==
    /\ phase \in Loops /\ pc = "wait"
    /\ \/ /\ ~stop
          /\ pc' = "check" /\ attempt' = attempt + 1
          /\ UNCHANGED <<phase, failed, uuid, outcome>>
       \/ stop /\ Conclude(GiveUp(phase))
    /\ UNCHANGED <<uncertain, stop, reply, openevent, late>>

-----------------------------------------------------------------------------
(* The answers. *)

\* call_rpc: a status that is neither absent nor retryable ends the loop.
RpcError ==
    \/ FailedAttempt                  \* unavailable
    \/ Conclude(GiveUp(phase))        \* denied, odd

DrawAnswer ==
    /\ phase = "draw" /\ pc = "sent"
    /\ \/ /\ drawn < MaxRetries + 1
          /\ uuid' = drawn + 1 /\ drawn' = drawn + 1
          /\ phase' = "before" /\ UNCHANGED <<pc, attempt, failed, outcome>>
       \/ RpcError /\ UNCHANGED drawn
    /\ UNCHANGED <<uncertain, stop, reply, net, stored, late>>

\* before_publish, the last chance of the caller to refuse.
Before ==
    /\ phase = "before"
    /\ Enter("publish") \/ Conclude("refused")
    /\ UNCHANGED <<uncertain, stop, reply, openevent, late>>

Denied_Definite == Conclude("not_committed")
Denied == Conclude(IF uncertain THEN "unknown" ELSE "not_committed")

\* publish_auto_seq has returned or raised.
PublishAnswer ==
    /\ phase = "publish" /\ pc = "sent"
    /\ \/ reply = "ok" /\ Conclude("seq") /\ UNCHANGED uncertain
       \/ reply = "exists" /\ Enter("query") /\ UNCHANGED uncertain
       \/ reply = "denied" /\ Denied /\ UNCHANGED uncertain
       \/ FailedAttempt /\ uncertain' = TRUE     \* unavailable, odd
    /\ UNCHANGED <<stop, reply, openevent, late>>

QueryAnswer ==
    /\ phase = "query" /\ pc = "sent"
    /\ \/ uuid \in stored /\ Conclude("seq")
       \/ RpcError
    /\ UNCHANGED <<uncertain, stop, reply, openevent, late>>

-----------------------------------------------------------------------------
(* OpenEvent, and the owner of stop_event. *)

\* An attempt arrives: committed, known already, or refused, which OpenEvent
\* may do before it looks at the UUID.  Only the caller that still waits for
\* this attempt learns of it.
Arrive(m) ==
    /\ m \in net
    /\ net' = net \ {m}
    /\ \E verdict \in Verdicts :
          /\ verdict = "ok" => m.uuid \notin stored
          /\ verdict = "exists" => m.uuid \in stored
          /\ stored' = IF verdict = "ok" THEN stored \cup {m.uuid} ELSE stored
          /\ reply' = IF phase = "publish" /\ pc = "sent" /\ attempt = m.n THEN verdict ELSE reply
    /\ UNCHANGED <<client, stop, drawn, late>>

SetStop ==
    /\ ~stop /\ stop' = TRUE
    /\ UNCHANGED <<client, reply, openevent, late>>

Step == Check \/ Go \/ Wait \/ DrawAnswer \/ Before \/ PublishAnswer \/ QueryAnswer

Done == phase = "done" /\ UNCHANGED vars

Next == Step \/ (\E m \in net : Arrive(m)) \/ SetStop \/ Done

Spec == Init /\ [][Next]_vars

\* Every RPC has a deadline and every delay an end.
LiveSpec == Spec /\ WF_vars(Step)

-----------------------------------------------------------------------------
(* Properties. *)

\* Once stop_event is set at most the attempt that had already been checked is
\* still begun, and no loop starts another (the checks of call_rpc and _publish
\* and both stop_event.wait).
StopQuiets == late <= 1

\* For its callers _publish is an append that happens at most once and is
\* reported truthfully: a refusal after an attempt of unknown fate is not taken
\* for NOT_COMMITTED, RPCStopped means that nothing was sent, and an event that
\* OpenEvent has is never said to be missing.
Contract == INSTANCE PublishContract WITH
    copies <- Cardinality(stored), conclusion <- outcome

ImplementsContract == Contract!CLiveSpec
=============================================================================
