--------------------------- MODULE PublishingProofs ---------------------------
(***************************************************************************)
(* _publish keeps its contract for any number of retries.                  *)
(***************************************************************************)
EXTENDS Publishing, TLAPS, FiniteSetTheorems

Untouched == net = {} /\ stored = {}

\* Only one UUID is ever sent; the attempts on their way are old ones or the
\* present one, which has no answer while it is on its way.  A delay is followed
\* by an attempt.
NetInv ==
    /\ phase \in Loops /\ pc = "wait" => attempt < MaxRetries
    /\ \A m \in net : m.uuid = uuid
    /\ phase = "publish" => \A m \in net : m.n <= attempt
    /\ stored \subseteq {uuid}
    /\ phase \in {"draw", "before"} => Untouched /\ uncertain = FALSE
    /\ phase = "publish" /\ pc \in {"check", "go"} => \A m \in net : m.n < attempt
    /\ phase = "publish" /\ pc = "sent" /\ reply # "none" => \A m \in net : m.n < attempt
    /\ phase \in {"before", "publish", "query"} => uuid # 0

\* What the caller would be told is true.
FateInv ==
    /\ phase # "done" => outcome = "none"
    /\ phase = "publish" => failed = uncertain
    /\ phase = "publish" /\ pc = "wait" => uncertain
    /\ phase = "publish" /\ ~uncertain /\ pc \in {"check", "go"} => Untouched
    /\ phase = "publish" /\ ~uncertain /\ pc = "sent" =>
          /\ stored = {} \/ reply \in {"ok", "exists"}
          /\ \A m \in net : m.n = attempt
          /\ reply # "none" => net = {}
    /\ phase = "publish" /\ pc = "sent" /\ reply \in {"ok", "exists"} => uuid \in stored
    /\ phase = "query" => uuid \in stored
    /\ phase = "done" =>
          /\ outcome # "none"
          /\ outcome \in {"not_committed", "stopped", "refused"} => Untouched
          /\ outcome \in {"seq", "committed"} => uuid \in stored

LateInv ==
    /\ late <= 1
    /\ ~stop => late = 0
    /\ phase \in Loops /\ pc = "go" => late = 0

PInv == TypeOK /\ NetInv /\ FateInv /\ LateInv
-----------------------------------------------------------------------------
(* The invariant is inductive. *)

\* A publication that has not begun satisfies the invariant.
LEMMA InitInv == Init => PInv
  <1> SUFFICES ASSUME Init PROVE PInv
    OBVIOUS
  <1>1. /\ attempt \in Attempts /\ late \in Nat
        /\ uuid \in Uuids \cup {0} /\ drawn \in Uuids \cup {0}
    BY RetriesAssumption DEF Init, Attempts
  <1>2. failed \in BOOLEAN /\ uncertain \in BOOLEAN /\ stop \in BOOLEAN
    BY Zenon DEF Init
  <1>3. TypeOK
    BY <1>1, <1>2 DEF Init, TypeOK, Loops
  <1>4. NetInv /\ FateInv /\ LateInv
    BY DEF Init, NetInv, FateInv, LateInv, Untouched, Loops
  <1>5. QED
    BY <1>3, <1>4 DEF PInv

\* The typing of the variables that the helpers of the loops write.
ClientTypes ==
    /\ phase \in Loops \cup {"before", "done"}
    /\ pc \in {"check", "go", "sent", "wait"}
    /\ attempt \in Attempts
    /\ failed \in BOOLEAN
    /\ uuid \in Uuids \cup {0}
    /\ outcome \in Outcomes \cup {"none"}

\* The ways on and out of the loops keep the types of what they change.
LEMMA HelperTypes ==
    ASSUME TypeOK
    PROVE  /\ \A o \in Outcomes : Conclude(o) => ClientTypes'
           /\ \A p \in Loops : Enter(p) => ClientTypes'
           /\ phase \in Loops => GiveUp(phase) \in Outcomes
           /\ phase \in Loops /\ FailedAttempt => ClientTypes'
           /\ phase \in Loops /\ RpcError => ClientTypes'
  <1>1. ASSUME NEW o \in Outcomes, Conclude(o) PROVE ClientTypes'
    BY <1>1 DEF Conclude, TypeOK, ClientTypes
  <1>2. ASSUME NEW p \in Loops, Enter(p) PROVE ClientTypes'
    <2>1. 0 \in Attempts
      BY RetriesAssumption DEF Attempts
    <2>2. failed' \in BOOLEAN
      BY <1>2, Zenon DEF Enter
    <2>3. QED
      BY <1>2, <2>1, <2>2 DEF Enter, TypeOK, ClientTypes
  <1>3. phase \in Loops => GiveUp(phase) \in Outcomes
    BY DEF GiveUp, Loops, Outcomes
  <1>4. ASSUME phase \in Loops, FailedAttempt PROVE ClientTypes'
    <2>1. CASE Conclude(GiveUp(phase))
      BY <1>1, <1>3, <1>4, <2>1
    <2>2. CASE pc' = "wait" /\ failed' = TRUE /\ UNCHANGED <<phase, attempt, uuid, outcome>>
      BY <2>2 DEF TypeOK, ClientTypes
    <2>3. QED
      BY <1>4, <2>1, <2>2 DEF FailedAttempt
  <1>5. QED
    BY <1>1, <1>2, <1>3, <1>4 DEF RpcError

\* The check of stop_event keeps the invariant.
LEMMA CheckInv == PInv /\ Check => PInv'
  <1> SUFFICES ASSUME PInv, Check PROVE PInv'
    OBVIOUS
  <1> USE RetriesAssumption DEF PInv, Check, Halted, GiveUp, Conclude, openevent, Loops
  <1>1. TypeOK'
    <2>1. CASE ~stop
      BY <2>1 DEF TypeOK
    <2>2. CASE stop
      <3>1. ClientTypes'
        <4>1. Halted(phase) \in Outcomes
          BY HelperTypes DEF Outcomes
        <4>2. QED
          BY <2>2, <4>1, HelperTypes
      <3>2. QED
        BY <2>2, <3>1 DEF TypeOK, ClientTypes
    <2>3. QED
      BY <2>1, <2>2
  <1>2. NetInv'
    BY DEF TypeOK, NetInv, FateInv, Untouched, Attempts, Uuids
  <1>3. FateInv'
    BY DEF TypeOK, NetInv, FateInv, Untouched, Attempts, Uuids
  <1>4. LateInv'
    BY DEF TypeOK, LateInv
  <1>5. QED
    BY <1>1, <1>2, <1>3, <1>4

\* Beginning an attempt keeps the invariant.
LEMMA GoInv == PInv /\ Go => PInv'
  <1> SUFFICES ASSUME PInv, Go PROVE PInv'
    OBVIOUS
  <1> USE RetriesAssumption DEF PInv, Go, openevent, Loops
  <1>1. TypeOK'
    <2>1. net' \subseteq [n : Attempts, uuid : Uuids]
      BY DEF TypeOK, NetInv
    <2>2. late' \in Nat
      BY DEF TypeOK
    <2>3. QED
      BY <2>1, <2>2 DEF TypeOK
  <1>2. NetInv'
    BY DEF TypeOK, NetInv, FateInv, Untouched, Attempts, Uuids
  <1>3. FateInv'
    BY DEF TypeOK, NetInv, FateInv, Untouched, Attempts, Uuids
  <1>4. LateInv'
    BY DEF TypeOK, LateInv
  <1>5. QED
    BY <1>1, <1>2, <1>3, <1>4

\* The delay between attempts keeps the invariant.
LEMMA WaitInv == PInv /\ Wait => PInv'
  <1> SUFFICES ASSUME PInv, Wait PROVE PInv'
    OBVIOUS
  <1> USE RetriesAssumption DEF PInv, Wait, GiveUp, Conclude, openevent, Loops
  <1>1. TypeOK'
    <2>1. CASE ~stop
      <3>1. attempt + 1 \in Attempts
        BY <2>1 DEF TypeOK, NetInv, Attempts
      <3>2. QED
        BY <2>1, <3>1 DEF TypeOK
    <2>2. CASE stop
      <3>1. ClientTypes'
        BY <2>2, HelperTypes
      <3>2. QED
        BY <2>2, <3>1 DEF TypeOK, ClientTypes
    <2>3. QED
      BY <2>1, <2>2
  <1>2. NetInv'
    BY DEF TypeOK, NetInv, FateInv, Untouched, Attempts, Uuids
  <1>3. FateInv'
    BY DEF TypeOK, NetInv, FateInv, Untouched, Attempts, Uuids
  <1>4. LateInv'
    BY DEF TypeOK, LateInv
  <1>5. QED
    BY <1>1, <1>2, <1>3, <1>4

\* The reply to get_uuid keeps the invariant.
LEMMA DrawAnswerInv == PInv /\ DrawAnswer => PInv'
  <1> SUFFICES ASSUME PInv, DrawAnswer PROVE PInv'
    OBVIOUS
  <1> USE RetriesAssumption DEF PInv, DrawAnswer, RpcError, FailedAttempt, GiveUp, Conclude, openevent, Loops
  <1>1. TypeOK'
    <2>1. CASE /\ drawn < MaxRetries + 1 /\ uuid' = drawn + 1 /\ drawn' = drawn + 1
               /\ phase' = "before" /\ UNCHANGED <<pc, attempt, failed, outcome>>
      <3>1. uuid' \in Uuids /\ drawn' \in Uuids
        BY <2>1 DEF TypeOK, Uuids
      <3>2. QED
        BY <2>1, <3>1 DEF TypeOK
    <2>2. CASE RpcError /\ drawn' = drawn
      <3>1. ClientTypes'
        BY <2>2, HelperTypes
      <3>2. QED
        BY <2>2, <3>1 DEF TypeOK, ClientTypes
    <2>3. QED
      BY <2>1, <2>2
  <1>2. NetInv'
    BY DEF TypeOK, NetInv, FateInv, Untouched, Attempts, Uuids
  <1>3. FateInv'
    BY DEF TypeOK, NetInv, FateInv, Untouched, Attempts, Uuids
  <1>4. LateInv'
    BY DEF TypeOK, LateInv
  <1>5. QED
    BY <1>1, <1>2, <1>3, <1>4

\* before_publish keeps the invariant.
LEMMA BeforeInv == PInv /\ Before => PInv'
  <1> SUFFICES ASSUME PInv, Before PROVE PInv'
    OBVIOUS
  <1> USE RetriesAssumption DEF PInv, Before, Enter, Conclude, openevent, Loops
  <1>1. TypeOK'
    <2>1. ClientTypes'
      BY HelperTypes DEF Outcomes
    <2>2. QED
      BY <2>1 DEF TypeOK, ClientTypes
  <1>2. NetInv'
    BY DEF TypeOK, NetInv, FateInv, Untouched, Attempts, Uuids
  <1>3. FateInv'
    BY DEF TypeOK, NetInv, FateInv, Untouched, Attempts, Uuids
  <1>4. LateInv'
    BY DEF TypeOK, LateInv
  <1>5. QED
    BY <1>1, <1>2, <1>3, <1>4

\* The reply to an attempt keeps the invariant.
LEMMA PublishAnswerInv == PInv /\ PublishAnswer => PInv'
  <1> SUFFICES ASSUME PInv, PublishAnswer PROVE PInv'
    OBVIOUS
  <1> USE RetriesAssumption DEF PInv, PublishAnswer, FailedAttempt, GiveUp, Conclude, Enter, Denied, openevent, Loops
  <1>1. TypeOK'
    <2>1. ClientTypes'
      BY HelperTypes DEF Outcomes
    <2>2. uncertain' \in BOOLEAN
      BY Zenon DEF TypeOK
    <2>3. QED
      BY <2>1, <2>2 DEF TypeOK, ClientTypes
  <1>2. NetInv'
    BY DEF TypeOK, NetInv, FateInv, Untouched, Attempts, Uuids
  <1>3. FateInv'
    BY DEF TypeOK, NetInv, FateInv, Untouched, Attempts, Uuids
  <1>4. LateInv'
    BY DEF TypeOK, LateInv
  <1>5. QED
    BY <1>1, <1>2, <1>3, <1>4

\* The reply to get_seq_by_uuid keeps the invariant.
LEMMA QueryAnswerInv == PInv /\ QueryAnswer => PInv'
  <1> SUFFICES ASSUME PInv, QueryAnswer PROVE PInv'
    OBVIOUS
  <1> USE RetriesAssumption DEF PInv, QueryAnswer, RpcError, FailedAttempt, GiveUp, Conclude, openevent, Loops
  <1>1. TypeOK'
    BY DEF TypeOK, Attempts, Uuids, Outcomes
  <1>2. NetInv'
    BY DEF TypeOK, NetInv, FateInv, Untouched, Attempts, Uuids
  <1>3. FateInv'
    BY DEF TypeOK, NetInv, FateInv, Untouched, Attempts, Uuids
  <1>4. LateInv'
    BY DEF TypeOK, LateInv
  <1>5. QED
    BY <1>1, <1>2, <1>3, <1>4

\* An attempt that arrives, however late, keeps the invariant.
LEMMA ArriveInv ==
    ASSUME PInv, NEW m \in net, Arrive(m)
    PROVE  PInv'
  <1> USE DEF PInv, Loops
  <1>1. PICK verdict \in Verdicts :
           /\ verdict = "ok" => m.uuid \notin stored
           /\ verdict = "exists" => m.uuid \in stored
           /\ stored' = IF verdict = "ok" THEN stored \cup {m.uuid} ELSE stored
           /\ reply' = IF phase = "publish" /\ pc = "sent" /\ attempt = m.n THEN verdict ELSE reply
    BY DEF Arrive
  <1>2. net' = net \ {m} /\ UNCHANGED <<client, stop, drawn, late>>
    BY DEF Arrive
  <1>3. /\ m.uuid = uuid /\ uuid \in Uuids /\ stored \subseteq {uuid}
        /\ phase \notin {"draw", "before"}
    BY DEF TypeOK, NetInv, Untouched
  <1>4. TypeOK'
    BY <1>1, <1>2, <1>3 DEF TypeOK, client
  <1>5. NetInv'
    BY <1>1, <1>2, <1>3 DEF TypeOK, NetInv, client, Attempts
  <1>6. FateInv'
    <2>1. CASE phase = "publish" /\ ~uncertain
      BY <1>1, <1>2, <1>3, <2>1 DEF TypeOK, NetInv, FateInv, Untouched, client, Verdicts, Attempts
    <2>2. CASE phase = "publish" /\ uncertain
      BY <1>1, <1>2, <1>3, <2>2 DEF TypeOK, FateInv, client, Verdicts
    <2>3. CASE phase # "publish"
      BY <1>1, <1>2, <1>3, <2>3 DEF FateInv, Untouched, client
    <2>4. QED
      BY <2>1, <2>2, <2>3
  <1>7. LateInv'
    BY <1>2 DEF LateInv, client
  <1>8. QED
    BY <1>4, <1>5, <1>6, <1>7

\* A stop keeps the invariant.
LEMMA SetStopInv == PInv /\ SetStop => PInv'
  BY DEF PInv, SetStop, TypeOK, NetInv, FateInv, LateInv, Untouched, client, openevent

\* Every step keeps the invariant.
LEMMA NextInv == PInv /\ [Next]_vars => PInv'
  <1> SUFFICES ASSUME PInv, [Next]_vars PROVE PInv'
    OBVIOUS
  <1>1. CASE UNCHANGED vars
    BY <1>1 DEF PInv, TypeOK, NetInv, FateInv, LateInv, Untouched, vars, client, openevent
  <1>2. CASE Step
    BY <1>2, CheckInv, GoInv, WaitInv, DrawAnswerInv, BeforeInv, PublishAnswerInv, QueryAnswerInv
       DEF Step
  <1>3. QED
    BY <1>1, <1>2, ArriveInv, SetStopInv DEF Next, Done

\* In every behaviour one UUID at most is on its way or committed, and what is
\* known of the attempts is recorded in uncertain.
THEOREM PublishingInvariance == Spec => []PInv
  BY InitInv, NextInv, PTL DEF Spec

\* The variables of a publication keep their shape, and the loops their bound.
THEOREM PublishingTypes == Spec => []TypeOK
  <1>1. PInv => TypeOK
    BY DEF PInv
  <1>2. QED
    BY <1>1, PublishingInvariance, PTL

\* After stop_event is set at most one RPC is begun, however many retries are
\* configured and whatever loop was running.
THEOREM Quiet == Spec => []StopQuiets
  <1>1. PInv => StopQuiets
    BY DEF PInv, LateInv, StopQuiets
  <1>2. QED
    BY <1>1, PublishingInvariance, PTL

-----------------------------------------------------------------------------
(* Refinement. *)

\* What the caller is told, when it is told.
LEMMA Told ==
    ASSUME PInv, PInv', phase # "done", outcome' # outcome, stored' = stored
    PROVE  Contract!Conclude
  <1>1. outcome = "none" /\ outcome' \in Outcomes
    BY DEF PInv, TypeOK, FateInv
  <1>2. phase' = "done"
    BY <1>1 DEF PInv, FateInv
  <1>3. /\ outcome' \in {"seq", "committed"} => Cardinality(stored) = 1
        /\ outcome' \in {"not_committed", "stopped", "refused"} => Cardinality(stored) = 0
    <2>1. /\ outcome' \in {"seq", "committed"} => uuid' \in stored'
          /\ outcome' \in {"not_committed", "stopped", "refused"} => stored' = {}
      BY <1>2 DEF PInv, FateInv, Untouched
    <2>2. Cardinality({}) = 0 /\ Cardinality({uuid'}) = 1
      BY FS_EmptySet, FS_Singleton
    <2>4. stored' = {} \/ stored' = {uuid'}
      BY DEF PInv, NetInv
    <2>3. QED
      BY <2>1, <2>2, <2>4
  <1>4. QED
    BY <1>1, <1>3 DEF Contract!Conclude, Contract!Present, Contract!Never, Contract!Conclusions,
                      Outcomes

\* The copy that an arrival stores is the first.
LEMMA ArriveEnters ==
    ASSUME PInv, NEW m \in net, Arrive(m), stored' # stored
    PROVE  Contract!Enter
  <1>1. m.uuid = uuid /\ stored \subseteq {uuid} /\ stored' = stored \cup {uuid} /\ outcome' = outcome
    BY DEF Arrive, client, PInv, NetInv
  <1>2. stored = {} /\ stored' = {uuid}
    BY <1>1
  <1>3. outcome \notin {"not_committed", "stopped", "refused"}
    BY DEF PInv, FateInv, Untouched
  <1>4. Cardinality(stored) = 0 /\ Cardinality(stored') = 1
    BY <1>2, FS_EmptySet, FS_Singleton
  <1>5. QED
    BY <1>1, <1>3, <1>4 DEF Contract!Enter, Contract!Never

\* _publish is an append that happens at most once and whose conclusion is
\* true, now and later: every step of it is one of PublishContract or none.
THEOREM PublishRefines == Spec => Contract!CSpec
  <1>1. Init => Contract!CInit
    BY FS_EmptySet DEF Init, Contract!CInit
  <1>2. PInv /\ PInv' /\ [Next]_vars => [Contract!CNext]_<<Cardinality(stored), outcome>>
    <2> SUFFICES ASSUME PInv, PInv', [Next]_vars, ~UNCHANGED <<stored, outcome>>
                 PROVE  Contract!CNext
      OBVIOUS
    <2>1. ASSUME NEW m \in net, Arrive(m) PROVE Contract!CNext
      BY <2>1, ArriveEnters DEF Arrive, client, Contract!CNext
    <2>2. CASE Step
      <3>1. stored' = stored
        BY <2>2 DEF Step, Check, Go, Wait, DrawAnswer, Before, PublishAnswer, QueryAnswer, openevent
      <3>2. QED
        BY <2>2, <3>1, Told DEF Contract!CNext, Step, Check, Go, Wait, DrawAnswer, Before,
                                PublishAnswer, QueryAnswer, Loops
    <2>3. QED
      BY <2>1, <2>2 DEF Next, Done, SetStop, vars, client, openevent
  <1>3. QED
    BY <1>1, <1>2, PublishingInvariance, PTL DEF Spec, Contract!CSpec, Contract!cvars
=============================================================================
