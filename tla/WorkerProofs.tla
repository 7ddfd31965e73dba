---------------------------- MODULE WorkerProofs ----------------------------
(***************************************************************************)
(* Theorems about the Worker for every value of its constants.             *)
(***************************************************************************)
EXTENDS WorkerProperties, TLAPS, SequenceTheorems, FiniteSetTheorems

(***************************************************************************)
(* The inductive invariant.                                                *)
(***************************************************************************)
Asked(s) == s \in 1..Len(log) /\ log[s] \in Requests

\* The first request of its key, and one that passes the admission checks.
First(s) ==
    /\ Asked(s)
    /\ log[s].fit = "ok"
    /\ \A q \in 1..(s - 1) : IsRequest(log[q]) => log[q].key # log[s].key

\* Every request that this incarnation has accounted for is at most here.
Known == IF proc = "live" THEN lastSeen ELSE IF proc = "scan" THEN target ELSE 0

\* Requests are only written while their seq is within the bound.
RequestsBounded == \A i \in 1..Len(log) : IsRequest(log[i]) => i \in Seqs

ReaderInv ==
    /\ proc = "down" => originals = {} /\ pending = <<>> /\ controls = <<>>
    /\ proc = "scan" => /\ target <= Len(log) /\ cursor \in 1..(target + 1)
                        /\ pending = <<>> /\ controls = <<>>
    /\ proc = "live" => lastSeen <= Len(log) /\ cursor <= lastSeen + 1

OriginalsInv ==
    proc # "down" => originals = {log[i].key : i \in RequestSeqs(Seen)}

ThreadInv ==
    \A s \in Seqs :
        /\ Tracked(s) => Asked(s) /\ s <= Seen
        /\ agent[s].role = "none" <=> agent[s].pc = "idle"
        /\ agent[s].pc # "idle" => proc # "down" /\ Asked(s) /\ s <= Seen
        /\ agent[s].pc \in {"emit", "publish"} => agent[s].event \in Outputs
        /\ agent[s].role = "provider" => First(s)
        /\ agent[s].role = "provider" /\ agent[s].pc \in {"begin", "install", "start"}
              => invoked[s] = 0

InvokedInv ==
    \A s \in Seqs : invoked[s] > 0 =>
        invoked[s] = 1 /\ First(s) /\ (proc # "down" => s <= Known)

\* A request waits in one place, and no thread works for it yet.
QueueInv ==
    /\ \A i \in 1..Len(pending) :
          /\ First(pending[i]) /\ pending[i] <= lastSeen
          /\ invoked[pending[i]] = 0 /\ agent[pending[i]].pc = "idle"
    /\ \A i, j \in 1..Len(pending) : i # j => pending[i] # pending[j]
    /\ \A i \in 1..Len(controls) :
          /\ Asked(controls[i][1]) /\ controls[i][1] <= lastSeen
          /\ agent[controls[i][1]].pc = "idle"
    /\ \A i, j \in 1..Len(controls) : i # j => controls[i][1] # controls[j][1]
    /\ \A i \in 1..Len(pending), j \in 1..Len(controls) : pending[i] # controls[j][1]

IInv == TypeOK /\ RequestsBounded /\ ReaderInv /\ OriginalsInv /\ ThreadInv /\ InvokedInv /\ QueueInv

-----------------------------------------------------------------------------
(* Messages and the log. *)

\* The kind of a message tells which set of records it is from.
LEMMA MessageKinds ==
    ASSUME NEW m \in Messages
    PROVE  /\ IsRequest(m) => m \in Requests
           /\ m.kind = "result" => m \in Results
           /\ m.kind = "append" => m \in Appends
           /\ m.kind = "end" => m \in Ends
           /\ m \in Requests => IsRequest(m)
  <1>1. /\ \A x \in Requests : x.kind = "request"
        /\ \A x \in Results : x.kind = "result"
        /\ \A x \in Appends : x.kind = "append"
        /\ \A x \in Ends : x.kind = "end"
        /\ \A x \in Cancels : x.kind = "cancel"
        /\ System.kind = "system" /\ Invalid.kind = "invalid"
    BY DEF Requests, Results, Appends, Ends, Cancels, System, Invalid
  <1>2. \/ m \in Requests \/ m \in Results \/ m \in Appends \/ m \in Ends \/ m \in Cancels
        \/ m = System \/ m = Invalid
    BY DEF Messages, Outputs
  <1>3. QED
    BY <1>1, <1>2 DEF IsRequest

\* What _error_output builds is an output for the request it was asked about.
LEMMA ErrorEventType ==
    ASSUME NEW s \in Seqs, NEW code, NEW rec, NEW rej, log[s] \in Requests,
           code \in InterruptedCodes \/ (rej /\ code \in Codes)
    PROVE  ErrorEvent(s, code, rec, rej) \in Outputs
  <1>1. log[s].key \in Keys /\ s \in Nat
    BY DEF Requests, Seqs
  <1>2. /\ InterruptedCodes \subseteq {Http} \cup ResultCodes
        /\ Codes \subseteq {Http} \cup ResultCodes
    BY DEF InterruptedCodes, ResultCodes, Codes, ProviderCodes, Duplicate, Interrupted, TooLarge,
           BadProvider
  <1>3. CASE EndsStream(s, rec, rej)
    <2>1. code \in InterruptedCodes
      BY <1>3 DEF EndsStream
    <2>2. QED
      BY <1>1, <1>3, <2>1 DEF ErrorEvent, Outputs, Ends, End
  <1>4. CASE ~EndsStream(s, rec, rej)
    BY <1>1, <1>2, <1>4 DEF ErrorEvent, Outputs, Results, Result
  <1>5. QED
    BY <1>3, <1>4

\* Outputs for a request.
LEMMA OutputTypes ==
    ASSUME NEW m \in Requests, NEW s \in Nat
    PROVE  /\ AppendEvent(m.key, s, s) \in Messages /\ ~IsRequest(AppendEvent(m.key, s, s))
           /\ \A body \in BOOLEAN : /\ Result(m.key, s, body, Http) \in Messages
                                   /\ ~IsRequest(Result(m.key, s, body, Http))
           /\ End(m.key, s, Http) \in Messages /\ ~IsRequest(End(m.key, s, Http))
  <1>1. m.key \in Keys
    BY DEF Requests
  <1>2. AppendEvent(m.key, s, s) \in Appends /\ End(m.key, s, Http) \in Ends
    BY <1>1 DEF AppendEvent, Appends, End, Ends
  <1>3. \A body \in BOOLEAN : Result(m.key, s, body, Http) \in Results
    BY <1>1 DEF Result, Results
  <1>4. QED
    BY <1>2, <1>3 DEF Messages, Outputs, AppendEvent, Result, End, IsRequest

\* A message appended to the log moves no earlier one.
LEMMA LogAppend ==
    ASSUME log \in Seq(Messages), NEW m \in Messages, log' = Append(log, m)
    PROVE  /\ log' \in Seq(Messages)
           /\ Len(log') = Len(log) + 1
           /\ \A i \in 1..Len(log) : log'[i] = log[i]
  BY AppendProperties

\* Facts about a prefix of the log survive its growth.
LEMMA LogGrowth ==
    ASSUME log \in Seq(Messages), NEW m \in Messages, log' = Append(log, m), NEW s
    PROVE  /\ Asked(s) => Asked(s)'
           /\ First(s) => First(s)'
  <1>1. /\ Len(log) \in Nat /\ Len(log') = Len(log) + 1
        /\ \A i \in 1..Len(log) : log'[i] = log[i]
    BY LogAppend, LenProperties
  <1>2. Asked(s) => Asked(s)'
    BY <1>1 DEF Asked
  <1>3. ASSUME First(s) PROVE First(s)'
    <2>1. s \in 1..Len(log) /\ \A q \in 1..(s - 1) : q \in 1..Len(log)
      BY <1>1, <1>3 DEF First, Asked
    <2>2. QED
      BY <1>1, <1>2, <1>3, <2>1 DEF First, IsRequest
  <1>4. QED
    BY <1>2, <1>3

\* What the queues hold.
LEMMA QueueTypes ==
    ASSUME TypeOK
    PROVE  /\ \A i \in 1..Len(pending) : pending[i] \in Seqs
           /\ \A i \in 1..Len(controls) : controls[i] \in Seqs \X Codes
           /\ \A i \in 1..Len(controls) : controls[i][1] \in Seqs
  <1>1. \A i \in 1..Len(pending) : pending[i] \in Seqs
    BY ElementOfSeq DEF TypeOK
  <1>2. \A i \in 1..Len(controls) : controls[i] \in Seqs \X Codes
    BY ElementOfSeq DEF TypeOK
  <1>3. QED
    BY <1>1, <1>2

-----------------------------------------------------------------------------
(* The invariant holds initially. *)

\* Nothing has happened: the invariant holds.
LEMMA InitInv == ConstantsAssumption /\ Init => IInv
  <1> SUFFICES ASSUME ConstantsAssumption, Init PROVE IInv
    OBVIOUS
  <1>1. TypeOK
    <2>1. Absent \in RequestState /\ Idle \in Agents
      BY DEF Absent, RequestState, Phases, Operations, Idle, Agents, Labels, Roles
    <2>2. <<>> \in Seq(Messages) /\ <<>> \in Seq(Seqs) /\ <<>> \in Seq(Seqs \X Codes)
      OBVIOUS
    <2>3. /\ requests \in [Seqs -> RequestState]
          /\ agent \in [Seqs -> Agents]
          /\ invoked \in [Seqs -> Nat]
      BY <2>1 DEF Init
    <2>4. /\ log \in Seq(Messages) /\ pending \in Seq(Seqs)
          /\ controls \in Seq(Seqs \X Codes)
      BY <2>2 DEF Init
    <2>5. /\ inflight \subseteq Publications /\ originals \subseteq Keys
          /\ proc \in {"down", "scan", "live"} /\ stopped \in BOOLEAN
      BY Zenon DEF Init
    <2>6. /\ epoch \in Nat /\ target \in Nat /\ cursor \in Nat /\ lastSeen \in Nat
          /\ running \in Int /\ faults \in Nat
      BY SMT DEF Init
    <2>7. QED
      BY <2>3, <2>4, <2>5, <2>6 DEF TypeOK
  <1>2. ReaderInv /\ OriginalsInv /\ RequestsBounded
    BY DEF Init, ReaderInv, OriginalsInv, RequestsBounded
  <1>3. ThreadInv /\ InvokedInv
    BY DEF Init, ThreadInv, InvokedInv, Tracked, Absent, Idle
  <1>4. QueueInv
    BY DEF Init, QueueInv
  <1>5. QED
    BY <1>1, <1>2, <1>3, <1>4 DEF IInv

-----------------------------------------------------------------------------
(* Other members write, and publications commit: only the log grows. *)

\* A message that enters the log without being read keeps the invariant.
LEMMA GrowthKeepsInv ==
    ASSUME IInv, NEW m \in Messages, log' = Append(log, m),
           IsRequest(m) => Len(log) < MaxSeq,
           TypeOK',
           UNCHANGED <<process, reader, requests, queues, running, invoked>>,
           \A s \in Seqs : /\ agent'[s].pc = agent[s].pc
                            /\ agent'[s].role = agent[s].role
                            /\ agent'[s].event = agent[s].event
    PROVE  IInv'
  <1> USE DEF process, reader, queues
  <1>1. /\ Len(log) \in Nat /\ Len(log') = Len(log) + 1
        /\ \A i \in 1..Len(log) : log'[i] = log[i]
        /\ \A s : Asked(s) => Asked(s)'
        /\ \A s : First(s) => First(s)'
    BY LogAppend, LogGrowth, LenProperties DEF IInv, TypeOK
  <1>4. RequestsBounded'
    <2>1. log'[Len(log) + 1] = m /\ 1..Len(log') = 1..Len(log) \cup {Len(log) + 1}
      BY <1>1, AppendProperties DEF IInv, TypeOK
    <2>2. IsRequest(m) => Len(log) + 1 \in Seqs
      BY <1>1, ConstantsAssumption DEF Seqs
    <2>3. QED
      BY <1>1, <2>1, <2>2 DEF IInv, RequestsBounded, IsRequest
  <1>2. ReaderInv'
    BY <1>1 DEF IInv, TypeOK, ReaderInv
  <1>3. OriginalsInv'
    <2>1. proc # "down" => Seen' = Seen /\ Seen <= Len(log) /\ Seen \in Int
      <3>1. /\ proc \in {"down", "scan", "live"} /\ cursor \in Nat /\ lastSeen \in Nat
            /\ target \in Nat
        BY DEF IInv, TypeOK
      <3>2. /\ proc = "scan" => cursor <= target + 1 /\ target <= Len(log)
            /\ proc = "live" => lastSeen <= Len(log)
        BY <3>1 DEF IInv, ReaderInv
      <3>3. QED
        BY <1>1, <3>1, <3>2 DEF Seen
    <2>2. proc # "down" => RequestSeqs(Seen)' = RequestSeqs(Seen)
      <3>1. proc # "down" => Seen' = Seen /\ 1..Seen \subseteq 1..Len(log)
        BY <1>1, <2>1
      <3>2. QED
        BY <1>1, <3>1 DEF RequestSeqs, IsRequest
    <2>3. proc # "down" => \A i \in RequestSeqs(Seen) : log'[i] = log[i]
      BY <1>1, <2>1 DEF RequestSeqs
    <2>4. proc # "down" => {log'[i].key : i \in RequestSeqs(Seen)} =
                              {log[i].key : i \in RequestSeqs(Seen)}
      BY <2>3
    <2>5. QED
      BY <2>2, <2>4 DEF IInv, OriginalsInv
  <1>5. ThreadInv'
    BY <1>1 DEF IInv, ThreadInv, Tracked, Seen
  <1>6. InvokedInv'
    BY <1>1 DEF IInv, InvokedInv, Known
  <1>7. QueueInv'
    <2>1. /\ \A i \in 1..Len(pending) : pending[i] \in Seqs
          /\ \A i \in 1..Len(controls) : controls[i][1] \in Seqs
      BY QueueTypes DEF IInv
    <2>2. UNCHANGED <<pending, controls, lastSeen, invoked>>
      OBVIOUS
    <2>3. \A i \in 1..Len(pending) : First(pending[i])' /\ agent'[pending[i]].pc = "idle"
      BY <1>1, <2>1, <2>2 DEF IInv, QueueInv
    <2>4. \A i \in 1..Len(controls) : Asked(controls[i][1])' /\ agent'[controls[i][1]].pc = "idle"
      BY <1>1, <2>1, <2>2 DEF IInv, QueueInv
    <2>5. QED
      BY <2>2, <2>3, <2>4 DEF IInv, QueueInv
  <1>8. QED
    BY <1>2, <1>3, <1>4, <1>5, <1>6, <1>7 DEF IInv

\* Other members and the server keep the invariant.
LEMMA EnvironmentInv == IInv /\ Environment => IInv'
  <1> SUFFICES ASSUME IInv, Environment PROVE IInv'
    OBVIOUS
  <1>1. ASSUME NEW m \in Messages, Write(m), IsRequest(m) => Len(log) < MaxSeq
        PROVE  IInv'
    <2>1. TypeOK'
      BY <1>1, LogAppend DEF Write, IInv, TypeOK, process, reader, worker, queues
    <2>2. QED
      BY <1>1, <2>1, GrowthKeepsInv DEF Write, worker, IInv, TypeOK, Agents
  <1>2. ASSUME NEW k \in Keys, NEW kind \in RequestKinds, PublishRequest(k, kind[1], kind[2])
        PROVE  IInv'
    <2>1. Request(k, kind[1], kind[2]) \in Messages
      BY ConstantsAssumption DEF Request, Messages, Requests
    <2>2. QED
      BY <1>1, <1>2, <2>1 DEF PublishRequest, Write
  <1>3. ASSUME NEW k \in Keys, NEW s \in Seqs, PublishCancel(k, s) PROVE IInv'
    <2>1. Cancel(k, s) \in Messages
      BY DEF Cancel, Messages, Cancels, Seqs
    <2>2. QED
      BY <1>1, <1>3, <2>1 DEF PublishCancel, IsRequest, Cancel
  <1>4. ASSUME NEW n \in Noise, PublishNoise(n) PROVE IInv'
    <2>1. /\ System \in Messages /\ Invalid \in Messages
          /\ ~IsRequest(System) /\ ~IsRequest(Invalid)
      BY DEF Messages, System, Invalid, IsRequest
    <2>2. ASSUME NEW s \in Seqs, s <= Len(log), IsRequest(log[s]) PROVE Foreign(s) \in Messages /\ ~IsRequest(Foreign(s))
      <3>1. log[s] \in Requests
        BY <2>2, MessageKinds DEF IInv, TypeOK, Seqs
      <3>2. s \in Nat
        BY DEF Seqs
      <3>3. QED
        BY <3>1, <3>2, OutputTypes DEF Foreign
    <2>4. ASSUME NEW s \in Seqs, s <= Len(log), IsRequest(log[s])
          PROVE  ForeignOutcome(s) \in Messages /\ ~IsRequest(ForeignOutcome(s))
      <3>1. log[s] \in Requests
        BY <2>4, MessageKinds DEF IInv, TypeOK, Seqs
      <3>2. s \in Nat
        BY DEF Seqs
      <3>3. QED
        BY <3>1, <3>2, OutputTypes DEF ForeignOutcome
    <2>3. QED
      BY <1>1, <1>4, <2>1, <2>2, <2>4 DEF PublishNoise
  <1>5. ASSUME NEW p \in inflight, Commit(p) PROVE IInv'
    <2>1. p.event \in Messages /\ ~IsRequest(p.event)
      BY DEF IInv, TypeOK, Publications, Messages, Outputs, Results, Appends, Ends, IsRequest
    <2>2. /\ agent' \in [Seqs -> Agents]
          /\ \A s \in Seqs : /\ agent'[s].pc = agent[s].pc
                              /\ agent'[s].role = agent[s].role
                              /\ agent'[s].event = agent[s].event
      <3>1. agent \in [Seqs -> Agents] /\ Len(log) \in Nat
        BY LenProperties DEF IInv, TypeOK
      <3>2. CASE Waiting(p) /\ p.event.ref \in Seqs
        <4>1. agent' = [agent EXCEPT ![p.event.ref].ack = Len(log) + 1]
          BY <1>5, <3>2 DEF Commit
        <4> DEFINE a == [agent[p.event.ref] EXCEPT !.ack = Len(log) + 1]
        <4>2. agent[p.event.ref] \in Agents
          BY <3>1, <3>2
        <4>3. /\ a \in Agents /\ a.pc = agent[p.event.ref].pc
              /\ a.role = agent[p.event.ref].role /\ a.event = agent[p.event.ref].event
          <5>1. ASSUME NEW b \in Agents, NEW n \in Nat
                PROVE  LET x == [b EXCEPT !.ack = n]
                       IN  x \in Agents /\ x.pc = b.pc /\ x.role = b.role /\ x.event = b.event
            BY DEF Agents
          <5>2. Len(log) + 1 \in Nat
            BY <3>1
          <5>3. QED
            BY <4>2, <5>1, <5>2
        <4>4. agent' = [agent EXCEPT ![p.event.ref] = a]
          BY <4>1
        <4> HIDE DEF a
        <4>5. QED
          BY <3>1, <3>2, <4>3, <4>4
      <3>3. CASE ~(Waiting(p) /\ p.event.ref \in Seqs)
        <4>1. agent' = agent
          BY <1>5, <3>1, <3>3 DEF Commit
        <4>2. QED
          BY <3>1, <4>1
      <3>4. QED
        BY <3>2, <3>3
    <2>3. TypeOK'
      BY <1>5, <2>1, <2>2, LogAppend DEF Commit, IInv, TypeOK, process, reader, queues
    <2>4. QED
      BY <1>5, <2>1, <2>2, <2>3, GrowthKeepsInv DEF Commit
  <1>6. QED
    BY <1>2, <1>3, <1>4, <1>5 DEF Environment

\* What has been processed lies before what is accounted for.
LEMMA SeenKnown ==
    ASSUME IInv
    PROVE  Seen \in Nat /\ Known \in Nat /\ Seen <= Known
  BY DEF IInv, TypeOK, ReaderInv, Seen, Known

-----------------------------------------------------------------------------
(* Steps of one thread: its label moves, it may end, and nothing is queued. *)

Early == {"begin", "install", "start"}

\* A step of threads that leaves the queues alone and frees no thread too early.
LEMMA ThreadMove ==
    ASSUME IInv, TypeOK',
           UNCHANGED <<log, proc, reader, queues>>,
           \A s \in Seqs : Tracked(s)' => Tracked(s) \/ agent[s].pc # "idle",
           \A s \in Seqs : \/ agent'[s] = agent[s]
                           \/ /\ agent[s].pc # "idle"
                              /\ \/ agent'[s].pc = "idle" /\ agent'[s].role = "none"
                                 \/ /\ agent'[s].pc # "idle"
                                    /\ agent'[s].role = agent[s].role
                                    /\ agent'[s].pc \in {"emit", "publish"}
                                          => agent'[s].event \in Outputs
                                    /\ agent'[s].pc \in Early => agent[s].pc \in Early,
           \A s \in Seqs : \/ invoked'[s] = invoked[s]
                           \/ /\ invoked'[s] = invoked[s] + 1
                              /\ agent[s].role = "provider" /\ agent[s].pc = "start"
                              /\ agent'[s].pc \notin Early
    PROVE  IInv'
  <1> USE DEF reader, queues, Early
  <1>1. \A s : (Asked(s)' <=> Asked(s)) /\ (First(s)' <=> First(s))
    BY DEF Asked, First
  <1>2. ReaderInv' /\ OriginalsInv' /\ Known' = Known /\ Seen' = Seen
    BY DEF IInv, ReaderInv, OriginalsInv, Known, Seen, RequestSeqs
  <1>3. ThreadInv'
    BY <1>1, <1>2 DEF IInv, ThreadInv
  <1>4. InvokedInv'
    <2> SUFFICES ASSUME NEW s \in Seqs, invoked'[s] > 0
                 PROVE  invoked'[s] = 1 /\ First(s)' /\ (proc' # "down" => s <= Known')
      BY DEF InvokedInv
    <2>1. CASE invoked'[s] = invoked[s]
      BY <1>1, <1>2, <2>1 DEF IInv, InvokedInv
    <2>2. CASE invoked'[s] = invoked[s] + 1 /\ agent[s].role = "provider" /\ agent[s].pc = "start"
      <3>1. invoked[s] = 0 /\ First(s) /\ s <= Seen
        BY <2>2 DEF IInv, ThreadInv
      <3>2. s <= Known
        BY <3>1, SeenKnown DEF Seqs
      <3>3. QED
        BY <1>1, <1>2, <2>2, <3>1, <3>2
    <2>3. QED
      BY <2>1, <2>2
  <1>5. QueueInv'
    <2>1. /\ \A i \in 1..Len(pending) : pending[i] \in Seqs
          /\ \A i \in 1..Len(controls) : controls[i][1] \in Seqs
      BY QueueTypes DEF IInv
    <2>2. \A s \in Seqs : agent[s].pc = "idle" => /\ agent'[s].pc = "idle"
                                                   /\ invoked'[s] = invoked[s]
      OBVIOUS
    <2>3. QED
      BY <1>1, <2>1, <2>2 DEF IInv, QueueInv
  <1>7. RequestsBounded'
    BY DEF IInv, RequestsBounded
  <1>6. QED
    BY <1>2, <1>3, <1>4, <1>5, <1>7 DEF IInv

\* The record operators keep the type, and none makes an absent request tracked.
LEMMA RecordTypes ==
    ASSUME NEW r \in RequestState
    PROVE  /\ Aborted(r) \in RequestState /\ Aborted(r).phase = r.phase
           /\ Retired(r) \in RequestState
           /\ Retired(r).phase \in {r.phase, "absent"}
           /\ Absent \in RequestState /\ Absent.phase = "absent"
  <1>1. Aborted(r) \in RequestState /\ Aborted(r).phase = r.phase
    BY DEF Aborted, RequestState, Operations
  <1>2. Absent \in RequestState /\ Absent.phase = "absent"
    BY DEF Absent, RequestState, Phases, Operations
  <1>3. QED
    BY <1>1, <1>2 DEF Retired

\* stop() keeps the records of their type and their phases.
LEMMA StopAllType ==
    ASSUME requests \in [Seqs -> RequestState]
    PROVE  /\ StopAll \in [Seqs -> RequestState]
           /\ \A s \in Seqs : StopAll[s].phase = requests[s].phase
  <1>1. ASSUME NEW s \in Seqs
        PROVE  /\ [Aborted(requests[s]) EXCEPT !.body = FALSE] \in RequestState
               /\ [Aborted(requests[s]) EXCEPT !.body = FALSE].phase = requests[s].phase
    <2>1. Aborted(requests[s]) \in RequestState /\ Aborted(requests[s]).phase = requests[s].phase
      BY RecordTypes
    <2>2. QED
      BY <2>1 DEF RequestState
  <1>2. QED
    BY <1>1 DEF StopAll

Moved(a, pc) == [a EXCEPT !.pc = pc]
WithEvent(a, e) == [a EXCEPT !.pc = "emit", !.event = e]

\* The agent records that a thread step writes.
LEMMA AgentTypes ==
    ASSUME NEW a \in Agents
    PROVE  /\ \A pc \in Labels : /\ Moved(a, pc) \in Agents /\ Moved(a, pc).pc = pc
                               /\ Moved(a, pc).role = a.role /\ Moved(a, pc).event = a.event
           /\ \A e \in Outputs : /\ WithEvent(a, e) \in Agents /\ WithEvent(a, e).pc = "emit"
                               /\ WithEvent(a, e).role = a.role /\ WithEvent(a, e).event = e
           /\ Last(a) \in Agents /\ Last(a).pc = "finally" /\ Last(a).role = a.role
           /\ Acked(a) \in Agents /\ Acked(a).pc = "iterate" /\ Acked(a).role = "provider"
  <1>1. /\ \A pc \in Labels : /\ Moved(a, pc) \in Agents /\ Moved(a, pc).pc = pc
                            /\ Moved(a, pc).role = a.role /\ Moved(a, pc).event = a.event
        /\ \A e \in Outputs : /\ WithEvent(a, e) \in Agents /\ WithEvent(a, e).pc = "emit"
                            /\ WithEvent(a, e).role = a.role /\ WithEvent(a, e).event = e
    BY DEF Agents, Labels, Moved, WithEvent
  <1>2. Last(a) \in Agents /\ Last(a).pc = "finally" /\ Last(a).role = a.role
    BY DEF Last, Idle, Agents, Labels, Roles
  <1>3. Acked(a) \in Agents /\ Acked(a).pc = "iterate" /\ Acked(a).role = "provider"
    BY DEF Acked, Task, Idle, Agents, Labels, Roles
  <1>4. QED
    BY <1>1, <1>2, <1>3

\* The agent records with which a thread starts.
LEMMA NewAgentTypes ==
    /\ Idle \in Agents /\ Idle.pc = "idle" /\ Idle.role = "none"
    /\ Task \in Agents /\ Task.pc = "begin" /\ Task.role = "provider"
    /\ \A role \in Roles, e \in Outputs :
          LET b == Emitting(role, e)
          IN  b \in Agents /\ b.pc = "emit" /\ b.role = role /\ b.event = e
  BY DEF Idle, Task, Emitting, Agents, Labels, Roles

\* One agent changes to a, and perhaps its request record.
LEMMA AgentStep ==
    ASSUME IInv, NEW s \in Seqs, NEW a \in Agents,
           agent' = [agent EXCEPT ![s] = a],
           agent[s].pc # "idle",
           \/ a.pc = "idle" /\ a.role = "none"
           \/ /\ a.pc # "idle" /\ a.role = agent[s].role
              /\ a.pc \in {"emit", "publish"} => a.event \in Outputs
              /\ a.pc \in Early => agent[s].pc \in Early,
           UNCHANGED <<log, proc, reader, queues>>,
           requests' \in [Seqs -> RequestState],
           \A t \in Seqs : Tracked(t)' => Tracked(t) \/ agent[t].pc # "idle",
           inflight' \subseteq Publications, epoch' \in Nat, stopped' \in BOOLEAN,
           running' \in Int, faults' \in Nat,
           \/ invoked' = invoked
           \/ /\ invoked' = [invoked EXCEPT ![s] = @ + 1]
              /\ agent[s].role = "provider" /\ agent[s].pc = "start" /\ a.pc \notin Early
    PROVE  IInv'
  <1>1. agent' \in [Seqs -> Agents] /\ agent'[s] = a /\ \A t \in Seqs \ {s} : agent'[t] = agent[t]
    BY DEF IInv, TypeOK
  <1>2. invoked \in [Seqs -> Nat] /\ invoked' \in [Seqs -> Nat]
    <2>1. invoked \in [Seqs -> Nat]
      BY DEF IInv, TypeOK
    <2>2. CASE invoked' = invoked
      BY <2>1, <2>2
    <2>3. CASE invoked' = [invoked EXCEPT ![s] = @ + 1]
      BY <2>1, <2>3
    <2>4. QED
      BY <2>1, <2>2, <2>3
  <1>3. TypeOK'
    BY <1>1, <1>2 DEF IInv, TypeOK, reader, queues
  <1>4. \A t \in Seqs : \/ invoked'[t] = invoked[t]
                        \/ /\ invoked'[t] = invoked[t] + 1
                           /\ agent[t].role = "provider" /\ agent[t].pc = "start"
                           /\ agent'[t].pc \notin Early
    BY <1>1, <1>2
  <1>5. QED
    BY <1>1, <1>3, <1>4, ThreadMove

\* Changing one record keeps the type, and brings no request into the map.
LEMMA RequestUpdate ==
    ASSUME requests \in [Seqs -> RequestState], NEW s \in Seqs, NEW r \in RequestState,
           requests' = [requests EXCEPT ![s] = r],
           r.phase # "absent" => requests[s].phase # "absent" \/ agent[s].pc # "idle"
    PROVE  requests' \in [Seqs -> RequestState] /\ \A t \in Seqs : Tracked(t)' => Tracked(t) \/ agent[t].pc # "idle"
  BY DEF Tracked

\* The fields of a request record that a task writes.
LEMMA FieldTypes ==
    ASSUME NEW r \in RequestState
    PROVE  /\ [r EXCEPT !.body = FALSE] \in RequestState
           /\ [r EXCEPT !.body = FALSE].phase = r.phase
           /\ [r EXCEPT !.op = "open"] \in RequestState
           /\ [r EXCEPT !.op = "open"].phase = r.phase
           /\ [r EXCEPT !.phase = "done"] \in RequestState
           /\ [r EXCEPT !.phase = "running"] \in RequestState
           /\ [r EXCEPT !.op = "none", !.body = FALSE, !.phase = "done"] \in RequestState
  BY DEF RequestState, Phases, Operations

\* A thread at work and its request have their types.
LEMMA ActiveAgent ==
    ASSUME IInv, NEW s \in Seqs, agent[s].pc # "idle"
    PROVE  /\ agent[s] \in Agents /\ requests[s] \in RequestState
           /\ log[s] \in Requests /\ s \in Nat /\ Asked(s)
           /\ agent[s].pc \in {"emit", "publish"} => agent[s].event \in Outputs
  <1>1. agent[s] \in Agents /\ requests[s] \in RequestState
    BY DEF IInv, TypeOK
  <1>2. Asked(s) /\ (agent[s].pc \in {"emit", "publish"} => agent[s].event \in Outputs)
    BY DEF IInv, ThreadInv
  <1>3. log[s] \in Requests /\ s \in Nat
    BY <1>2 DEF Asked, Seqs
  <1>4. QED
    BY <1>1, <1>2, <1>3

\* The steps of a task before its call is consumed.
LEMMA TaskStepInv ==
    ASSUME IInv, NEW s \in Seqs, TaskBegin(s) \/ TaskInstall(s) \/ TaskStart(s) \/ ProviderCancelled(s)
    PROVE  IInv'
  <1> USE DEF server, process, Early, At
  <1>1. agent[s].pc # "idle" /\ agent[s].role = "provider"
    BY DEF TaskBegin, TaskInstall, TaskStart, ProviderCancelled
  <1>2. /\ agent[s] \in Agents /\ requests[s] \in RequestState
        /\ requests \in [Seqs -> RequestState] /\ inflight \subseteq Publications
        /\ epoch \in Nat /\ stopped \in BOOLEAN /\ running \in Int /\ faults \in Nat
    BY <1>1, ActiveAgent DEF IInv, TypeOK
  <1>3. /\ requests' \in [Seqs -> RequestState]
        /\ \A t \in Seqs : Tracked(t)' => Tracked(t) \/ agent[t].pc # "idle"
    <2>1. CASE requests' = requests
      BY <1>2, <2>1 DEF Tracked
    <2>2. CASE requests' = [requests EXCEPT ![s].body = FALSE]
      <3>1. requests' = [requests EXCEPT ![s] = [requests[s] EXCEPT !.body = FALSE]]
        BY <2>2
      <3>2. QED
        BY <1>2, <3>1, FieldTypes, RequestUpdate
    <2>3. CASE requests' = [requests EXCEPT ![s].op = "open"]
      <3>1. requests' = [requests EXCEPT ![s] = [requests[s] EXCEPT !.op = "open"]]
        BY <2>3
      <3>2. QED
        BY <1>2, <3>1, FieldTypes, RequestUpdate
    <2>4. QED
      BY <2>1, <2>2, <2>3 DEF TaskBegin, TaskInstall, TaskStart, ProviderCancelled
  <1>4. /\ \A pc \in Labels : /\ Moved(agent[s], pc) \in Agents /\ Moved(agent[s], pc).pc = pc
                            /\ Moved(agent[s], pc).role = agent[s].role
        /\ Last(agent[s]) \in Agents /\ Last(agent[s]).pc = "finally"
        /\ Last(agent[s]).role = agent[s].role
    BY <1>2, AgentTypes
  <1>5. PICK a \in Agents :
           /\ agent' = [agent EXCEPT ![s] = a]
           /\ a.role = agent[s].role
           /\ a.pc \in {"install", "start", "iterate", "finally"}
           /\ a.pc \in Early => agent[s].pc \in Early
    <2>1. CASE Finish(s)
      BY <1>4, <2>1 DEF Finish
    <2>2. ASSUME NEW pc \in {"install", "start", "iterate"}, Goto(s, pc),
                 pc \in Early => agent[s].pc \in Early
          PROVE  \E a \in Agents :
                    /\ agent' = [agent EXCEPT ![s] = a]
                    /\ a.role = agent[s].role
                    /\ a.pc \in {"install", "start", "iterate", "finally"}
                    /\ a.pc \in Early => agent[s].pc \in Early
      <3>1. pc \in Labels
        BY <2>2 DEF Labels
      <3>2. agent' = [agent EXCEPT ![s] = Moved(agent[s], pc)]
        BY <2>2 DEF Goto, Moved
      <3>3. QED
        BY <1>4, <2>2, <3>1, <3>2
    <2>3. QED
      BY <2>1, <2>2 DEF TaskBegin, TaskInstall, TaskStart, ProviderCancelled
  <1>6. \/ invoked' = invoked
        \/ /\ invoked' = [invoked EXCEPT ![s] = @ + 1]
           /\ agent[s].pc = "start" /\ a.pc \notin Early
    <2>1. CASE TaskStart(s) /\ CanOutput(s)
      <3>1. Goto(s, "iterate")
        BY <2>1 DEF TaskStart
      <3>2. agent \in [Seqs -> Agents]
        BY DEF IInv, TypeOK
      <3>3. agent'[s].pc = "iterate"
        BY <3>1, <3>2 DEF Goto, Agents
      <3>4. agent'[s] = a
        BY <1>5, <3>2
      <3>5. QED
        BY <2>1, <3>3, <3>4 DEF TaskStart
    <2>2. QED
      BY <2>1 DEF TaskBegin, TaskInstall, TaskStart, ProviderCancelled
  <1>7. /\ UNCHANGED <<log, inflight, proc, epoch, stopped, reader, queues, running, faults>>
    BY DEF TaskBegin, TaskInstall, TaskStart, ProviderCancelled
  <1>8. QED
    BY <1>1, <1>2, <1>3, <1>5, <1>6, <1>7, AgentStep

\* What a thread keeps of the typing when it only changes its agent record.
LEMMA SameRequests ==
    ASSUME IInv, requests' = requests
    PROVE  /\ requests' \in [Seqs -> RequestState]
           /\ \A t \in Seqs : Tracked(t)' => Tracked(t) \/ agent[t].pc # "idle"
  BY DEF IInv, TypeOK, Tracked

\* Going on to publish, or giving up, keeps the invariant.
LEMMA EmitOrEndInv ==
    ASSUME IInv, NEW s \in Seqs, NEW e \in Outputs, agent[s].pc # "idle", EmitOrEnd(s, e)
    PROVE  IInv'
  <1>1. /\ agent[s] \in Agents /\ inflight \subseteq Publications
        /\ epoch \in Nat /\ stopped \in BOOLEAN /\ running \in Int /\ faults \in Nat
    BY DEF IInv, TypeOK
  <1>2. UNCHANGED <<log, inflight, proc, epoch, stopped, reader, requests, queues,
                    running, invoked, faults>>
    BY DEF EmitOrEnd, server, process
  <1>3. CASE CanOutput(s)
    <2>1. agent' = [agent EXCEPT ![s] = WithEvent(agent[s], e)]
      BY <1>3 DEF EmitOrEnd, WithEvent
    <2>2. /\ WithEvent(agent[s], e) \in Agents /\ WithEvent(agent[s], e).pc = "emit"
          /\ WithEvent(agent[s], e).role = agent[s].role /\ WithEvent(agent[s], e).event = e
      BY <1>1, AgentTypes
    <2>3. QED
      BY <1>1, <1>2, <2>1, <2>2, SameRequests, AgentStep DEF Early
  <1>4. CASE ~CanOutput(s)
    <2>1. agent' = [agent EXCEPT ![s] = Last(agent[s])]
      BY <1>4 DEF EmitOrEnd
    <2>2. /\ Last(agent[s]) \in Agents /\ Last(agent[s]).pc = "finally"
          /\ Last(agent[s]).role = agent[s].role
      BY <1>1, AgentTypes
    <2>3. QED
      BY <1>1, <1>2, <2>1, <2>2, SameRequests, AgentStep DEF Early
  <1>5. QED
    BY <1>3, <1>4

\* What a Provider call makes the task publish.
LEMMA StepOutputs ==
    ASSUME IInv, NEW s \in Seqs, ProviderStep(s) \/ Oversize(s)
    PROVE  /\ agent[s].pc # "idle"
           /\ NextEvents(s) \subseteq Outputs
           /\ \A code \in Failures : ErrorEvent(s, code, FALSE, FALSE) \in Outputs
  <1>1. agent[s].pc # "idle"
    BY DEF ProviderStep, Yield, ProviderFail, Oversize, At
  <1>2. agent[s] \in Agents /\ log[s] \in Requests /\ s \in Nat
    BY <1>1, ActiveAgent
  <1>3. NextEvents(s) \subseteq Outputs
    <2>1. log[s].key \in Keys /\ agent[s].writer \in Nat
      BY <1>2 DEF Requests, Agents
    <2>2. /\ Result(log[s].key, s, TRUE, Http) \in Outputs
          /\ Result(log[s].key, s, FALSE, Http) \in Outputs
      BY <1>2, <2>1 DEF Result, Outputs, Results
    <2>3. End(log[s].key, s, Http) \in Outputs
      BY <1>2, <2>1 DEF End, Outputs, Ends
    <2>4. AppendEvent(log[s].key, s, agent[s].writer) \in Outputs
      BY <1>2, <2>1 DEF AppendEvent, Outputs, Appends
    <2>5. QED
      BY <2>2, <2>3, <2>4 DEF NextEvents
  <1>4. \A code \in Failures : ErrorEvent(s, code, FALSE, FALSE) \in Outputs
    <2>1. Failures \subseteq InterruptedCodes
      BY ConstantsAssumption DEF ProviderCodes, InterruptedCodes, Interrupted, TooLarge
    <2>2. QED
      BY <1>2, <2>1, ErrorEventType
  <1>5. QED
    BY <1>1, <1>3, <1>4

\* Consuming the Provider call.
LEMMA ProviderStepInv ==
    ASSUME IInv, NEW s \in Seqs, ProviderStep(s) \/ Oversize(s)
    PROVE  IInv'
  <1>1. /\ agent[s].pc # "idle"
        /\ NextEvents(s) \subseteq Outputs
        /\ \A code \in Failures : ErrorEvent(s, code, FALSE, FALSE) \in Outputs
    BY StepOutputs
  <1>5. CASE Yield(s)
    BY <1>1, <1>5, EmitOrEndInv DEF Yield
  <1>6. CASE ProviderFail(s)
    BY <1>1, <1>6, EmitOrEndInv DEF ProviderFail
  <1>7. CASE Oversize(s)
    BY <1>1, <1>7, EmitOrEndInv DEF Oversize
  <1>8. QED
    BY <1>5, <1>6, <1>7 DEF ProviderStep

\* The publication of an event.
LEMMA PublishStepInv ==
    ASSUME IInv, NEW s \in Seqs, PublishStart(s) \/ PublishReturn(s) \/ PublishFail(s)
    PROVE  IInv'
  <1> USE DEF server, process, Early
  <1>1. agent[s].pc \in {"emit", "publish"} /\ agent[s].pc # "idle"
    BY DEF PublishStart, PublishReturn, PublishFail
  <1>2. /\ agent[s] \in Agents /\ requests[s] \in RequestState /\ agent[s].event \in Outputs
        /\ requests \in [Seqs -> RequestState] /\ inflight \subseteq Publications
        /\ epoch \in Nat /\ stopped \in BOOLEAN /\ running \in Int /\ faults \in Nat
    BY <1>1, ActiveAgent DEF IInv, TypeOK
  <1>3. /\ Last(agent[s]) \in Agents /\ Last(agent[s]).pc = "finally"
        /\ Last(agent[s]).role = agent[s].role
    BY <1>2, AgentTypes
  <1>4. CASE PublishStart(s)
    <2>1. UNCHANGED <<log, proc, epoch, stopped, reader, requests, queues, running, invoked, faults>>
      BY <1>4 DEF PublishStart
    <2>2. CASE CanOutput(s)
      <3>1. /\ inflight' = inflight \cup {[epoch |-> epoch, event |-> agent[s].event]}
            /\ Goto(s, "publish")
        BY <1>4, <2>2 DEF PublishStart
      <3>2. inflight' \subseteq Publications
        <4>1. [epoch |-> epoch, event |-> agent[s].event] \in Publications
          BY <1>2 DEF Publications
        <4>2. QED
          BY <1>2, <3>1, <4>1
      <3>3. "publish" \in Labels
        BY DEF Labels
      <3>4. /\ Moved(agent[s], "publish") \in Agents /\ Moved(agent[s], "publish").pc = "publish"
            /\ Moved(agent[s], "publish").role = agent[s].role
            /\ Moved(agent[s], "publish").event = agent[s].event
        <4>1. \A pc \in Labels : /\ Moved(agent[s], pc) \in Agents /\ Moved(agent[s], pc).pc = pc
                                /\ Moved(agent[s], pc).role = agent[s].role
                                /\ Moved(agent[s], pc).event = agent[s].event
          BY <1>2, AgentTypes
        <4>2. QED
          BY <3>3, <4>1
      <3>5. agent' = [agent EXCEPT ![s] = Moved(agent[s], "publish")]
        BY <3>1 DEF Goto, Moved
      <3>6. QED
        BY <1>1, <1>2, <2>1, <3>2, <3>4, <3>5, SameRequests, AgentStep
    <2>3. CASE ~CanOutput(s)
      <3>1. inflight' = inflight /\ Finish(s)
        BY <1>4, <2>3 DEF PublishStart
      <3>2. QED
        BY <1>1, <1>2, <1>3, <2>1, <3>1, SameRequests, AgentStep DEF Finish
    <2>4. QED
      BY <2>2, <2>3
  <1>5. CASE PublishReturn(s)
    <2>1. UNCHANGED <<log, inflight, proc, epoch, stopped, reader, queues, running, invoked, faults>>
      BY <1>5 DEF PublishReturn
    <2>2. CASE agent[s].role = "recovery"
      <3>1. /\ agent' = [agent EXCEPT ![s] = Idle]
            /\ requests' = [requests EXCEPT ![s].phase = "done"]
        BY <1>5, <2>2 DEF PublishReturn
      <3>2. requests' = [requests EXCEPT ![s] = [requests[s] EXCEPT !.phase = "done"]]
        BY <3>1
      <3>3. [requests[s] EXCEPT !.phase = "done"] \in RequestState
        BY <1>2, FieldTypes
      <3>4. /\ requests' \in [Seqs -> RequestState]
            /\ \A t \in Seqs : Tracked(t)' => Tracked(t) \/ agent[t].pc # "idle"
        BY <1>1, <1>2, <3>2, <3>3, RequestUpdate
      <3>5. Idle \in Agents /\ Idle.pc = "idle" /\ Idle.role = "none"
        BY NewAgentTypes
      <3>6. QED
        BY <1>1, <1>2, <2>1, <3>1, <3>4, <3>5, AgentStep
    <2>3. CASE agent[s].role # "recovery"
      <3>1. requests' = requests
        BY <1>5, <2>3 DEF PublishReturn
      <3>2. CASE agent[s].role = "provider" /\ ~Terminal(agent[s].event)
        <4>1. agent' = [agent EXCEPT ![s] = Acked(agent[s])]
          BY <1>5, <3>2 DEF PublishReturn
        <4>2. Acked(agent[s]) \in Agents /\ Acked(agent[s]).pc = "iterate" /\ Acked(agent[s]).role = "provider"
          BY <1>2, AgentTypes
        <4>3. QED
          BY <1>1, <1>2, <2>1, <3>1, <3>2, <4>1, <4>2, SameRequests, AgentStep
      <3>3. CASE ~(agent[s].role = "provider" /\ ~Terminal(agent[s].event))
        <4>1. agent' = [agent EXCEPT ![s] = Last(agent[s])]
          BY <1>5, <2>3, <3>3 DEF PublishReturn
        <4>2. QED
          BY <1>1, <1>2, <1>3, <2>1, <3>1, <4>1, SameRequests, AgentStep
      <3>4. QED
        BY <3>2, <3>3
    <2>4. QED
      BY <2>2, <2>3
  <1>6. CASE PublishFail(s)
    <2>1. /\ UNCHANGED <<log, inflight, proc, epoch, reader, queues, running, invoked>>
          /\ agent' = [agent EXCEPT ![s] = Last(agent[s])]
      BY <1>6 DEF PublishFail, Fail, Finish
    <2>4. stopped' \in BOOLEAN
      BY <1>2, <1>6, Zenon DEF PublishFail, Fail
    <2>5. faults' \in Nat
      BY <1>2, <1>6, SMT DEF PublishFail
    <2>2. /\ requests' \in [Seqs -> RequestState]
          /\ \A t \in Seqs : Tracked(t)' => Tracked(t) \/ agent[t].pc # "idle"
      <3>1. CASE requests' = requests
        BY <3>1, SameRequests
      <3>2. CASE requests' = StopAll
        BY <1>2, <3>2, StopAllType DEF Tracked
      <3>3. QED
        BY <1>6, <3>1, <3>2 DEF PublishFail, Fail
    <2>3. QED
      BY <1>1, <1>2, <1>3, <2>1, <2>2, <2>4, <2>5, AgentStep
  <1>7. QED
    BY <1>4, <1>5, <1>6

\* The last block of a task or of a rejection.
LEMMA FinallyInv ==
    ASSUME IInv, NEW s \in Seqs, TaskFinally(s) \/ ControlFinally(s)
    PROVE  IInv'
  <1> USE DEF server, process
  <1>1. agent[s].pc # "idle"
    BY DEF TaskFinally, ControlFinally, At
  <1>2. /\ requests[s] \in RequestState
        /\ requests \in [Seqs -> RequestState] /\ inflight \subseteq Publications
        /\ epoch \in Nat /\ stopped \in BOOLEAN /\ running \in Int /\ faults \in Nat
    BY <1>1, ActiveAgent DEF IInv, TypeOK
  <1>3. Idle \in Agents /\ Idle.pc = "idle" /\ Idle.role = "none"
    BY NewAgentTypes
  <1>4. ASSUME NEW r \in RequestState, requests' = [requests EXCEPT ![s] = Retired(r)]
        PROVE  /\ requests' \in [Seqs -> RequestState]
               /\ \A t \in Seqs : Tracked(t)' => Tracked(t) \/ agent[t].pc # "idle"
    <2>1. Retired(r) \in RequestState
      BY RecordTypes
    <2>2. QED
      BY <1>1, <1>2, <1>4, <2>1, RequestUpdate
  <1>5. CASE TaskFinally(s)
    <2>1. requests' = [requests EXCEPT ![s] =
             Retired([requests[s] EXCEPT !.op = "none", !.body = FALSE, !.phase = "done"])]
      BY <1>5 DEF TaskFinally
    <2>2. [requests[s] EXCEPT !.op = "none", !.body = FALSE, !.phase = "done"] \in RequestState
      BY <1>2, FieldTypes
    <2>3. /\ requests' \in [Seqs -> RequestState]
          /\ \A t \in Seqs : Tracked(t)' => Tracked(t) \/ agent[t].pc # "idle"
      BY <1>4, <2>1, <2>2
    <2>4. /\ UNCHANGED <<log, inflight, proc, epoch, stopped, reader, queues, invoked, faults>>
          /\ running' = running - 1 /\ agent' = [agent EXCEPT ![s] = Idle]
      BY <1>5 DEF TaskFinally
    <2>5. running' \in Int
      BY <1>2, <2>4, SMT
    <2>6. QED
      BY <1>1, <1>2, <1>3, <2>3, <2>4, <2>5, AgentStep
  <1>6. CASE ControlFinally(s)
    <2>1. requests' = [requests EXCEPT ![s] = Retired([requests[s] EXCEPT !.phase = "done"])]
      BY <1>6 DEF ControlFinally
    <2>2. [requests[s] EXCEPT !.phase = "done"] \in RequestState
      BY <1>2, FieldTypes
    <2>3. /\ requests' \in [Seqs -> RequestState]
          /\ \A t \in Seqs : Tracked(t)' => Tracked(t) \/ agent[t].pc # "idle"
      BY <1>4, <2>1, <2>2
    <2>4. /\ UNCHANGED <<log, inflight, proc, epoch, stopped, reader, queues, running, invoked, faults>>
          /\ agent' = [agent EXCEPT ![s] = Idle]
      BY <1>6 DEF ControlFinally
    <2>5. QED
      BY <1>1, <1>2, <1>3, <2>3, <2>4, AgentStep
  <1>7. QED
    BY <1>5, <1>6

\* What the end of the control thread does to the records: one is finished, and
\* all lose their bodies.
LEMMA ControlFailRecords ==
    ASSUME IInv, NEW s \in Seqs, ControlFail(s)
    PROVE  /\ \A t \in Seqs \ {s} : requests'[t] = StopAll[t]
           /\ requests'[s] = Retired([StopAll[s] EXCEPT !.phase = "done"])
           /\ StopAll[s] \in RequestState /\ requests' \in [Seqs -> RequestState]
           /\ \A t \in Seqs : Tracked(t)' => Tracked(t) \/ agent[t].pc # "idle"
  <1>1. /\ StopAll \in [Seqs -> RequestState]
        /\ \A t \in Seqs : StopAll[t].phase = requests[t].phase
    BY StopAllType DEF IInv, TypeOK
  <1> DEFINE r == [StopAll[s] EXCEPT !.phase = "done"]
  <1>2. requests' = [StopAll EXCEPT ![s] = Retired(r)]
    BY DEF ControlFail
  <1>3. r \in RequestState
    BY <1>1, FieldTypes
  <1>4. Retired(r) \in RequestState
    BY <1>3, RecordTypes
  <1> HIDE DEF r
  <1>5. requests' \in [Seqs -> RequestState] /\ requests'[s] = Retired(r)
    BY <1>1, <1>2, <1>4
  <1>6. \A t \in Seqs \ {s} : requests'[t] = StopAll[t]
    BY <1>1, <1>2
  <1>7. agent[s].pc # "idle"
    BY DEF ControlFail
  <1>8. QED
    BY <1>1, <1>5, <1>6, <1>7 DEF Tracked, r

\* A failure that ends the control thread.
LEMMA ControlFailInv ==
    ASSUME IInv, NEW s \in Seqs, ControlFail(s)
    PROVE  IInv'
  <1> USE DEF server, process
  <1>1. agent[s].pc # "idle"
    BY DEF ControlFail
  <1>2. Idle \in Agents /\ Idle.pc = "idle" /\ Idle.role = "none"
    BY NewAgentTypes
  <1>3. /\ requests' \in [Seqs -> RequestState]
        /\ \A t \in Seqs : Tracked(t)' => Tracked(t) \/ agent[t].pc # "idle"
    BY ControlFailRecords
  <1>4. /\ UNCHANGED <<log, inflight, proc, epoch, reader, queues, running, invoked>>
        /\ agent' = [agent EXCEPT ![s] = Idle] /\ stopped' = TRUE /\ faults' = faults + 1
    BY DEF ControlFail
  <1>5. /\ inflight' \subseteq Publications /\ epoch' \in Nat /\ stopped' \in BOOLEAN
        /\ running' \in Int /\ faults' \in Nat
    BY <1>4 DEF IInv, TypeOK
  <1>6. QED
    BY <1>1, <1>2, <1>3, <1>4, <1>5, AgentStep

\* Every step of a thread keeps the invariant.
LEMMA ThreadInvStep ==
    ASSUME IInv, NEW s \in Seqs, Thread(s)
    PROVE  IInv'
  BY TaskStepInv, ProviderStepInv, PublishStepInv, FinallyInv, ControlFailInv
     DEF Thread, ThreadStep, ProviderStep

-----------------------------------------------------------------------------
(* Steps that start a thread. *)

\* A thread starts for a request that no thread works for and that is not
\* waiting in a queue any more.
LEMMA StartThread ==
    ASSUME IInv, NEW s \in Seqs, NEW a \in Agents,
           agent' = [agent EXCEPT ![s] = a],
           agent[s].pc = "idle", a.pc \in {"begin", "emit"}, a.role # "none",
           a.pc = "emit" => a.event \in Outputs,
           proc # "down", Asked(s), s <= Seen,
           proc = "scan" => pending' = <<>> /\ controls' = <<>>,
           a.role = "provider" => a.pc = "begin" /\ First(s) /\ invoked[s] = 0,
           UNCHANGED <<log, proc, reader, originals, invoked>>,
           requests' \in [Seqs -> RequestState],
           \A t \in Seqs : Tracked(t)' => Tracked(t) \/ agent[t].pc # "idle",
           inflight' \subseteq Publications, epoch' \in Nat, stopped' \in BOOLEAN,
           running' \in Int, faults' \in Nat,
           pending' \in Seq(Seqs), controls' \in Seq(Seqs \X Codes),
           QueueInv'
    PROVE  IInv'
  <1> USE DEF reader
  <1>1. agent' \in [Seqs -> Agents] /\ agent'[s] = a /\ \A t \in Seqs \ {s} : agent'[t] = agent[t]
    BY DEF IInv, TypeOK
  <1>2. TypeOK'
    BY <1>1 DEF IInv, TypeOK
  <1>3. \A t : (Asked(t)' <=> Asked(t)) /\ (First(t)' <=> First(t))
    BY DEF Asked, First
  <1>4. OriginalsInv' /\ Known' = Known /\ Seen' = Seen
    BY DEF IInv, OriginalsInv, Known, Seen, RequestSeqs
  <1>5. InvokedInv'
    BY <1>3, <1>4 DEF IInv, InvokedInv
  <1>6. ThreadInv'
    <2> SUFFICES ASSUME NEW t \in Seqs
                 PROVE  /\ Tracked(t)' => Asked(t)' /\ t <= Seen'
                        /\ agent'[t].role = "none" <=> agent'[t].pc = "idle"
                        /\ agent'[t].pc # "idle" => proc' # "down" /\ Asked(t)' /\ t <= Seen'
                        /\ agent'[t].pc \in {"emit", "publish"} => agent'[t].event \in Outputs
                        /\ agent'[t].role = "provider" => First(t)'
                        /\ agent'[t].role = "provider" /\ agent'[t].pc \in {"begin", "install", "start"}
                              => invoked'[t] = 0
      BY DEF ThreadInv
    <2>1. Tracked(t)' => Asked(t)' /\ t <= Seen'
      BY <1>3, <1>4 DEF IInv, ThreadInv
    <2>2. CASE t = s
      BY <1>1, <1>3, <1>4, <2>1, <2>2
    <2>3. CASE t # s
      <3>1. agent'[t] = agent[t]
        BY <1>1, <2>3
      <3>2. QED
        BY <1>3, <1>4, <2>1, <3>1 DEF IInv, ThreadInv
    <2>4. QED
      BY <2>2, <2>3
  <1>7. ReaderInv'
    BY DEF ReaderInv, IInv
  <1>8. RequestsBounded'
    BY DEF IInv, RequestsBounded
  <1>9. QED
    BY <1>2, <1>4, <1>5, <1>6, <1>7, <1>8 DEF IInv

\* An entry whose request is gone is dropped.
LEMMA DropEntry ==
    ASSUME IInv,
           UNCHANGED <<server, process, reader, requests, originals, running, agent, invoked, faults>>,
           proc = "live", pending' \in Seq(Seqs), controls' \in Seq(Seqs \X Codes), QueueInv'
    PROVE  IInv'
  <1> USE DEF server, process, reader
  <1>1. \A t : (Asked(t)' <=> Asked(t)) /\ (First(t)' <=> First(t))
    BY DEF Asked, First
  <1>2. TypeOK'
    BY DEF IInv, TypeOK
  <1>3. ReaderInv' /\ OriginalsInv' /\ Known' = Known /\ Seen' = Seen
    BY DEF IInv, ReaderInv, OriginalsInv, Known, Seen, RequestSeqs
  <1>4. ThreadInv' /\ InvokedInv'
    BY <1>1, <1>3 DEF IInv, ThreadInv, InvokedInv, Tracked
  <1>5. RequestsBounded'
    BY DEF IInv, RequestsBounded
  <1>6. QED
    BY <1>2, <1>3, <1>4, <1>5 DEF IInv

\* Taking the head of a queue.
LEMMA TakeHead ==
    ASSUME NEW S, NEW q \in Seq(S), q # <<>>
    PROVE  /\ Head(q) = q[1] /\ Head(q) \in S /\ 1 \in 1..Len(q)
           /\ Tail(q) \in Seq(S) /\ Len(Tail(q)) = Len(q) - 1 /\ Len(q) \in Nat
           /\ \A i \in 1..Len(Tail(q)) : i + 1 \in 1..Len(q) /\ i + 1 # 1 /\ Tail(q)[i] = q[i + 1]
           /\ \A i \in 1..Len(Tail(q)) : Tail(q)[i] \in S
  <1>1. Head(q) = q[1] /\ Head(q) \in S /\ Tail(q) \in Seq(S) /\ Len(Tail(q)) = Len(q) - 1
    BY HeadTailProperties
  <1>2. Len(q) \in Nat /\ Len(q) # 0
    BY LenProperties, EmptySeq
  <1>3. \A i \in 1..Len(Tail(q)) : i + 1 \in 1..Len(q) /\ i + 1 # 1 /\ Tail(q)[i] = q[i + 1]
    BY <1>1, <1>2, HeadTailProperties
  <1>4. \A i \in 1..Len(Tail(q)) : Tail(q)[i] \in S
    BY <1>1, ElementOfSeq
  <1>5. QED
    BY <1>1, <1>2, <1>3, <1>4

\* Starting a Provider task keeps the invariant: its request has never been called.
LEMMA ScheduleInv == IInv /\ Schedule => IInv'
  <1> SUFFICES ASSUME IInv, Schedule PROVE IInv'
    OBVIOUS
  <1> DEFINE s == Head(pending)
  <1>1. /\ pending \in Seq(Seqs) /\ pending # <<>> /\ pending' = Tail(pending)
        /\ controls \in Seq(Seqs \X Codes) /\ controls' = controls /\ originals' = originals
        /\ requests \in [Seqs -> RequestState] /\ agent \in [Seqs -> Agents]
        /\ proc = "live" /\ running \in Int
        /\ UNCHANGED <<server, process, reader, originals, controls, invoked, faults>>
    BY DEF Schedule, IInv, TypeOK
  <1>2. /\ s = pending[1] /\ s \in Seqs /\ 1 \in 1..Len(pending)
        /\ pending' \in Seq(Seqs)
        /\ \A i \in 1..Len(pending') : i + 1 \in 1..Len(pending) /\ i + 1 # 1
                                         /\ pending'[i] = pending[i + 1]
        /\ \A i \in 1..Len(pending') : pending'[i] \in Seqs
        /\ Len(pending') \in Nat
    BY <1>1, TakeHead, LenProperties
  <1>3. /\ First(s) /\ s <= lastSeen /\ invoked[s] = 0 /\ agent[s].pc = "idle" /\ Asked(s)
    BY <1>2 DEF IInv, QueueInv, First
  <1>4. \A t : (Asked(t)' <=> Asked(t)) /\ (First(t)' <=> First(t))
    BY <1>1 DEF Asked, First, server
  <1>5. ASSUME \A t \in Seqs \ {s} : agent'[t] = agent[t]
        PROVE  QueueInv'
    <2>1. ASSUME NEW i \in 1..Len(pending')
          PROVE  /\ First(pending[i])' /\ pending'[i] <= lastSeen'
                 /\ invoked'[pending'[i]] = 0
                 /\ agent'[pending'[i]].pc = "idle"
      <3>1. /\ i + 1 \in 1..Len(pending) /\ i + 1 # 1 /\ pending'[i] = pending[i + 1]
            /\ pending'[i] \in Seqs
        BY <1>2
      <3>2. /\ First(pending[i + 1]) /\ pending[i + 1] <= lastSeen /\ invoked[pending[i + 1]] = 0
            /\ agent[pending[i + 1]].pc = "idle" /\ pending[i + 1] # s
        BY <1>2, <3>1 DEF IInv, QueueInv
      <3>3. agent'[pending'[i]] = agent[pending[i + 1]]
        BY <1>5, <3>1, <3>2
      <3>4. First(pending[i])'
        BY <1>4, <3>1, <3>2
      <3>5. QED
        BY <1>1, <3>1, <3>2, <3>3, <3>4 DEF reader
    <2>2. \A i, j \in 1..Len(pending') : i # j => pending'[i] # pending'[j]
      <3> SUFFICES ASSUME NEW i \in 1..Len(pending'), NEW j \in 1..Len(pending'), i # j
                   PROVE  pending'[i] # pending'[j]
        OBVIOUS
      <3>1. i + 1 \in 1..Len(pending) /\ j + 1 \in 1..Len(pending) /\ i + 1 # j + 1
        BY <1>2
      <3>2. QED
        BY <1>2, <3>1 DEF IInv, QueueInv
    <2>3. \A i \in 1..Len(controls) : /\ controls[i][1] # s /\ controls[i][1] \in Seqs
                                        /\ agent'[controls[i][1]].pc = "idle"
                                        /\ Asked(controls[i][1]) /\ controls[i][1] <= lastSeen'
      <3>1. \A i \in 1..Len(controls) : controls[i][1] # s /\ controls[i][1] \in Seqs
        BY <1>2, QueueTypes DEF IInv, QueueInv
      <3>2. QED
        BY <1>1, <1>4, <1>5, <3>1 DEF IInv, QueueInv, reader
    <2>4. ASSUME NEW i \in 1..Len(pending'), NEW j \in 1..Len(controls)
          PROVE  pending'[i] # controls[j][1]
      <3>1. i + 1 \in 1..Len(pending) /\ pending'[i] = pending[i + 1]
        BY <1>2
      <3>2. QED
        BY <3>1 DEF IInv, QueueInv
    <2>5. \A i, j \in 1..Len(controls) : i # j => controls[i][1] # controls[j][1]
      BY DEF IInv, QueueInv
    <2>6. \A i \in 1..Len(controls') : Asked(controls[i][1])'
      BY <1>1, <1>4, <2>3
    <2>7. QED
      BY <1>1, <2>1, <2>2, <2>3, <2>4, <2>5, <2>6 DEF QueueInv
  <1>6. CASE ~Tracked(s)
    <2>1. UNCHANGED <<requests, running, agent>>
      BY <1>6 DEF Schedule
    <2>2. QED
      BY <1>1, <1>2, <1>5, <2>1, DropEntry
  <1>7. CASE Tracked(s)
    <2>1. /\ requests' = [requests EXCEPT ![s] = [requests[s] EXCEPT !.phase = "running"]]
          /\ running' = running + 1 /\ agent' = [agent EXCEPT ![s] = Task]
      BY <1>7 DEF Schedule
    <2>2. requests[s] \in RequestState /\ [requests[s] EXCEPT !.phase = "running"] \in RequestState
      BY <1>1, <1>2, FieldTypes
    <2>3. /\ requests' \in [Seqs -> RequestState]
          /\ \A t \in Seqs : Tracked(t)' => Tracked(t) \/ agent[t].pc # "idle"
      BY <1>1, <1>2, <1>7, <2>1, <2>2, RequestUpdate DEF Tracked
    <2>4. running' \in Int
      BY <1>1, <2>1, SMT
    <2>5. Task \in Agents /\ Task.pc = "begin" /\ Task.role = "provider"
      BY NewAgentTypes
    <2>6. QueueInv'
      BY <1>1, <1>5, <2>1
    <2>7. s <= Seen /\ controls' \in Seq(Seqs \X Codes)
      BY <1>1, <1>3 DEF Seen
    <2>8. /\ inflight' \subseteq Publications /\ epoch' \in Nat /\ stopped' \in BOOLEAN
          /\ faults' \in Nat /\ UNCHANGED <<log, proc, reader, originals, invoked>>
      BY <1>1 DEF server, process, IInv, TypeOK
    <2>9. QED
      BY <1>1, <1>2, <1>3, <2>1, <2>3, <2>4, <2>5, <2>6, <2>7, <2>8, StartThread
  <1>8. QED
    BY <1>6, <1>7

\* Starting a rejection keeps the invariant.
LEMMA ControlBeginInv == IInv /\ ControlBegin => IInv'
  <1> SUFFICES ASSUME IInv, ControlBegin PROVE IInv'
    OBVIOUS
  <1> DEFINE s == Head(controls)[1]
             code == Head(controls)[2]
             e == ErrorEvent(s, code, FALSE, TRUE)
  <1>1. /\ controls \in Seq(Seqs \X Codes) /\ controls # <<>> /\ controls' = Tail(controls)
        /\ pending \in Seq(Seqs) /\ pending' = pending
        /\ requests \in [Seqs -> RequestState] /\ agent \in [Seqs -> Agents]
        /\ proc = "live"
        /\ UNCHANGED <<server, process, reader, originals, pending, running, invoked, faults>>
    BY DEF ControlBegin, IInv, TypeOK
  <1>2. /\ Head(controls) = controls[1] /\ Head(controls) \in Seqs \X Codes
        /\ 1 \in 1..Len(controls)
        /\ controls' \in Seq(Seqs \X Codes)
        /\ \A i \in 1..Len(controls') : i + 1 \in 1..Len(controls) /\ i + 1 # 1
                                         /\ controls'[i] = controls[i + 1]
        /\ \A i \in 1..Len(controls') : controls'[i] \in Seqs \X Codes
        /\ Len(controls') \in Nat
    BY <1>1, TakeHead, LenProperties
  <1>3. s \in Seqs /\ code \in Codes /\ Asked(s) /\ s <= lastSeen /\ agent[s].pc = "idle"
    <2>1. s \in Seqs /\ code \in Codes
      BY <1>2
    <2>2. s = controls[1][1]
      BY <1>2
    <2>3. QED
      BY <1>2, <2>1, <2>2 DEF IInv, QueueInv
  <1>4. \A t : (Asked(t)' <=> Asked(t)) /\ (First(t)' <=> First(t))
    BY <1>1 DEF Asked, First, server
  <1>5. ASSUME \A t \in Seqs \ {s} : agent'[t] = agent[t]
        PROVE  QueueInv'
    <2>1. ASSUME NEW i \in 1..Len(controls')
          PROVE  /\ Asked(controls[i][1])' /\ controls'[i][1] <= lastSeen'
                 /\ agent'[controls'[i][1]].pc = "idle"
      <3>1. /\ i + 1 \in 1..Len(controls) /\ i + 1 # 1 /\ controls'[i] = controls[i + 1]
            /\ controls'[i] \in Seqs \X Codes
        BY <1>2
      <3>2. /\ Asked(controls[i + 1][1]) /\ controls[i + 1][1] <= lastSeen
            /\ agent[controls[i + 1][1]].pc = "idle"
            /\ controls[i + 1][1] # controls[1][1] /\ controls[i + 1][1] \in Seqs
        BY <1>2, <3>1 DEF IInv, QueueInv
      <3>3. agent'[controls'[i][1]] = agent[controls[i + 1][1]]
        BY <1>2, <1>5, <3>1, <3>2
      <3>4. Asked(controls[i][1])'
        BY <1>4, <3>1, <3>2
      <3>5. QED
        BY <1>1, <3>1, <3>2, <3>3, <3>4 DEF reader
    <2>2. \A i, j \in 1..Len(controls') : i # j => controls'[i][1] # controls'[j][1]
      <3> SUFFICES ASSUME NEW i \in 1..Len(controls'), NEW j \in 1..Len(controls'), i # j
                   PROVE  controls'[i][1] # controls'[j][1]
        OBVIOUS
      <3>1. i + 1 \in 1..Len(controls) /\ j + 1 \in 1..Len(controls) /\ i + 1 # j + 1
        BY <1>2
      <3>2. QED
        BY <1>2, <3>1 DEF IInv, QueueInv
    <2>3. \A i \in 1..Len(pending) : /\ First(pending[i]) /\ pending[i] <= lastSeen'
                                       /\ invoked'[pending[i]] = 0
                                       /\ agent'[pending[i]].pc = "idle"
      <3>1. \A i \in 1..Len(pending) : pending[i] # s /\ pending[i] \in Seqs
        BY <1>2, QueueTypes DEF IInv, QueueInv
      <3>2. QED
        BY <1>1, <1>5, <3>1 DEF IInv, QueueInv, reader
    <2>4. ASSUME NEW i \in 1..Len(pending), NEW j \in 1..Len(controls')
          PROVE  pending[i] # controls'[j][1]
      <3>1. j + 1 \in 1..Len(controls) /\ controls'[j] = controls[j + 1]
        BY <1>2
      <3>2. QED
        BY <3>1 DEF IInv, QueueInv
    <2>5. \A i, j \in 1..Len(pending) : i # j => pending[i] # pending[j]
      BY DEF IInv, QueueInv
    <2>6. \A i \in 1..Len(pending') : First(pending[i])'
      BY <1>1, <1>4, <2>3
    <2>7. /\ \A i \in 1..Len(pending') :
                /\ First(pending[i])' /\ pending'[i] <= lastSeen'
                /\ invoked'[pending'[i]] = 0 /\ agent'[pending'[i]].pc = "idle"
          /\ \A i, j \in 1..Len(pending') : i # j => pending'[i] # pending'[j]
      BY <1>1, <2>3, <2>5, <2>6
    <2>8. \A i \in 1..Len(pending'), j \in 1..Len(controls') : pending'[i] # controls'[j][1]
      BY <1>1, <2>4
    <2>9. QED
      BY <2>1, <2>2, <2>7, <2>8 DEF QueueInv
  <1>6. CASE ~Tracked(s)
    <2>1. UNCHANGED <<requests, running, agent>>
      BY <1>1, <1>6 DEF ControlBegin
    <2>2. QED
      BY <1>1, <1>2, <1>5, <2>1, DropEntry
  <1>7. CASE Tracked(s)
    <2>1. /\ requests' = [requests EXCEPT ![s] = [requests[s] EXCEPT !.phase = "running"]]
          /\ agent' = [agent EXCEPT ![s] = Emitting("control", e)]
      BY <1>7 DEF ControlBegin
    <2>2. requests[s] \in RequestState /\ [requests[s] EXCEPT !.phase = "running"] \in RequestState
      BY <1>1, <1>3, FieldTypes
    <2>3. /\ requests' \in [Seqs -> RequestState]
          /\ \A t \in Seqs : Tracked(t)' => Tracked(t) \/ agent[t].pc # "idle"
      BY <1>1, <1>3, <1>7, <2>1, <2>2, RequestUpdate DEF Tracked
    <2>4. e \in Outputs
      BY <1>3, ErrorEventType DEF Asked
    <2>5. /\ Emitting("control", e) \in Agents /\ Emitting("control", e).pc = "emit"
          /\ Emitting("control", e).role = "control" /\ Emitting("control", e).event = e
      BY <2>4, NewAgentTypes DEF Roles
    <2>6. QueueInv'
      BY <1>1, <1>5, <2>1
    <2>7. s <= Seen /\ pending' \in Seq(Seqs)
      BY <1>1, <1>3 DEF Seen
    <2>8. /\ inflight' \subseteq Publications /\ epoch' \in Nat /\ stopped' \in BOOLEAN
          /\ running' \in Int /\ faults' \in Nat
          /\ UNCHANGED <<log, proc, reader, originals, invoked>>
      BY <1>1 DEF server, process, IInv, TypeOK
    <2>9. QED
      BY <1>1, <1>2, <1>3, <2>1, <2>3, <2>4, <2>5, <2>6, <2>7, <2>8, StartThread
  <1>8. QED
    BY <1>6, <1>7

\* recover() closes an interrupted request: no other queue or thread is in use.
LEMMA RecoverRequestInv ==
    ASSUME IInv, NEW s \in Seqs, RecoverRequest(s)
    PROVE  IInv'
  <1> USE DEF server, process, reader, queues
  <1>1. /\ proc = "scan" /\ s \in Unresolved /\ agent[s] = Idle
        /\ agent' = [agent EXCEPT ![s] =
              Emitting("recovery", ErrorEvent(s, Interrupted, TRUE, FALSE))]
        /\ UNCHANGED <<server, process, reader, requests, queues, running, invoked, faults>>
    BY DEF RecoverRequest
  <1>2. Asked(s) /\ s <= Seen /\ log[s] \in Requests /\ agent[s].pc = "idle"
    BY <1>1, NewAgentTypes DEF Unresolved, Tracked, IInv, ThreadInv, Asked
  <1>3. Interrupted \in InterruptedCodes /\ "recovery" \in Roles
    BY DEF InterruptedCodes, Roles
  <1>4. ErrorEvent(s, Interrupted, TRUE, FALSE) \in Outputs
    BY <1>2, <1>3, ErrorEventType
  <1> DEFINE a == Emitting("recovery", ErrorEvent(s, Interrupted, TRUE, FALSE))
  <1>5. /\ a \in Agents /\ a.pc = "emit" /\ a.role = "recovery"
        /\ a.event = ErrorEvent(s, Interrupted, TRUE, FALSE)
    BY <1>3, <1>4, NewAgentTypes
  <1>6. pending' = <<>> /\ controls' = <<>>
    BY <1>1 DEF IInv, ReaderInv
  <1>7. QueueInv'
    BY <1>6 DEF QueueInv
  <1>8. /\ requests' \in [Seqs -> RequestState]
        /\ \A t \in Seqs : Tracked(t)' => Tracked(t) \/ agent[t].pc # "idle"
        /\ inflight' \subseteq Publications /\ epoch' \in Nat /\ stopped' \in BOOLEAN
        /\ running' \in Int /\ faults' \in Nat
        /\ pending' \in Seq(Seqs) /\ controls' \in Seq(Seqs \X Codes)
    BY <1>1 DEF IInv, TypeOK, Tracked
  <1>9. agent' = [agent EXCEPT ![s] = a] /\ UNCHANGED <<log, proc, reader, originals, invoked>>
    BY <1>1
  <1>10. QED
    BY <1>1, <1>2, <1>4, <1>5, <1>6, <1>7, <1>8, <1>9, StartThread

-----------------------------------------------------------------------------
(* The process starts, fails and ends. *)

\* In a process that is down nothing is tracked and nobody works.
LEMMA DownIsEmpty ==
    ASSUME IInv, proc = "down", NEW s \in Seqs
    PROVE  ~Tracked(s) /\ agent[s].pc = "idle"
  BY DEF IInv, ThreadInv, Seen, Seqs

\* A crash or an exit keeps the invariant: only the log remains.
LEMMA ResetInv == IInv /\ (Crash \/ Exit) => IInv'
  <1> SUFFICES ASSUME IInv, Crash \/ Exit PROVE IInv'
    OBVIOUS
  <1>1. /\ UNCHANGED <<log, inflight, epoch, invoked>> /\ proc' = "down" /\ stopped' = FALSE
        /\ Reset
    BY DEF Crash, Exit, server
  <1>2. faults' \in Nat
    BY SMT DEF Crash, Exit, IInv, TypeOK
  <1>3. TypeOK'
    <2>1. Absent \in RequestState /\ Idle \in Agents
      BY NewAgentTypes DEF Absent, RequestState, Phases, Operations
    <2>2. requests' \in [Seqs -> RequestState] /\ agent' \in [Seqs -> Agents]
      BY <1>1, <2>1 DEF Reset
    <2>3. pending' \in Seq(Seqs) /\ controls' \in Seq(Seqs \X Codes) /\ originals' \subseteq Keys
      BY <1>1 DEF Reset
    <2>4. target' \in Nat /\ cursor' \in Nat /\ lastSeen' \in Nat /\ running' \in Int
      BY <1>1 DEF Reset
    <2>5. stopped' \in BOOLEAN /\ proc' \in {"down", "scan", "live"}
      BY <1>1, Zenon
    <2>6. /\ log' \in Seq(Messages) /\ inflight' \subseteq Publications /\ epoch' \in Nat
          /\ invoked' \in [Seqs -> Nat]
      BY <1>1 DEF IInv, TypeOK
    <2>7. QED
      BY <1>2, <2>2, <2>3, <2>4, <2>5, <2>6 DEF TypeOK
  <1>4. \A t : (Asked(t)' <=> Asked(t)) /\ (First(t)' <=> First(t))
    BY <1>1 DEF Asked, First
  <1>5. RequestsBounded' /\ ReaderInv' /\ OriginalsInv'
    BY <1>1 DEF Reset, IInv, RequestsBounded, ReaderInv, OriginalsInv
  <1>6. ThreadInv'
    BY <1>1, NewAgentTypes DEF Reset, ThreadInv, Tracked, Absent
  <1>7. InvokedInv'
    BY <1>1, <1>4 DEF IInv, InvokedInv
  <1>8. QueueInv'
    BY <1>1 DEF Reset, QueueInv
  <1>9. QED
    BY <1>3, <1>5, <1>6, <1>7, <1>8 DEF IInv

\* A restart keeps the invariant: all calls ever made are in what recovery will read.
LEMMA RestartInv == IInv /\ Restart => IInv'
  <1> SUFFICES ASSUME IInv, Restart PROVE IInv'
    OBVIOUS
  <1> USE DEF server, worker, queues
  <1>1. /\ UNCHANGED <<log, inflight, requests, queues, running, agent, invoked, faults>>
        /\ proc = "down" /\ proc' = "scan" /\ epoch' = epoch + 1 /\ stopped' = FALSE
        /\ target' = Len(log) /\ cursor' = 1 /\ lastSeen' = 0
    BY DEF Restart
  <1>2. Len(log) \in Nat /\ originals = {} /\ pending = <<>> /\ controls = <<>>
    BY <1>1, LenProperties DEF IInv, TypeOK, ReaderInv
  <1>3. \A s \in Seqs : ~Tracked(s) /\ agent[s].pc = "idle"
    BY <1>1, DownIsEmpty
  <1>4. \A t : (Asked(t)' <=> Asked(t)) /\ (First(t)' <=> First(t))
    BY <1>1 DEF Asked, First
  <1>5. TypeOK'
    <2>1. epoch' \in Nat /\ target' \in Nat /\ cursor' \in Nat /\ lastSeen' \in Nat
      BY <1>1, <1>2, SMT DEF IInv, TypeOK
    <2>2. stopped' \in BOOLEAN /\ proc' \in {"down", "scan", "live"}
      BY <1>1, Zenon
    <2>3. QED
      BY <1>1, <2>1, <2>2 DEF IInv, TypeOK
  <1>6. RequestsBounded' /\ ReaderInv'
    BY <1>1, <1>2 DEF IInv, RequestsBounded, ReaderInv
  <1>7. OriginalsInv'
    <2>1. Seen' = 0
      BY <1>1 DEF Seen
    <2>2. RequestSeqs(Seen)' = {}
      BY <2>1 DEF RequestSeqs
    <2>3. QED
      BY <1>1, <1>2, <2>2 DEF OriginalsInv
  <1>8. ThreadInv'
    BY <1>1, <1>3 DEF IInv, ThreadInv, Tracked
  <1>9. InvokedInv'
    BY <1>1, <1>4 DEF IInv, InvokedInv, Known, First, Asked
  <1>10. QueueInv'
    BY <1>1, <1>2 DEF QueueInv
  <1>11. QED
    BY <1>5, <1>6, <1>7, <1>8, <1>9, <1>10 DEF IInv

\* The scan is over: the reader takes up the subscription where it ended.
LEMMA GoLiveInv == IInv /\ GoLive => IInv'
  <1> SUFFICES ASSUME IInv, GoLive PROVE IInv'
    OBVIOUS
  <1> USE DEF server, worker, queues
  <1>1. /\ UNCHANGED <<log, inflight, epoch, stopped, target, requests, queues, running, agent,
                        invoked, faults>>
        /\ proc = "scan" /\ proc' = "live" /\ lastSeen' = target /\ cursor' = 0
        /\ cursor > target
    BY DEF GoLive
  <1>2. /\ target <= Len(log) /\ cursor = target + 1 /\ target \in Nat
        /\ pending = <<>> /\ controls = <<>>
    BY <1>1 DEF IInv, TypeOK, ReaderInv
  <1>3. Seen' = Seen /\ Known' = Known /\ RequestSeqs(Seen)' = RequestSeqs(Seen)
    BY <1>1, <1>2 DEF Seen, Known, RequestSeqs
  <1>4. \A t : (Asked(t)' <=> Asked(t)) /\ (First(t)' <=> First(t))
    BY <1>1 DEF Asked, First
  <1>5. TypeOK' /\ RequestsBounded' /\ ReaderInv'
    BY <1>1, <1>2 DEF IInv, TypeOK, RequestsBounded, ReaderInv
  <1>6. OriginalsInv' /\ ThreadInv' /\ InvokedInv'
    BY <1>1, <1>3, <1>4 DEF IInv, OriginalsInv, ThreadInv, InvokedInv, Tracked
  <1>7. QueueInv'
    BY <1>1, <1>2 DEF QueueInv
  <1>8. QED
    BY <1>5, <1>6, <1>7 DEF IInv

\* stop() and _fail(): the records change, the threads and queues do not.
LEMMA FailInv ==
    ASSUME IInv, Fail, faults' \in Nat,
           UNCHANGED <<server, reader, queues, running, agent, invoked>>
    PROVE  IInv'
  <1> USE DEF server
  <1>1. requests' \in [Seqs -> RequestState] /\ \A s \in Seqs : Tracked(s)' => Tracked(s)
    BY StopAllType DEF Fail, IInv, TypeOK, Tracked
  <1>2. stopped' \in BOOLEAN
    BY Zenon DEF Fail
  <1>3. TypeOK'
    BY <1>1, <1>2 DEF Fail, IInv, TypeOK, reader, queues
  <1>4. QED
    BY <1>1, <1>3, ThreadMove DEF Fail

\* The subscription stream opens, closes or repeats a message.
LEMMA CursorMove ==
    ASSUME IInv, proc = "live", cursor' \in Nat, cursor' <= lastSeen + 1, faults' \in Nat,
           UNCHANGED <<server, process, target, lastSeen, worker, invoked>>
    PROVE  IInv'
  <1> USE DEF server, process, worker, queues
  <1>1. Seen' = Seen /\ Known' = Known /\ RequestSeqs(Seen)' = RequestSeqs(Seen)
    BY DEF Seen, Known, RequestSeqs
  <1>2. \A t : (Asked(t)' <=> Asked(t)) /\ (First(t)' <=> First(t))
    BY DEF Asked, First
  <1>3. TypeOK' /\ RequestsBounded' /\ ReaderInv'
    BY DEF IInv, TypeOK, RequestsBounded, ReaderInv
  <1>4. OriginalsInv' /\ ThreadInv' /\ InvokedInv'
    BY <1>1, <1>2 DEF IInv, OriginalsInv, ThreadInv, InvokedInv, Tracked
  <1>5. QueueInv'
    BY <1>2 DEF IInv, QueueInv
  <1>6. QED
    BY <1>3, <1>4, <1>5 DEF IInv

\* Opening and losing the stream, and a repeated delivery, keep the invariant.
LEMMA StreamInv == IInv /\ (Connect \/ Disconnect \/ DeliverAgain) => IInv'
  <1> SUFFICES ASSUME IInv, Connect \/ Disconnect \/ DeliverAgain PROVE IInv'
    OBVIOUS
  <1>1. cursor \in Nat /\ lastSeen \in Nat /\ faults \in Nat
    BY DEF IInv, TypeOK
  <1>2. /\ proc = "live" /\ cursor' \in Nat /\ cursor' <= lastSeen + 1 /\ faults' \in Nat
        /\ UNCHANGED <<server, process, target, lastSeen, worker, invoked>>
    BY <1>1 DEF Connect, Disconnect, DeliverAgain, Receiving
  <1>3. QED
    BY <1>2, CursorMove

-----------------------------------------------------------------------------
(* The reader processes the next message. *)

\* What an output does to the record of its request.
LEMMA ObservedTypes ==
    ASSUME NEW r \in RequestState, NEW m, NEW i \in Nat
    PROVE  Observed(r, m, i) \in RequestState
  <1> DEFINE linked == Linked(r, m, i)
             ended == [linked EXCEPT !.terminal = i, !.body = FALSE]
  <1>1. linked \in RequestState
    BY DEF Linked, RequestState
  <1> HIDE DEF linked
  <1>2. ended \in RequestState
    BY <1>1 DEF RequestState
  <1> HIDE DEF ended
  <1>3. Aborted(ended) \in RequestState
    BY <1>2, RecordTypes
  <1>4. Retired(ended) \in RequestState /\ Retired(Aborted(ended)) \in RequestState
    BY <1>2, <1>3, RecordTypes
  <1>5. QED
    BY <1>1, <1>4 DEF Observed, linked, ended

\* The effect of one message on the records and the queues.
AcceptEffect(i, h) ==
    /\ requests' \in [Seqs -> RequestState]
    /\ \A t \in Seqs : Tracked(t)' => Tracked(t) \/ (t = i /\ Asked(i))
    /\ originals' = IF IsRequest(log[i]) THEN originals \cup {log[i].key} ELSE originals
    /\ originals' \subseteq Keys
    /\ \/ pending' = pending
       \/ ~h /\ i \in Seqs /\ First(i) /\ pending' = Append(pending, i) /\ controls' = controls
    /\ \/ controls' = controls
       \/ /\ ~h /\ i \in Seqs /\ Asked(i) /\ pending' = pending
          /\ \E code \in Codes : controls' = Append(controls, <<i, code>>)

\* What _accept does to the maps and queues, for every message.
LEMMA AcceptStep ==
    ASSUME IInv, NEW h \in BOOLEAN, NEW i \in 1..Len(log), i = Seen + 1, proc # "down",
           Accept(i, h)
    PROVE  AcceptEffect(i, h)
  <1> DEFINE m == log[i]
  <1>1. /\ requests \in [Seqs -> RequestState] /\ originals \subseteq Keys
        /\ m \in Messages /\ i \in Nat
    BY ElementOfSeq DEF IInv, TypeOK
  <1>2. CASE UNCHANGED <<requests, queues>> /\ ~IsRequest(m)
    BY <1>1, <1>2 DEF AcceptEffect, Tracked, queues
  <1>3. CASE IsOutput(m) /\ ~Skipped(m) /\ requests' = [requests EXCEPT ![m.ref] = Observed(@, m, i)]
             /\ UNCHANGED queues
    <2>1. m.ref \in Seqs /\ Tracked(m.ref) /\ ~IsRequest(m)
      BY <1>3 DEF Skipped, Matched, IsOutput, IsRequest
    <2>2. Observed(requests[m.ref], m, i) \in RequestState
      BY <1>1, <2>1, ObservedTypes
    <2>3. requests' = [requests EXCEPT ![m.ref] = Observed(requests[m.ref], m, i)]
      BY <1>3
    <2>4. requests' \in [Seqs -> RequestState] /\ \A t \in Seqs : Tracked(t)' => Tracked(t)
      BY <1>1, <2>1, <2>2, <2>3 DEF Tracked
    <2>5. QED
      BY <1>1, <1>3, <2>1, <2>4 DEF AcceptEffect, queues
  <1>4. CASE IsRequest(m) /\ Track(i, h)
    <2> DEFINE duplicate == m.key \in originals
               code == CASE duplicate -> Duplicate
                         [] ~duplicate /\ m.fit = "large" -> TooLarge
                         [] ~duplicate /\ m.fit = "config" -> BadProvider
                         [] OTHER -> Http
               admitted == ~h /\ code = Http
               r == [Absent EXCEPT !.phase = "pending", !.duplicate = duplicate,
                                   !.body = admitted]
    <2>1. m \in Requests /\ i \in Seqs /\ Asked(i)
      BY <1>1, <1>4, MessageKinds DEF IInv, RequestsBounded, Asked
    <2>2. ~Tracked(i)
      BY <2>1, SeenKnown DEF IInv, ThreadInv
    <2>3. /\ requests' = [requests EXCEPT ![i] = r]
          /\ originals' = originals \cup {m.key}
          /\ pending' = IF admitted THEN Append(pending, i) ELSE pending
          /\ controls' = IF ~h /\ code # Http THEN Append(controls, <<i, code>>) ELSE controls
      BY <1>4, <2>2, Zenon DEF Track
    <2>4. r \in RequestState
      <3>1. duplicate \in BOOLEAN /\ admitted \in BOOLEAN
        OBVIOUS
      <3> HIDE DEF duplicate, admitted
      <3>2. QED
        BY <3>1 DEF Absent, RequestState, Phases, Operations
    <2>5. requests' \in [Seqs -> RequestState] /\ \A t \in Seqs : Tracked(t)' => Tracked(t) \/ (t = i /\ Asked(i))
      <3> HIDE DEF r
      <3>1. QED
        BY <1>1, <2>1, <2>3, <2>4 DEF Tracked
    <2>6. code \in Codes /\ (code = Http => ~duplicate /\ m.fit = "ok")
      BY <2>1 DEF Codes, ProviderCodes, Http, Duplicate, TooLarge, BadProvider, Requests, Fits
    <2>7. ~duplicate => \A q \in 1..(i - 1) : IsRequest(log[q]) => log[q].key # m.key
      <3>1. i - 1 = Seen
        BY SeenKnown
      <3>2. originals = {log[q].key : q \in RequestSeqs(i - 1)}
        BY <3>1 DEF IInv, OriginalsInv
      <3>3. QED
        BY <3>2 DEF RequestSeqs
    <2>8. admitted => First(i)
      BY <2>1, <2>6, <2>7 DEF First
    <2>9. originals' \subseteq Keys
      BY <1>1, <2>1, <2>3 DEF Requests
    <2> HIDE DEF code, duplicate, r
    <2>10. \/ pending' = pending
           \/ ~h /\ First(i) /\ pending' = Append(pending, i) /\ controls' = controls
      BY <2>3, <2>8
    <2>11. \/ controls' = controls
           \/ /\ ~h /\ pending' = pending
              /\ \E c \in Codes : controls' = Append(controls, <<i, c>>)
      BY <2>3, <2>6
    <2>12. QED
      BY <1>4, <2>1, <2>3, <2>5, <2>9, <2>10, <2>11 DEF AcceptEffect
  <1>5. QED
    BY <1>2, <1>3, <1>4 DEF Accept, System, IsOutput, IsRequest

\* A message that was accepted is the last one seen from then on.
LEMMA Advance ==
    ASSUME IInv, NEW h \in BOOLEAN, NEW i \in 1..Len(log), i = Seen + 1, proc # "down",
           AcceptEffect(i, h), proc = "scan" => h,
           UNCHANGED <<log, inflight, process, target, running, agent, invoked, faults>>,
           cursor' \in Nat, lastSeen' \in Nat, Seen' = i, Known <= Known',
           proc = "live" => lastSeen = i - 1 /\ lastSeen' = i,
           ReaderInv'
    PROVE  IInv'
  <1> USE DEF process
  <1>1. \A t : (Asked(t)' <=> Asked(t)) /\ (First(t)' <=> First(t))
    BY DEF Asked, First
  <1>2. /\ log \in Seq(Messages) /\ pending \in Seq(Seqs) /\ controls \in Seq(Seqs \X Codes)
        /\ Len(log) \in Nat /\ Len(pending) \in Nat /\ Len(controls) \in Nat /\ i \in Nat
        /\ Seen \in Nat /\ Known \in Nat
    BY LenProperties, SeenKnown DEF IInv, TypeOK
  <1>3. pending' \in Seq(Seqs) /\ controls' \in Seq(Seqs \X Codes)
    <2>1. pending' \in Seq(Seqs)
      <3>1. i \in Seqs => Append(pending, i) \in Seq(Seqs)
        BY <1>2, AppendProperties
      <3>2. QED
        BY <1>2, <3>1 DEF AcceptEffect
    <2>2. ASSUME NEW code \in Codes, i \in Seqs PROVE Append(controls, <<i, code>>) \in Seq(Seqs \X Codes)
      BY <1>2, <2>2, AppendProperties
    <2>3. QED
      BY <1>2, <2>1, <2>2 DEF AcceptEffect
  <1>4. TypeOK'
    BY <1>3 DEF IInv, TypeOK, AcceptEffect
  <1>5. RequestsBounded'
    BY DEF IInv, RequestsBounded
  <1>6. OriginalsInv'
    <2>1. originals = {log[q].key : q \in RequestSeqs(i - 1)}
      BY <1>2 DEF IInv, OriginalsInv
    <2>2. RequestSeqs(i) = RequestSeqs(i - 1) \cup (IF IsRequest(log[i]) THEN {i} ELSE {})
      BY <1>2 DEF RequestSeqs
    <2>3. originals' = {log[q].key : q \in RequestSeqs(i)}
      BY <2>1, <2>2, Zenon DEF AcceptEffect
    <2>4. RequestSeqs(Seen)' = RequestSeqs(i)
      BY DEF RequestSeqs
    <2>5. QED
      BY <2>3, <2>4 DEF OriginalsInv
  <1>7. ThreadInv'
    <2>1. ASSUME NEW t \in Seqs, Tracked(t)' PROVE Asked(t) /\ t <= i
      <3>1. Tracked(t) \/ (t = i /\ Asked(i))
        BY <2>1 DEF AcceptEffect
      <3>2. CASE Tracked(t)
        BY <1>2, <3>2 DEF IInv, ThreadInv, Seqs
      <3>3. CASE t = i /\ Asked(i)
        BY <1>2, <3>3
      <3>4. QED
        BY <3>1, <3>2, <3>3
    <2>2. \A t \in Seqs : t <= Seen => t <= i
      BY <1>2 DEF Seqs
    <2>3. QED
      BY <1>1, <2>1, <2>2 DEF IInv, ThreadInv
  <1>8. InvokedInv'
    <2>1. Known' \in Nat /\ \A t \in Seqs : t <= Known => t <= Known'
      BY <1>2 DEF Known, Seqs, IInv, TypeOK
    <2>2. QED
      BY <1>1, <2>1 DEF IInv, InvokedInv
  <1>9. QueueInv'
    <2>1. CASE proc = "scan"
      BY <2>1 DEF ReaderInv, QueueInv
    <2>2. CASE proc = "live"
      <3>1. lastSeen = i - 1 /\ lastSeen' = i /\ UNCHANGED <<agent, invoked>>
        BY <2>2
      <3>2. i \in Seqs => invoked[i] = 0 /\ agent[i].pc = "idle"
        <4>1. Known = i - 1 /\ Seen = i - 1
          BY <2>2, <3>1 DEF Known, Seen
        <4>2. invoked \in [Seqs -> Nat]
          BY DEF IInv, TypeOK
        <4>3. QED
          BY <1>2, <2>2, <4>1, <4>2 DEF IInv, InvokedInv, ThreadInv
      <3>3. \A j \in 1..Len(pending) :
               /\ pending[j] \in Seqs /\ pending[j] # i /\ pending[j] <= i
               /\ First(pending[j]) /\ invoked[pending[j]] = 0 /\ agent[pending[j]].pc = "idle"
        BY <1>2, <3>1, QueueTypes DEF IInv, QueueInv, Seqs
      <3>4. \A j \in 1..Len(controls) :
               /\ controls[j][1] \in Seqs /\ controls[j][1] # i /\ controls[j][1] <= i
               /\ Asked(controls[j][1]) /\ agent[controls[j][1]].pc = "idle"
        BY <1>2, <3>1, QueueTypes DEF IInv, QueueInv, Seqs
      <3>5. \/ pending' = pending
            \/ /\ i \in Seqs /\ First(i) /\ controls' = controls
               /\ Len(pending') = Len(pending) + 1 /\ pending'[Len(pending) + 1] = i
               /\ \A j \in 1..Len(pending) : pending'[j] = pending[j]
        <4>1. ASSUME i \in Seqs, pending' = Append(pending, i)
              PROVE  /\ Len(pending') = Len(pending) + 1 /\ pending'[Len(pending) + 1] = i
                     /\ \A j \in 1..Len(pending) : pending'[j] = pending[j]
          BY <1>2, <4>1, AppendProperties
        <4>2. QED
          BY <4>1 DEF AcceptEffect
      <3>6. \/ controls' = controls
            \/ /\ i \in Seqs /\ Asked(i) /\ pending' = pending
               /\ Len(controls') = Len(controls) + 1 /\ controls'[Len(controls) + 1][1] = i
               /\ \A j \in 1..Len(controls) : controls'[j] = controls[j]
        <4>1. ASSUME NEW code \in Codes, i \in Seqs, controls' = Append(controls, <<i, code>>)
              PROVE  /\ Len(controls') = Len(controls) + 1 /\ controls'[Len(controls) + 1][1] = i
                     /\ \A j \in 1..Len(controls) : controls'[j] = controls[j]
          <5>1. <<i, code>> \in Seqs \X Codes
            BY <4>1
          <5>2. QED
            BY <1>2, <4>1, <5>1, AppendProperties
        <4>2. QED
          BY <4>1 DEF AcceptEffect
      <3>7. CASE pending' = pending /\ controls' = controls
        BY <1>1, <3>1, <3>3, <3>4, <3>7 DEF IInv, QueueInv
      <3>8. CASE /\ i \in Seqs /\ First(i) /\ controls' = controls
                 /\ Len(pending') = Len(pending) + 1 /\ pending'[Len(pending) + 1] = i
                 /\ \A j \in 1..Len(pending) : pending'[j] = pending[j]
        <4>1. \A j \in 1..Len(pending') :
                 \/ j \in 1..Len(pending) /\ pending'[j] = pending[j]
                 \/ j = Len(pending) + 1 /\ pending'[j] = i
          BY <1>2, <3>8
        <4>2. \A j \in 1..Len(pending') :
                 /\ First(pending'[j]) /\ pending'[j] <= lastSeen'
                 /\ invoked'[pending'[j]] = 0 /\ agent'[pending'[j]].pc = "idle"
          BY <1>2, <3>1, <3>2, <3>3, <3>8, <4>1
        <4>3. \A j \in 1..Len(pending') : First(pending[j])'
          BY <1>1, <4>2
        <4>4. \A j, k \in 1..Len(pending') : j # k => pending'[j] # pending'[k]
          BY <3>3, <4>1 DEF IInv, QueueInv
        <4>5. /\ \A j \in 1..Len(controls') : Asked(controls[j][1])' /\ controls'[j][1] <= lastSeen'
                                               /\ agent'[controls'[j][1]].pc = "idle"
              /\ \A j, k \in 1..Len(controls') : j # k => controls'[j][1] # controls'[k][1]
          <5>1. controls' = controls
            BY <3>8
          <5>2. \A j \in 1..Len(controls) : Asked(controls[j][1])'
            BY <1>1, <3>4, <5>1
          <5>3. \A j, k \in 1..Len(controls) : j # k => controls[j][1] # controls[k][1]
            BY DEF IInv, QueueInv
          <5>4. QED
            BY <3>1, <3>4, <5>1, <5>2, <5>3
        <4>6. \A j \in 1..Len(pending'), k \in 1..Len(controls') : pending'[j] # controls'[k][1]
          BY <3>4, <3>8, <4>1 DEF IInv, QueueInv
        <4>7. QED
          BY <4>2, <4>3, <4>4, <4>5, <4>6 DEF QueueInv
      <3>9. CASE /\ i \in Seqs /\ Asked(i) /\ pending' = pending
                 /\ Len(controls') = Len(controls) + 1 /\ controls'[Len(controls) + 1][1] = i
                 /\ \A j \in 1..Len(controls) : controls'[j] = controls[j]
        <4>1. \A j \in 1..Len(controls') :
                 \/ j \in 1..Len(controls) /\ controls'[j] = controls[j]
                 \/ j = Len(controls) + 1 /\ controls'[j][1] = i
          BY <1>2, <3>9
        <4>2. \A j \in 1..Len(controls') :
                 /\ Asked(controls'[j][1]) /\ controls'[j][1] <= lastSeen'
                 /\ agent'[controls'[j][1]].pc = "idle"
          BY <1>2, <3>1, <3>2, <3>4, <3>9, <4>1
        <4>3. \A j \in 1..Len(controls') : Asked(controls[j][1])'
          BY <1>1, <4>2
        <4>4. \A j, k \in 1..Len(controls') : j # k => controls'[j][1] # controls'[k][1]
          BY <3>4, <4>1 DEF IInv, QueueInv
        <4>5. /\ \A j \in 1..Len(pending') : /\ First(pending[j])' /\ pending'[j] <= lastSeen'
                                               /\ invoked'[pending'[j]] = 0
                                               /\ agent'[pending'[j]].pc = "idle"
              /\ \A j, k \in 1..Len(pending') : j # k => pending'[j] # pending'[k]
          <5>1. pending' = pending
            BY <3>9
          <5>2. \A j \in 1..Len(pending) : First(pending[j])'
            BY <1>1, <3>3, <5>1
          <5>3. \A j, k \in 1..Len(pending) : j # k => pending[j] # pending[k]
            BY DEF IInv, QueueInv
          <5>4. QED
            BY <3>1, <3>3, <5>1, <5>2, <5>3
        <4>6. \A j \in 1..Len(pending'), k \in 1..Len(controls') : pending'[j] # controls'[k][1]
          BY <3>3, <3>9, <4>1 DEF IInv, QueueInv
        <4>7. QED
          BY <4>2, <4>3, <4>4, <4>5, <4>6 DEF QueueInv
      <3>10. QED
        BY <3>5, <3>6, <3>7, <3>8, <3>9
    <2>3. QED
      BY <2>1, <2>2 DEF IInv, TypeOK
  <1>10. QED
    BY <1>4, <1>5, <1>6, <1>7, <1>8, <1>9 DEF IInv

\* Reading history keeps the invariant.
LEMMA ScanInv == IInv /\ Scan => IInv'
  <1> SUFFICES ASSUME IInv, Scan PROVE IInv'
    OBVIOUS
  <1>1. /\ proc = "scan" /\ cursor <= target
        /\ UNCHANGED <<server, target, lastSeen, running, agent, invoked, faults>>
    BY DEF Scan
  <1>2. /\ cursor \in Nat /\ target \in Nat /\ Len(log) \in Nat /\ lastSeen \in Nat
        /\ cursor \in 1..Len(log) /\ faults \in Nat /\ Seen = cursor - 1
    BY <1>1, LenProperties DEF IInv, TypeOK, ReaderInv, Seen
  <1>3. CASE Accept(cursor, TRUE) /\ cursor' = cursor + 1 /\ UNCHANGED process
    <2>1. cursor = Seen + 1 /\ proc # "down"
      BY <1>1, <1>2
    <2>2. AcceptEffect(cursor, TRUE)
      BY <1>2, <1>3, <2>1, AcceptStep
    <2>3. /\ Seen' = cursor /\ Known <= Known' /\ cursor' \in Nat /\ lastSeen' \in Nat
          /\ UNCHANGED <<log, inflight>>
      BY <1>1, <1>2, <1>3 DEF Seen, Known, process, server
    <2>4. ReaderInv'
      <3>1. pending' = pending /\ controls' = controls
        BY <2>2 DEF AcceptEffect
      <3>2. QED
        BY <1>1, <1>2, <1>3, <3>1 DEF IInv, ReaderInv, process, server
    <2>5. QED
      BY <1>1, <1>2, <1>3, <2>1, <2>2, <2>3, <2>4, Advance
  <1>4. CASE Fail /\ UNCHANGED <<cursor, queues>>
    BY <1>1, <1>2, <1>4, FailInv DEF reader
  <1>5. QED
    BY <1>3, <1>4 DEF Scan

\* Reading the live stream keeps the invariant.
LEMMA DeliverInv == IInv /\ Deliver => IInv'
  <1> SUFFICES ASSUME IInv, Deliver PROVE IInv'
    OBVIOUS
  <1>1. /\ proc = "live" /\ cursor \in 1..Len(log) /\ cursor > lastSeen
        /\ Accept(cursor, FALSE) /\ cursor' = cursor + 1 /\ lastSeen' = cursor
        /\ UNCHANGED <<log, inflight, process, target, running, agent, invoked, faults>>
    BY DEF Deliver, Receiving, server
  <1>2. cursor \in Nat /\ lastSeen \in Nat /\ cursor = lastSeen + 1 /\ Seen = lastSeen
    BY <1>1 DEF IInv, TypeOK, ReaderInv, Seen
  <1>3. AcceptEffect(cursor, FALSE)
    BY <1>1, <1>2, AcceptStep
  <1>4. /\ Seen' = cursor /\ Known <= Known' /\ cursor' \in Nat /\ lastSeen' \in Nat
        /\ proc' = "live" /\ ReaderInv'
    BY <1>1, <1>2, LenProperties DEF Seen, Known, process, ReaderInv, IInv, TypeOK
  <1>5. lastSeen = cursor - 1 /\ cursor = Seen + 1
    BY <1>2
  <1>6. QED
    BY <1>1, <1>3, <1>4, <1>5, Advance

-----------------------------------------------------------------------------
(* The invariant is inductive. *)

\* Restart, recovery, going live, stop, crash and exit keep the invariant.
LEMMA LifeInv == IInv /\ Life => IInv'
  <1> SUFFICES ASSUME IInv, Life PROVE IInv'
    OBVIOUS
  <1>1. ASSUME Stop PROVE IInv'
    <2>1. faults' \in Nat
      BY <1>1 DEF Stop, IInv, TypeOK
    <2>2. QED
      BY <1>1, <2>1, FailInv DEF Stop
  <1>2. QED
    BY <1>1, RestartInv, ScanInv, RecoverRequestInv, GoLiveInv, ResetInv DEF Life

\* Every step of the reader keeps the invariant.
LEMMA SubscriptionInv == IInv /\ Subscription => IInv'
  <1> SUFFICES ASSUME IInv, Subscription PROVE IInv'
    OBVIOUS
  <1>1. ASSUME DeliverFault PROVE IInv'
    <2>1. faults' \in Nat
      BY <1>1 DEF DeliverFault, IInv, TypeOK
    <2>2. QED
      BY <1>1, <2>1, FailInv DEF DeliverFault
  <1>2. QED
    BY <1>1, StreamInv, DeliverInv DEF Subscription

\* Doing nothing keeps the invariant.
LEMMA StutterInv == IInv /\ UNCHANGED vars => IInv'
  <1> SUFFICES ASSUME IInv, UNCHANGED vars PROVE IInv'
    OBVIOUS
  <1>1. UNCHANGED <<log, inflight, process, reader, requests, queues, running, agent, invoked, faults>>
    BY DEF vars, server, worker
  <1>2. TypeOK'
    BY <1>1 DEF IInv, TypeOK, process, reader, queues
  <1>3. QED
    BY <1>1, <1>2, ThreadMove DEF process, Tracked

\* The invariant holds in every reachable state.
THEOREM Invariance == Spec => []IInv
  <1>1. Init => IInv
    BY InitInv, ConstantsAssumption
  <1>2. IInv /\ [Next]_vars => IInv'
    <2> SUFFICES ASSUME IInv, [Next]_vars PROVE IInv'
      OBVIOUS
    <2>1. CASE Environment
      BY <2>1, EnvironmentInv
    <2>2. CASE Life
      BY <2>2, LifeInv
    <2>3. CASE Subscription
      BY <2>3, SubscriptionInv
    <2>4. CASE Schedule
      BY <2>4, ScheduleInv
    <2>5. CASE ControlBegin
      BY <2>5, ControlBeginInv
    <2>6. ASSUME NEW s \in Seqs, Thread(s) PROVE IInv'
      BY <2>6, ThreadInvStep
    <2>7. CASE UNCHANGED vars
      BY <2>7, StutterInv
    <2>8. QED
      BY <2>1, <2>2, <2>3, <2>4, <2>5, <2>6, <2>7 DEF Next
  <1>3. QED
    BY <1>1, <1>2, PTL DEF Spec

\* The records, queues and thread states keep their shape whatever the log
\* holds, however many requests, slots and faults there are.
THEOREM TypeCorrect == Spec => []TypeOK
  <1>1. IInv => TypeOK
    BY DEF IInv
  <1>2. QED
    BY <1>1, Invariance, PTL

\* At most one Provider call is made for a stream key, over all incarnations,
\* and only for its first request, when that passed the admission checks.
THEOREM OneCall == Spec => []AtMostOneProviderCall
  <1>1. IInv => AtMostOneProviderCall
    <2> SUFFICES ASSUME IInv, NEW s \in Seqs, invoked[s] > 0
                 PROVE  invoked[s] = 1 /\ log[s].fit = "ok" /\ ~Earlier(s)
      BY DEF AtMostOneProviderCall
    <2>1. invoked[s] = 1 /\ First(s)
      BY DEF IInv, InvokedInv
    <2>2. QED
      BY <2>1 DEF First, Earlier, RequestSeqs
  <1>2. QED
    BY <1>1, Invariance, PTL

(***************************************************************************)
(* The threads: Worker.running counts the live Provider tasks, and the     *)
(* record of a request agrees with the thread that works for it.           *)
(***************************************************************************)
Tasks == {s \in Seqs : agent[s].role = "provider"}

\* The tasks are finitely many, so that adding one to the set or taking one
\* from it changes their number by one.
LEMMA TasksFinite == IsFiniteSet(Tasks)
  <1>1. IsFiniteSet(Seqs)
    BY ConstantsAssumption, FS_Interval DEF Seqs
  <1>2. QED
    BY <1>1, FS_Subset DEF Tasks

\* One agent record changes and keeps its role, or is that of no task.
LEMMA SameTasks ==
    ASSUME IInv, NEW s \in Seqs, NEW a \in Agents, agent' = [agent EXCEPT ![s] = a],
           a.role = "provider" <=> agent[s].role = "provider"
    PROVE  Tasks' = Tasks
  <1>1. agent \in [Seqs -> Agents]
    BY DEF IInv, TypeOK
  <1>2. agent'[s] = a /\ \A t \in Seqs \ {s} : agent'[t] = agent[t]
    BY <1>1
  <1>3. QED
    BY <1>2 DEF Tasks

\* The other members and OpenEvent only mark a publication as acknowledged.
LEMMA EnvironmentTasks == IInv /\ Environment => Tasks' = Tasks /\ running' = running
  <1> SUFFICES ASSUME IInv, Environment PROVE Tasks' = Tasks /\ running' = running
    OBVIOUS
  <1>1. ASSUME NEW m, Write(m) PROVE Tasks' = Tasks /\ running' = running
    BY <1>1 DEF Write, worker, Tasks
  <1>2. ASSUME NEW p \in inflight, Commit(p) PROVE Tasks' = Tasks /\ running' = running
    <2>1. agent \in [Seqs -> Agents] /\ running' = running
      BY <1>2 DEF IInv, TypeOK, Commit
    <2>2. CASE agent' = agent
      BY <2>1, <2>2 DEF Tasks
    <2>3. CASE agent' = [agent EXCEPT ![p.event.ref].ack = Len(log) + 1]
      <3>1. \A s \in Seqs : agent'[s].role = agent[s].role
        BY <2>1, <2>3 DEF Agents
      <3>2. QED
        BY <2>1, <3>1 DEF Tasks
    <2>4. QED
      BY <1>2, <2>2, <2>3 DEF Commit
  <1>3. QED
    BY <1>1, <1>2 DEF Environment, PublishRequest, PublishCancel, PublishNoise

\* A thread keeps its role until its last block.
LEMMA ThreadTasks ==
    ASSUME IInv, NEW s \in Seqs, Thread(s), ~TaskFinally(s)
    PROVE  Tasks' = Tasks /\ running' = running
  <1>1. agent[s] \in Agents /\ requests[s] \in RequestState
    BY DEF IInv, TypeOK
  <1>2. /\ Last(agent[s]) \in Agents /\ Last(agent[s]).role = agent[s].role
        /\ Acked(agent[s]) \in Agents /\ Acked(agent[s]).role = "provider"
        /\ Idle \in Agents /\ Idle.role = "none"
    BY <1>1, AgentTypes, NewAgentTypes
  <1>3. ASSUME Finish(s) PROVE Tasks' = Tasks
    BY <1>2, <1>3, SameTasks DEF Finish
  <1>4. ASSUME NEW pc \in Labels, Goto(s, pc) PROVE Tasks' = Tasks
    <2>1. Moved(agent[s], pc) \in Agents /\ Moved(agent[s], pc).role = agent[s].role
      BY <1>1, AgentTypes
    <2>2. agent' = [agent EXCEPT ![s] = Moved(agent[s], pc)]
      BY <1>4 DEF Goto, Moved
    <2>3. QED
      BY <2>1, <2>2, SameTasks
  <1>5. ASSUME NEW e \in Outputs, EmitOrEnd(s, e) PROVE Tasks' = Tasks /\ running' = running
    <2>1. WithEvent(agent[s], e) \in Agents /\ WithEvent(agent[s], e).role = agent[s].role
      BY <1>1, AgentTypes
    <2>2. \/ agent' = [agent EXCEPT ![s] = WithEvent(agent[s], e)]
          \/ agent' = [agent EXCEPT ![s] = Last(agent[s])]
      BY <1>5 DEF EmitOrEnd, WithEvent
    <2>3. QED
      BY <1>2, <1>5, <2>1, <2>2, SameTasks DEF EmitOrEnd
  <1>6. "install" \in Labels /\ "start" \in Labels /\ "iterate" \in Labels /\ "publish" \in Labels
    BY DEF Labels
  <1>7. CASE TaskBegin(s) \/ TaskInstall(s) \/ TaskStart(s) \/ ProviderCancelled(s) \/ PublishStart(s)
    BY <1>3, <1>4, <1>6, <1>7
       DEF TaskBegin, TaskInstall, TaskStart, ProviderCancelled, PublishStart
  <1>8. CASE ProviderStep(s) \/ Oversize(s)
    BY <1>5, <1>8, StepOutputs DEF ProviderStep, Yield, ProviderFail, Oversize
  <1>9. CASE ControlFinally(s)
    BY <1>2, <1>9, SameTasks DEF ControlFinally, At
  <1>10. CASE PublishReturn(s)
    <2>1. \/ agent' = [agent EXCEPT ![s] = Idle] /\ agent[s].role = "recovery"
          \/ agent' = [agent EXCEPT ![s] = Acked(agent[s])] /\ agent[s].role = "provider"
          \/ agent' = [agent EXCEPT ![s] = Last(agent[s])]
      BY <1>10 DEF PublishReturn
    <2>2. QED
      BY <1>2, <1>10, <2>1, SameTasks DEF PublishReturn
  <1>11. CASE PublishFail(s)
    BY <1>3, <1>11 DEF PublishFail
  <1>13. CASE ControlFail(s)
    BY <1>2, <1>13, SameTasks DEF ControlFail
  <1>12. QED
    BY <1>7, <1>8, <1>9, <1>10, <1>11, <1>13 DEF Thread, ThreadStep

\* A task that ends leaves the set.
LEMMA TaskFinallyTasks ==
    ASSUME IInv, NEW s \in Seqs, TaskFinally(s)
    PROVE  s \in Tasks /\ Tasks' = Tasks \ {s} /\ running' = running - 1
  <1>1. agent \in [Seqs -> Agents] /\ Idle.role = "none"
    BY NewAgentTypes DEF IInv, TypeOK
  <1>2. agent' = [agent EXCEPT ![s] = Idle] /\ agent[s].role = "provider" /\ running' = running - 1
    BY DEF TaskFinally, At
  <1>3. QED
    BY <1>1, <1>2 DEF Tasks

\* The scheduler starts a task only for a request nobody works for.
LEMMA ScheduleTasks ==
    ASSUME IInv, Schedule
    PROVE  \/ Tasks' = Tasks /\ running' = running
           \/ /\ running < MaxConcurrency /\ running' = running + 1
              /\ \E s \in Seqs : s \notin Tasks /\ Tasks' = Tasks \cup {s}
  <1> DEFINE s == Head(pending)
  <1>1. /\ pending \in Seq(Seqs) /\ pending # <<>> /\ agent \in [Seqs -> Agents]
        /\ running < MaxConcurrency
    BY DEF Schedule, IInv, TypeOK
  <1>2. s = pending[1] /\ s \in Seqs /\ 1 \in 1..Len(pending)
    BY <1>1, TakeHead
  <1>3. s \notin Tasks
    BY <1>2 DEF IInv, QueueInv, ThreadInv, Tasks
  <1>4. CASE ~Tracked(s)
    BY <1>4 DEF Schedule, Tasks
  <1>5. CASE Tracked(s)
    <2>1. running' = running + 1 /\ agent' = [agent EXCEPT ![s] = Task] /\ Task.role = "provider"
      BY <1>5, NewAgentTypes DEF Schedule
    <2>2. agent'[s].role = "provider" /\ \A t \in Seqs \ {s} : agent'[t] = agent[t]
      BY <1>1, <1>2, <2>1
    <2>3. Tasks' = Tasks \cup {s}
      BY <1>2, <2>2 DEF Tasks
    <2>4. QED
      BY <1>1, <1>2, <1>3, <2>1, <2>3
  <1>6. QED
    BY <1>4, <1>5

\* Recovery and the control thread never touch the record of a task.
LEMMA OtherThreads ==
    ASSUME IInv, ControlBegin \/ \E s \in Seqs : RecoverRequest(s)
    PROVE  Tasks' = Tasks /\ running' = running
  <1>1. CASE ControlBegin
    <2> DEFINE s == Head(controls)[1]
               e == ErrorEvent(s, Head(controls)[2], FALSE, TRUE)
    <2>1. controls \in Seq(Seqs \X Codes) /\ controls # <<>> /\ agent \in [Seqs -> Agents]
      BY <1>1 DEF ControlBegin, IInv, TypeOK
    <2>2. Head(controls) = controls[1] /\ Head(controls) \in Seqs \X Codes /\ 1 \in 1..Len(controls)
      BY <2>1, TakeHead
    <2>3. s \in Seqs /\ Asked(s) /\ agent[s].role = "none"
      BY <2>2 DEF IInv, QueueInv, ThreadInv
    <2>4. e \in Outputs
      BY <2>2, <2>3, ErrorEventType DEF Asked
    <2>5. Emitting("control", e) \in Agents /\ Emitting("control", e).role = "control"
      BY <2>4, NewAgentTypes DEF Roles
    <2>6. agent' = agent \/ agent' = [agent EXCEPT ![s] = Emitting("control", e)]
      BY <1>1 DEF ControlBegin
    <2>7. QED
      BY <1>1, <2>3, <2>5, <2>6, SameTasks DEF ControlBegin, Tasks
  <1>2. ASSUME NEW s \in Seqs, RecoverRequest(s) PROVE Tasks' = Tasks /\ running' = running
    <2> DEFINE e == ErrorEvent(s, Interrupted, TRUE, FALSE)
    <2>1. /\ agent[s] = Idle /\ s \in Unresolved /\ running' = running
          /\ agent' = [agent EXCEPT ![s] = Emitting("recovery", e)]
      BY <1>2 DEF RecoverRequest
    <2>2. Asked(s) /\ Interrupted \in InterruptedCodes
      BY <2>1 DEF Unresolved, Tracked, IInv, ThreadInv, InterruptedCodes
    <2>3. e \in Outputs
      BY <2>2, ErrorEventType DEF Asked
    <2>4. Emitting("recovery", e) \in Agents /\ Emitting("recovery", e).role = "recovery"
      BY <2>3, NewAgentTypes DEF Roles
    <2>5. QED
      BY <2>1, <2>4, NewAgentTypes, SameTasks
  <1>3. QED
    BY <1>1, <1>2

-----------------------------------------------------------------------------

\* Every step changes the counter and the set of Provider tasks alike.
LEMMA SlotStep ==
    ASSUME IInv, SlotAccounting, [Next]_vars
    PROVE  SlotAccounting'
  <1> USE DEF worker, process
  <1>1. MaxConcurrency \in Nat /\ running \in Int
    BY ConstantsAssumption DEF IInv, TypeOK
  <1>2. IsFiniteSet(Tasks) /\ running = Cardinality(Tasks) /\ running <= MaxConcurrency
    BY TasksFinite DEF SlotAccounting, Tasks
  <1>3. ASSUME Tasks' = Tasks, running' = running PROVE SlotAccounting'
    BY <1>2, <1>3 DEF SlotAccounting, Tasks
  <1>4. ASSUME NEW s \in Seqs, TaskFinally(s) PROVE SlotAccounting'
    <2>1. s \in Tasks /\ Tasks' = Tasks \ {s} /\ running' = running - 1
      BY <1>4, TaskFinallyTasks
    <2>2. Cardinality(Tasks') = Cardinality(Tasks) - 1
      BY <1>2, <2>1, FS_RemoveElement
    <2>3. running' = Cardinality(Tasks') /\ running' <= MaxConcurrency
      BY <1>1, <1>2, <2>1, <2>2, SMT
    <2>4. QED
      BY <2>3 DEF SlotAccounting, Tasks
  <1>5. CASE Schedule
    <2>1. CASE Tasks' = Tasks /\ running' = running
      BY <1>3, <2>1
    <2>2. ASSUME NEW s \in Seqs, s \notin Tasks, Tasks' = Tasks \cup {s},
                 running < MaxConcurrency, running' = running + 1
          PROVE  SlotAccounting'
      <3>1. Cardinality(Tasks') = Cardinality(Tasks) + 1
        BY <1>2, <2>2, FS_AddElement
      <3>2. QED
        BY <1>1, <1>2, <2>2, <3>1 DEF SlotAccounting, Tasks
    <2>3. QED
      BY <1>5, <2>1, <2>2, ScheduleTasks
  <1>6. CASE Crash \/ Exit
    <2>1. running' = 0 /\ Tasks' = {}
      BY <1>6, NewAgentTypes DEF Crash, Exit, Reset, Tasks
    <2>2. Cardinality(Tasks') = 0
      BY <2>1, FS_EmptySet
    <2>3. running' = Cardinality(Tasks') /\ running' <= MaxConcurrency
      BY <1>1, <2>1, <2>2
    <2>4. QED
      BY <2>3 DEF SlotAccounting, Tasks
  <1>7. CASE Restart \/ Scan \/ GoLive \/ Stop \/ Subscription \/ UNCHANGED vars
    <2>1. agent' = agent /\ running' = running
      BY <1>7 DEF Restart, Scan, GoLive, Stop, Subscription, Connect, Disconnect, DeliverAgain,
                  Deliver, DeliverFault, vars
    <2>2. QED
      BY <1>3, <2>1 DEF Tasks
  <1>8. CASE Environment
    BY <1>3, <1>8, EnvironmentTasks
  <1>9. CASE ControlBegin \/ \E s \in Seqs : RecoverRequest(s)
    BY <1>3, <1>9, OtherThreads
  <1>10. ASSUME NEW s \in Seqs, Thread(s) PROVE SlotAccounting'
    BY <1>3, <1>4, <1>10, ThreadTasks
  <1>11. QED
    BY <1>5, <1>6, <1>7, <1>8, <1>9, <1>10 DEF Next, Life

\* worker.running is the number of Provider tasks and never exceeds
\* max_concurrency: no path through _provider_task loses or frees a slot twice.
THEOREM Slots == Spec => []SlotAccounting
  <1>1. Init => SlotAccounting
    <2> SUFFICES ASSUME Init PROVE SlotAccounting
      OBVIOUS
    <2>1. Tasks = {}
      BY NewAgentTypes DEF Init, Tasks
    <2>2. QED
      BY <2>1, FS_EmptySet, ConstantsAssumption DEF Init, SlotAccounting, Tasks
  <1>2. IInv /\ SlotAccounting /\ [Next]_vars => SlotAccounting'
    BY SlotStep
  <1>3. QED
    BY <1>1, <1>2, Invariance, PTL DEF Spec

-----------------------------------------------------------------------------
(***************************************************************************)
(* The record of a request and its thread.  Body and call are owned by     *)
(* whoever may still use them, and a call that was open when a cancel or   *)
(* stop came is aborted.                                                   *)
(***************************************************************************)

\* Where a Provider task has a call installed.
Calling == {"start", "iterate", "emit", "publish"}

TaskInv(s) ==
    /\ requests[s].phase = "absent" => requests[s].op = "none"
    /\ agent[s].role \in {"provider", "control"} => requests[s].phase = "running"
    /\ requests[s].phase = "running" => agent[s].role \in {"provider", "control"}
    /\ agent[s].role = "recovery" =>
          /\ proc = "scan" /\ cursor > target
          /\ agent[s].pc \in {"emit", "publish", "finally"}
          /\ agent[s].pc = "finally" => stopped
          /\ requests[s].phase = "pending"
    /\ requests[s].terminal <= Seen
    /\ requests[s].terminal # 0 => requests[s].phase = "running"
    /\ requests[s].body =>
          /\ CanOutput(s) /\ proc = "live"
          /\ requests[s].phase = "pending" \/ At(s, "provider", "begin")
    /\ At(s, "provider", "begin") /\ CanOutput(s) => requests[s].body
    /\ agent[s].role = "provider" /\ agent[s].pc \in Calling => requests[s].op # "none"
    /\ stopped => requests[s].op # "open"
    /\ requests[s].terminal # 0 /\ log[requests[s].terminal].kind = "cancel"
          => requests[s].op # "open"
    /\ requests[s].op = "aborted" => ~CanOutput(s)

\* A request that waits for a task has its body until the Worker stops; one that
\* waits for its rejection has none.
QueuedInv ==
    /\ \A i \in 1..Len(pending) :
          requests[pending[i]].phase # "absent" =>
              /\ requests[pending[i]].phase = "pending"
              /\ ~stopped => requests[pending[i]].body
    /\ \A i \in 1..Len(controls) :
          requests[controls[i][1]].phase # "absent" =>
              /\ requests[controls[i][1]].phase = "pending"
              /\ ~requests[controls[i][1]].body

TaskInvs == (\A s \in Seqs : TaskInv(s)) /\ QueuedInv

\* Nothing happens to the request while the log grows or the reader moves on.
LEMMA TaskKeeps ==
    ASSUME IInv, NEW s \in Seqs, TaskInv(s),
           requests'[s] = requests[s],
           agent'[s].pc = agent[s].pc, agent'[s].role = agent[s].role,
           agent'[s].event = agent[s].event,
           stopped' = stopped, proc' = proc,
           proc = "scan" => cursor <= cursor' /\ cursor' \in Nat /\ target' = target,
           Seen <= Seen', Seen' \in Nat,
           \A i \in 1..Len(log) : log'[i] = log[i]
    PROVE  TaskInv(s)'
  <1>1. requests[s] \in RequestState /\ cursor \in Nat /\ target \in Nat /\ Len(log) \in Nat
    BY LenProperties DEF IInv, TypeOK
  <1>2. Seen \in Nat /\ requests[s].terminal \in Nat /\ (requests[s].terminal # 0 => Seen <= Len(log))
    <2>1. Seen <= Len(log)
      BY <1>1 DEF Seen, IInv, ReaderInv, TypeOK
    <2>2. QED
      BY <1>1, <2>1, SeenKnown DEF RequestState
  <1>3. requests[s].terminal # 0 => log'[requests[s].terminal] = log[requests[s].terminal]
    BY <1>1, <1>2 DEF TaskInv
  <1>4. requests[s].terminal <= Seen'
    BY <1>2 DEF TaskInv
  <1>5. QED
    BY <1>1, <1>3, <1>4 DEF TaskInv, CanOutput, At

\* The same while the Worker stops: the body goes and an open call is aborted.
LEMMA TaskStops ==
    ASSUME IInv, NEW s \in Seqs, TaskInv(s),
           requests'[s] = StopAll[s],
           \/ agent'[s] = agent[s]
           \/ agent'[s] = Last(agent[s]) /\ agent[s].pc \in {"emit", "publish"},
           stopped' = TRUE,
           UNCHANGED <<log, proc, cursor, target, lastSeen>>
    PROVE  TaskInv(s)'
  <1>1. requests[s] \in RequestState /\ agent[s] \in Agents
    BY DEF IInv, TypeOK
  <1>2. requests'[s] = [requests[s] EXCEPT !.op = IF @ = "open" THEN "aborted" ELSE @, !.body = FALSE]
    BY <1>1 DEF StopAll, Aborted, RequestState
  <1>3. /\ requests'[s].phase = requests[s].phase /\ requests'[s].terminal = requests[s].terminal
        /\ ~requests'[s].body /\ requests'[s].op # "open"
        /\ requests'[s].op = "none" <=> requests[s].op = "none"
    BY <1>1, <1>2 DEF RequestState
  <1>4. Seen' = Seen
    BY DEF Seen
  <1>5. CASE agent'[s] = agent[s]
    BY <1>3, <1>4, <1>5 DEF TaskInv, CanOutput, At
  <1>6. CASE agent'[s] = Last(agent[s]) /\ agent[s].pc \in {"emit", "publish"}
    <2>1. /\ agent'[s].pc = "finally" /\ agent'[s].role = agent[s].role
          /\ agent'[s].event = NoEvent
      BY <1>1, <1>6 DEF Last, Idle, Agents
    <2>2. QED
      BY <1>3, <1>4, <1>6, <2>1 DEF TaskInv, CanOutput, At, Calling
  <1>7. QED
    BY <1>5, <1>6

\* What a thread does not touch: everybody else's record, unless it stops the
\* Worker.
LEMMA ThreadFrame ==
    ASSUME IInv, NEW s \in Seqs, Thread(s)
    PROVE  /\ agent[s].pc # "idle"
           /\ UNCHANGED <<log, proc, epoch, reader, queues>>
           /\ \A t \in Seqs \ {s} : agent'[t] = agent[t]
           /\ \/ stopped' = stopped /\ \A t \in Seqs \ {s} : requests'[t] = requests[t]
              \/ stopped' = TRUE /\ \A t \in Seqs \ {s} : requests'[t] = StopAll[t]
  <1> USE DEF server, process
  <1>1. agent \in [Seqs -> Agents] /\ requests \in [Seqs -> RequestState]
    BY DEF IInv, TypeOK
  <1>2. CASE TaskBegin(s) \/ TaskInstall(s) \/ TaskStart(s) \/ ProviderCancelled(s)
    BY <1>1, <1>2 DEF TaskBegin, TaskInstall, TaskStart, ProviderCancelled, At, Goto, Finish
  <1>3. CASE ProviderStep(s) \/ Oversize(s)
    BY <1>1, <1>3 DEF ProviderStep, Yield, ProviderFail, Oversize, EmitOrEnd, At
  <1>4. CASE TaskFinally(s) \/ ControlFinally(s)
    BY <1>1, <1>4 DEF TaskFinally, ControlFinally, At
  <1>5. CASE PublishStart(s)
    BY <1>1, <1>5 DEF PublishStart, Goto, Finish
  <1>6. CASE PublishReturn(s)
    BY <1>1, <1>6 DEF PublishReturn
  <1>7. CASE PublishFail(s)
    BY <1>1, <1>7 DEF PublishFail, Finish, Fail
  <1>9. CASE ControlFail(s)
    BY <1>1, <1>9, ControlFailRecords DEF ControlFail
  <1>8. QED
    BY <1>2, <1>3, <1>4, <1>5, <1>6, <1>7, <1>9 DEF Thread, ThreadStep

\* A step of one thread is no concern of the other requests.
LEMMA OtherThread ==
    ASSUME IInv, NEW s \in Seqs, Thread(s), NEW t \in Seqs \ {s}, TaskInv(t)
    PROVE  TaskInv(t)'
  <1>1. /\ UNCHANGED <<log, proc, cursor, target, lastSeen>> /\ agent'[t] = agent[t]
        /\ \/ stopped' = stopped /\ requests'[t] = requests[t]
           \/ stopped' = TRUE /\ requests'[t] = StopAll[t]
    BY ThreadFrame DEF reader
  <1>2. Seen' = Seen /\ Seen \in Nat /\ cursor \in Nat
    BY <1>1, SeenKnown DEF Seen, IInv, TypeOK
  <1>3. CASE stopped' = stopped /\ requests'[t] = requests[t]
    BY <1>1, <1>2, <1>3, TaskKeeps
  <1>4. CASE stopped' = TRUE /\ requests'[t] = StopAll[t]
    BY <1>1, <1>4, TaskStops
  <1>5. QED
    BY <1>1, <1>3, <1>4

\* The task takes the body, installs the call, starts it or is cancelled.
LEMMA CallTaskInv ==
    ASSUME IInv, NEW s \in Seqs, TaskInv(s),
           TaskBegin(s) \/ TaskInstall(s) \/ TaskStart(s) \/ ProviderCancelled(s)
    PROVE  TaskInv(s)'
  <1> USE DEF process, reader
  <1>1. requests[s] \in RequestState /\ agent[s] \in Agents
    BY DEF IInv, TypeOK
  <1>2. /\ UNCHANGED <<log, proc, stopped, cursor, target, lastSeen>> /\ Seen' = Seen
        /\ agent[s].role = "provider"
    BY DEF TaskBegin, TaskInstall, TaskStart, ProviderCancelled, server, At, Seen
  <1>3. agent \in [Seqs -> Agents] /\ requests \in [Seqs -> RequestState]
    BY DEF IInv, TypeOK
  <1>4. ASSUME Finish(s), requests' = requests, ~CanOutput(s) \/ agent[s].pc # "begin"
        PROVE  TaskInv(s)'
    <2>1. /\ agent'[s].pc = "finally" /\ agent'[s].role = agent[s].role
          /\ agent'[s].event = NoEvent
      BY <1>1, <1>3, <1>4 DEF Finish, Last, Idle, Agents
    <2>2. QED
      BY <1>2, <1>4, <2>1 DEF TaskInv, CanOutput, At, Calling
  <1>5. ASSUME NEW pc \in Labels, Goto(s, pc)
        PROVE  /\ agent'[s].pc = pc /\ agent'[s].role = agent[s].role
               /\ agent'[s].event = agent[s].event
    BY <1>1, <1>3, <1>5 DEF Goto, Agents
  <1>6. "install" \in Labels /\ "start" \in Labels /\ "iterate" \in Labels
    BY DEF Labels
  <1>7. CASE TaskBegin(s) /\ CanOutput(s)
    <2>1. agent'[s].pc = "install" /\ agent'[s].role = "provider" /\ agent'[s].event = agent[s].event
      BY <1>2, <1>5, <1>6, <1>7 DEF TaskBegin
    <2>2. /\ requests'[s].phase = requests[s].phase /\ requests'[s].terminal = requests[s].terminal
          /\ requests'[s].op = requests[s].op /\ ~requests'[s].body
      BY <1>1, <1>3, <1>7 DEF TaskBegin, RequestState
    <2>3. QED
      BY <1>2, <2>1, <2>2 DEF TaskInv, CanOutput, At, Calling
  <1>8. CASE TaskInstall(s) /\ CanOutput(s)
    <2>1. agent'[s].pc = "start" /\ agent'[s].role = "provider" /\ agent'[s].event = agent[s].event
      BY <1>2, <1>5, <1>6, <1>8 DEF TaskInstall
    <2>2. /\ requests'[s].phase = requests[s].phase /\ requests'[s].terminal = requests[s].terminal
          /\ requests'[s].op = "open" /\ requests'[s].body = requests[s].body
      BY <1>1, <1>3, <1>8 DEF TaskInstall, RequestState
    <2>4. ~requests[s].body /\ requests[s].phase = "running"
      BY <1>2, <1>8 DEF TaskInv, TaskInstall, At
    <2>3. QED
      BY <1>2, <1>8, <2>1, <2>2, <2>4 DEF TaskInv, CanOutput, At, Calling
  <1>9. CASE TaskStart(s) /\ CanOutput(s)
    <2>1. agent'[s].pc = "iterate" /\ agent'[s].role = "provider" /\ agent'[s].event = agent[s].event
      BY <1>2, <1>5, <1>6, <1>9 DEF TaskStart
    <2>2. requests' = requests /\ agent[s].pc = "start"
      BY <1>9 DEF TaskStart, At
    <2>3. QED
      BY <1>2, <1>9, <2>1, <2>2 DEF TaskInv, CanOutput, At, Calling
  <1>10. QED
    BY <1>4, <1>7, <1>8, <1>9 DEF TaskBegin, TaskInstall, TaskStart, ProviderCancelled, At

\* The Provider call yields, fails, or yields what does not fit.
LEMMA EmitTaskInv ==
    ASSUME IInv, NEW s \in Seqs, TaskInv(s), NEW e, EmitOrEnd(s, e),
           agent[s].role = "provider", agent[s].pc \in {"iterate", "emit"}
    PROVE  TaskInv(s)'
  <1>1. requests[s] \in RequestState /\ agent[s] \in Agents /\ agent \in [Seqs -> Agents]
    BY DEF IInv, TypeOK
  <1>2. UNCHANGED <<log, proc, stopped, cursor, target, lastSeen, requests>> /\ Seen' = Seen
    BY DEF EmitOrEnd, server, process, reader, Seen
  <1>3. CASE CanOutput(s)
    <2>1. /\ agent'[s].pc = "emit" /\ agent'[s].role = "provider" /\ agent'[s].event = e
      BY <1>1, <1>3 DEF EmitOrEnd, Agents
    <2>2. QED
      BY <1>2, <2>1 DEF TaskInv, CanOutput, At, Calling
  <1>4. CASE ~CanOutput(s)
    <2>1. /\ agent'[s].pc = "finally" /\ agent'[s].role = "provider" /\ agent'[s].event = NoEvent
      BY <1>1, <1>4 DEF EmitOrEnd, Last, Idle, Agents
    <2>2. QED
      BY <1>2, <2>1 DEF TaskInv, CanOutput, At, Calling
  <1>5. QED
    BY <1>3, <1>4

\* A step of the Provider keeps body and call of its task.
LEMMA ProviderTaskInv ==
    ASSUME IInv, NEW s \in Seqs, TaskInv(s), ProviderStep(s) \/ Oversize(s)
    PROVE  TaskInv(s)'
  <1>1. agent[s].role = "provider" /\ agent[s].pc \in {"iterate", "emit"}
    BY DEF ProviderStep, Yield, ProviderFail, Oversize, At
  <1>2. QED
    BY <1>1, EmitTaskInv DEF ProviderStep, Yield, ProviderFail, Oversize

\* The publication of an event, and the last block of a thread.
LEMMA PublishTaskInv ==
    ASSUME IInv, NEW s \in Seqs, TaskInv(s), PublishStart(s) \/ PublishReturn(s) \/ PublishFail(s)
    PROVE  TaskInv(s)'
  <1> USE DEF process, reader
  <1>1. /\ requests[s] \in RequestState /\ agent[s] \in Agents
        /\ agent \in [Seqs -> Agents] /\ requests \in [Seqs -> RequestState]
    BY DEF IInv, TypeOK
  <1>2. /\ UNCHANGED <<log, proc, cursor, target, lastSeen>> /\ Seen' = Seen
        /\ agent[s].pc \in {"emit", "publish"} /\ agent[s].role # "none"
    <2>1. /\ UNCHANGED <<log, proc, cursor, target, lastSeen>>
          /\ agent[s].pc \in {"emit", "publish"}
      BY DEF PublishStart, PublishReturn, PublishFail, Fail, server
    <2>2. QED
      BY <2>1 DEF Seen, IInv, ThreadInv
  <1>3. ASSUME agent'[s] = Last(agent[s]), requests'[s] = requests[s], stopped' = stopped,
               agent[s].role = "recovery" => stopped
        PROVE  TaskInv(s)'
    <2>1. /\ agent'[s].pc = "finally" /\ agent'[s].role = agent[s].role
          /\ agent'[s].event = NoEvent
      BY <1>1, <1>3 DEF Last, Idle, Agents
    <2>2. QED
      BY <1>2, <1>3, <2>1 DEF TaskInv, CanOutput, At, Calling
  <1>4. CASE PublishStart(s)
    <2>1. requests' = requests /\ stopped' = stopped
      BY <1>4 DEF PublishStart
    <2>2. CASE CanOutput(s) /\ Goto(s, "publish")
      <3>1. /\ agent'[s].pc = "publish" /\ agent'[s].role = agent[s].role
            /\ agent'[s].event = agent[s].event
        BY <1>1, <2>2 DEF Goto, Agents
      <3>2. QED
        BY <1>2, <1>4, <2>1, <2>2, <3>1 DEF TaskInv, CanOutput, At, Calling, PublishStart
    <2>3. CASE ~CanOutput(s) /\ Finish(s)
      <3>1. agent'[s] = Last(agent[s])
        BY <1>1, <2>3 DEF Finish
      <3>2. agent[s].role = "recovery" => stopped
        BY <2>3 DEF TaskInv, CanOutput
      <3>3. QED
        BY <1>3, <2>1, <3>1, <3>2
    <2>4. QED
      BY <1>4, <2>2, <2>3 DEF PublishStart
  <1>5. CASE PublishReturn(s)
    <2>1. stopped' = stopped /\ agent[s].pc = "publish"
      BY <1>5 DEF PublishReturn
    <2>2. CASE agent[s].role = "recovery"
      <3>1. /\ agent'[s] = Idle /\ requests'[s] = [requests[s] EXCEPT !.phase = "done"]
        BY <1>1, <1>5, <2>2 DEF PublishReturn
      <3>2. /\ agent'[s].pc = "idle" /\ agent'[s].role = "none" /\ agent'[s].event = NoEvent
            /\ requests'[s].phase = "done" /\ requests'[s].terminal = requests[s].terminal
            /\ requests'[s].op = requests[s].op /\ requests'[s].body = requests[s].body
        BY <1>1, <3>1 DEF Idle, RequestState
      <3>3. proc = "scan" /\ requests[s].phase = "pending"
        BY <2>2 DEF TaskInv
      <3>4. ~requests[s].body /\ requests[s].terminal = 0
        BY <3>3 DEF TaskInv
      <3>5. QED
        BY <1>2, <2>1, <3>2, <3>3, <3>4 DEF TaskInv, CanOutput, At, Calling
    <2>3. CASE agent[s].role = "provider" /\ ~Terminal(agent[s].event)
      <3>1. /\ agent'[s] = Acked(agent[s]) /\ requests' = requests
        BY <1>1, <1>5, <2>3 DEF PublishReturn
      <3>2. /\ agent'[s].pc = "iterate" /\ agent'[s].role = "provider" /\ agent'[s].event = NoEvent
        BY <1>1, <3>1 DEF Acked, Task, Idle
      <3>3. QED
        BY <1>2, <2>1, <2>3, <3>1, <3>2 DEF TaskInv, CanOutput, At, Calling
    <2>4. CASE /\ agent[s].role # "recovery"
               /\ ~(agent[s].role = "provider" /\ ~Terminal(agent[s].event))
      <3>1. agent'[s] = Last(agent[s]) /\ requests' = requests
        BY <1>1, <1>5, <2>4 DEF PublishReturn
      <3>2. QED
        BY <1>3, <2>1, <2>4, <3>1
    <2>5. QED
      BY <2>2, <2>3, <2>4
  <1>6. CASE PublishFail(s)
    <2>1. agent'[s] = Last(agent[s])
      BY <1>1, <1>6 DEF PublishFail, Finish
    <2>2. CASE stopped /\ UNCHANGED <<process, requests>>
      BY <1>3, <2>1, <2>2
    <2>3. CASE Fail
      BY <1>2, <2>1, <2>3, TaskStops DEF Fail
    <2>4. QED
      BY <1>6, <2>2, <2>3 DEF PublishFail
  <1>7. QED
    BY <1>4, <1>5, <1>6

\* The last block clears the record, and drops it when the request is decided.
LEMMA FinallyTaskInv ==
    ASSUME IInv, NEW s \in Seqs, TaskInv(s), TaskFinally(s) \/ ControlFinally(s)
    PROVE  TaskInv(s)'
  <1> USE DEF process, reader
  <1>1. /\ requests[s] \in RequestState /\ agent[s] \in Agents
        /\ agent \in [Seqs -> Agents] /\ requests \in [Seqs -> RequestState]
    BY DEF IInv, TypeOK
  <1>2. /\ UNCHANGED <<log, proc, stopped, cursor, target, lastSeen>> /\ Seen' = Seen
        /\ agent[s].role \in {"provider", "control"} /\ agent[s].pc = "finally"
        /\ agent'[s] = Idle
    BY <1>1 DEF TaskFinally, ControlFinally, server, At, Seen
  <1>3. agent'[s].pc = "idle" /\ agent'[s].role = "none" /\ agent'[s].event = NoEvent
    BY <1>2 DEF Idle
  <1>4. requests[s].phase = "running" /\ ~requests[s].body
    BY <1>2 DEF TaskInv, At
  <1>5. ASSUME NEW r \in RequestState, requests'[s] = Retired(r), r.phase = "done",
               r.terminal = requests[s].terminal, ~r.body, r.op \in {"none", requests[s].op}
        PROVE  TaskInv(s)'
    <2>1. CASE r.terminal # 0
      <3>1. requests'[s] = Absent
        BY <1>5, <2>1 DEF Retired
      <3>2. /\ requests'[s].phase = "absent" /\ requests'[s].op = "none"
            /\ ~requests'[s].body /\ requests'[s].terminal = 0
        BY <3>1 DEF Absent
      <3>3. Seen \in Nat
        BY SeenKnown
      <3>4. QED
        BY <1>2, <1>3, <3>2, <3>3 DEF TaskInv, CanOutput, At, Calling
    <2>2. CASE r.terminal = 0
      <3>1. requests'[s] = r
        BY <1>5, <2>2 DEF Retired
      <3>2. QED
        BY <1>2, <1>3, <1>5, <2>2, <3>1 DEF TaskInv, CanOutput, At, Calling
    <2>3. QED
      BY <2>1, <2>2
  <1>6. CASE TaskFinally(s)
    <2> DEFINE r == [requests[s] EXCEPT !.op = "none", !.body = FALSE, !.phase = "done"]
    <2>1. requests'[s] = Retired(r)
      BY <1>1, <1>6 DEF TaskFinally
    <2>2. r \in RequestState
      BY <1>1, FieldTypes
    <2>3. r.phase = "done" /\ r.terminal = requests[s].terminal /\ ~r.body /\ r.op = "none"
      BY <1>1 DEF RequestState
    <2>4. QED
      <3> HIDE DEF r
      <3> QED BY <1>5, <2>1, <2>2, <2>3
  <1>7. CASE ControlFinally(s)
    <2> DEFINE r == [requests[s] EXCEPT !.phase = "done"]
    <2>1. requests'[s] = Retired(r)
      BY <1>1, <1>7 DEF ControlFinally
    <2>2. r \in RequestState
      BY <1>1, FieldTypes
    <2>3. /\ r.phase = "done" /\ r.terminal = requests[s].terminal /\ r.op = requests[s].op
          /\ r.body = requests[s].body
      BY <1>1 DEF RequestState
    <2>4. QED
      <3> HIDE DEF r
      <3> QED BY <1>4, <1>5, <2>1, <2>2, <2>3
  <1>8. QED
    BY <1>6, <1>7

\* The control thread ends with an error: its request is finished like any other,
\* and the Worker stops.
LEMMA ControlFailTaskInv ==
    ASSUME IInv, NEW s \in Seqs, TaskInv(s), ControlFail(s)
    PROVE  TaskInv(s)'
  <1>1. /\ requests[s] \in RequestState /\ StopAll[s] \in RequestState
        /\ requests'[s] = Retired([StopAll[s] EXCEPT !.phase = "done"])
    BY ControlFailRecords DEF IInv, TypeOK
  <1>2. /\ ~StopAll[s].body /\ StopAll[s].op # "open"
    BY <1>1 DEF StopAll, Aborted, RequestState
  <1>3. /\ stopped' = TRUE /\ agent'[s].pc = "idle" /\ agent'[s].role = "none"
    BY DEF ControlFail, Idle, IInv, TypeOK
  <1>4. Seen' = Seen /\ Seen \in Nat
    BY SeenKnown DEF ControlFail, reader, Seen
  <1> DEFINE r == [StopAll[s] EXCEPT !.phase = "done"]
  <1>5. r.phase = "done" /\ ~r.body /\ r.op # "open" /\ requests'[s] = Retired(r)
    BY <1>1, <1>2 DEF RequestState
  <1> HIDE DEF r
  <1>6. CASE r.terminal # 0
    <2>1. requests'[s] = Absent
      BY <1>5, <1>6 DEF Retired
    <2>2. /\ requests'[s].phase = "absent" /\ requests'[s].op = "none"
          /\ ~requests'[s].body /\ requests'[s].terminal = 0
      BY <2>1 DEF Absent
    <2>3. QED
      BY <1>3, <1>4, <2>2 DEF TaskInv, CanOutput, At, Calling
  <1>7. CASE r.terminal = 0
    <2>1. requests'[s] = r
      BY <1>5, <1>7 DEF Retired
    <2>2. QED
      BY <1>3, <1>4, <1>5, <1>7, <2>1 DEF TaskInv, CanOutput, At, Calling
  <1>8. QED
    BY <1>6, <1>7

-----------------------------------------------------------------------------
(* The reader. *)

NewRecord(i, body) ==
    [Absent EXCEPT !.phase = "pending", !.duplicate = log[i].key \in originals, !.body = body]

\* _accept has three outcomes: nothing changes, the record of the request that
\* the message is about moves on, or the request itself gets a record and, after
\* the recovery, its place in one of the queues.
LEMMA AcceptCases ==
    ASSUME IInv, NEW h \in BOOLEAN, NEW i \in 1..Len(log), i = Seen + 1, proc # "down",
           Accept(i, h)
    PROVE  \/ /\ UNCHANGED <<requests, queues>>
              /\ log[i] = System \/ (IsOutput(log[i]) /\ Skipped(log[i]))
           \/ /\ IsOutput(log[i]) /\ Matched(log[i]) /\ ~Skipped(log[i]) /\ ~Faulty(log[i])
              /\ requests' = [requests EXCEPT ![log[i].ref] =
                                 Observed(requests[log[i].ref], log[i], i)]
              /\ UNCHANGED queues
           \/ /\ i \in Seqs /\ Asked(i) /\ ~Tracked(i)
              /\ \E body \in BOOLEAN :
                    /\ requests' = [requests EXCEPT ![i] = NewRecord(i, body)]
                    /\ body => ~h /\ pending' = Append(pending, i) /\ controls' = controls
                    /\ ~body => pending' = pending
                    /\ ~body /\ h => controls' = controls
                    /\ ~body /\ ~h =>
                          \E code \in Codes :
                             /\ controls' = Append(controls, <<i, code>>)
                             /\ log[i].key \in originals => code = Duplicate
                             /\ log[i].key \notin originals => log[i].fit # "ok"
  <1> DEFINE m == log[i]
  <1>1. m \in Messages
    BY ElementOfSeq DEF IInv, TypeOK
  <1>2. CASE m = System /\ UNCHANGED <<requests, queues>>
    BY <1>2
  <1>3. CASE IsOutput(m) /\ Skipped(m) /\ UNCHANGED <<requests, queues>>
    BY <1>3
  <1>4. CASE IsOutput(m) /\ ~Skipped(m) /\ ~Faulty(m)
             /\ requests' = [requests EXCEPT ![m.ref] = Observed(@, m, i)] /\ UNCHANGED queues
    <2>1. Matched(m)
      BY <1>4 DEF Skipped
    <2>2. QED
      BY <1>4, <2>1
  <1>5. CASE IsRequest(m) /\ Track(i, h)
    <2> DEFINE duplicate == m.key \in originals
               code == CASE duplicate -> Duplicate
                         [] ~duplicate /\ m.fit = "large" -> TooLarge
                         [] ~duplicate /\ m.fit = "config" -> BadProvider
                         [] OTHER -> Http
               admitted == ~h /\ code = Http
    <2>1. m \in Requests /\ i \in Seqs /\ Asked(i)
      BY <1>1, <1>5, MessageKinds DEF IInv, RequestsBounded, Asked
    <2>2. ~Tracked(i)
      BY <2>1, SeenKnown DEF IInv, ThreadInv
    <2>3. /\ requests' = [requests EXCEPT ![i] = NewRecord(i, admitted)]
          /\ pending' = IF admitted THEN Append(pending, i) ELSE pending
          /\ controls' = IF ~h /\ code # Http THEN Append(controls, <<i, code>>) ELSE controls
      BY <1>5, <2>2, Zenon DEF Track, NewRecord
    <2>4. /\ code \in Codes
          /\ code # Http => /\ duplicate => code = Duplicate
                            /\ ~duplicate => m.fit # "ok"
      BY <2>1 DEF Codes, ProviderCodes, Http, Duplicate, TooLarge, BadProvider, Requests, Fits
    <2>5. admitted \in BOOLEAN /\ (admitted <=> ~h /\ code = Http)
      OBVIOUS
    <2> HIDE DEF code, admitted
    <2>6. QED
      BY <2>1, <2>2, <2>3, <2>4, <2>5
  <1>6. QED
    BY <1>2, <1>3, <1>4, <1>5 DEF Accept

\* What a message does to the record of the request it is about.
LEMMA ObservedFields ==
    ASSUME NEW r \in RequestState, NEW m, NEW i \in Nat \ {0}
    PROVE  LET q == Observed(r, m, i)
           IN  /\ ~Terminal(m) => /\ q.phase = r.phase /\ q.terminal = r.terminal
                                  /\ q.body = r.body /\ q.op = r.op
                                  /\ q.duplicate = r.duplicate
               /\ Terminal(m) /\ r.phase # "running" => q = Absent
               /\ Terminal(m) /\ r.phase = "running" =>
                     /\ q.phase = "running" /\ q.terminal = i /\ ~q.body
                     /\ q.duplicate = r.duplicate
                     /\ q.op = IF m.kind = "cancel" /\ r.op = "open" THEN "aborted" ELSE r.op
               /\ ~Terminal(m) \/ r.phase = "running" =>
                     q.chain = IF m.kind \in {"result", "append"} THEN i ELSE r.chain
  <1> DEFINE linked == Linked(r, m, i)
             ended == [linked EXCEPT !.terminal = i, !.body = FALSE]
             last == IF m.kind = "cancel" THEN Aborted(ended) ELSE ended
  <1>1. /\ linked \in RequestState /\ linked.phase = r.phase /\ linked.terminal = r.terminal
        /\ linked.body = r.body /\ linked.op = r.op /\ linked.duplicate = r.duplicate
        /\ linked.chain = IF m.kind \in {"result", "append"} THEN i ELSE r.chain
    BY DEF Linked, RequestState
  <1> HIDE DEF linked
  <1>2. /\ ended \in RequestState /\ ended.phase = r.phase /\ ended.terminal = i
        /\ ~ended.body /\ ended.op = r.op /\ ended.duplicate = r.duplicate
        /\ ended.chain = linked.chain
    BY <1>1 DEF RequestState
  <1> HIDE DEF ended
  <1>3. /\ last \in RequestState /\ last.phase = r.phase /\ last.terminal = i
        /\ ~last.body /\ last.duplicate = r.duplicate /\ last.chain = linked.chain
        /\ last.op = IF m.kind = "cancel" /\ r.op = "open" THEN "aborted" ELSE r.op
    <2>1. CASE m.kind # "cancel"
      <3>1. last = ended
        BY <2>1
      <3>2. QED
        <4> HIDE DEF last
        <4> QED BY <1>2, <2>1, <3>1
    <2>2. CASE m.kind = "cancel"
      <3>1. last = [ended EXCEPT !.op = IF ended.op = "open" THEN "aborted" ELSE ended.op]
        BY <1>2, <2>2 DEF Aborted, RequestState
      <3>2. QED
        <4> HIDE DEF last
        <4> QED BY <1>2, <2>2, <3>1 DEF RequestState, Operations
    <2>3. QED
      BY <2>1, <2>2
  <1>4. Observed(r, m, i) = IF ~Terminal(m) THEN linked ELSE Retired(last)
    BY DEF Observed, linked, ended
  <1> HIDE DEF last
  <1>5. Retired(last) = IF r.phase # "running" THEN Absent ELSE last
    BY <1>3 DEF Retired
  <1>6. QED
    BY <1>1, <1>3, <1>4, <1>5

\* The queues are as before, and the record of nobody who waits changes, except
\* that it may be dropped, or lose its body when the Worker stops.
LEMMA QueuedKeeps ==
    ASSUME IInv, QueuedInv, pending' = pending, controls' = controls, stopped => stopped',
           \A q \in Seqs : agent[q].pc = "idle" =>
              \/ requests'[q].phase = "absent"
              \/ /\ requests'[q].phase = requests[q].phase
                 /\ \/ requests'[q].body = requests[q].body
                    \/ stopped' /\ ~requests'[q].body
    PROVE  QueuedInv'
  <1>1. /\ \A i \in 1..Len(pending) : pending[i] \in Seqs /\ agent[pending[i]].pc = "idle"
        /\ \A i \in 1..Len(controls) :
              controls[i][1] \in Seqs /\ agent[controls[i][1]].pc = "idle"
    BY QueueTypes DEF IInv, QueueInv
  <1>2. ASSUME NEW i \in 1..Len(pending), requests'[pending[i]].phase # "absent"
        PROVE  /\ requests'[pending[i]].phase = "pending"
               /\ ~stopped' => requests'[pending[i]].body
    BY <1>1, <1>2 DEF QueuedInv
  <1>3. ASSUME NEW i \in 1..Len(controls), requests'[controls[i][1]].phase # "absent"
        PROVE  /\ requests'[controls[i][1]].phase = "pending"
               /\ ~requests'[controls[i][1]].body
    BY <1>1, <1>3 DEF QueuedInv
  <1>4. QED
    BY <1>2, <1>3 DEF QueuedInv

\* A new record is that of a request nobody works for.
LEMMA NewRecordFields ==
    ASSUME NEW i, NEW body \in BOOLEAN
    PROVE  LET r == NewRecord(i, body)
           IN  /\ r.phase = "pending" /\ r.chain = 0 /\ r.terminal = 0 /\ r.op = "none"
               /\ r.body = body
               /\ r.duplicate <=> log[i].key \in originals
  BY DEF NewRecord, Absent

\* Reading a message keeps the records and aborts what it decides.
LEMMA AcceptTaskInv ==
    ASSUME IInv, NEW h \in BOOLEAN, NEW i \in 1..Len(log), i = Seen + 1, proc # "down",
           Accept(i, h), TaskInvs, ~stopped, proc = "scan" => h,
           proc = "scan" => cursor <= target /\ cursor' = cursor + 1 /\ target' = target,
           UNCHANGED <<log, process, agent>>, Seen' = i, IInv'
    PROVE  TaskInvs'
  <1> USE DEF process, queues
  <1>1. /\ requests \in [Seqs -> RequestState] /\ agent \in [Seqs -> Agents]
        /\ i \in Nat \ {0} /\ Seen \in Nat /\ cursor \in Nat /\ target \in Nat
    <2>1. Len(log) \in Nat
      BY LenProperties DEF IInv, TypeOK
    <2>2. i \in Nat \ {0}
      BY <2>1
    <2>3. QED
      BY <2>2, SeenKnown DEF IInv, TypeOK
  <1>2. ASSUME NEW s \in Seqs, requests'[s] = requests[s] PROVE TaskInv(s)'
    BY <1>1, <1>2, TaskKeeps DEF TaskInvs
  <1>3. CASE UNCHANGED <<requests, queues>>
    <2>1. QueuedInv'
      BY <1>3, QueuedKeeps DEF TaskInvs
    <2>2. QED
      BY <1>2, <1>3, <2>1 DEF TaskInvs
  <1>4. ASSUME NEW s \in Seqs, s = log[i].ref, Matched(log[i]), UNCHANGED queues,
               requests' = [requests EXCEPT ![s] = Observed(requests[s], log[i], i)]
        PROVE  TaskInvs'
    <2>1. requests[s].terminal = 0 /\ requests[s] \in RequestState /\ TaskInv(s)
      BY <1>1, <1>4 DEF Matched, TaskInvs
    <2>2. /\ requests'[s] = Observed(requests[s], log[i], i)
          /\ \A t \in Seqs \ {s} : requests'[t] = requests[t]
      BY <1>1, <1>4, <2>1
    <2>3. /\ ~Terminal(log[i]) =>
                /\ requests'[s].phase = requests[s].phase
                /\ requests'[s].terminal = requests[s].terminal
                /\ requests'[s].body = requests[s].body /\ requests'[s].op = requests[s].op
          /\ Terminal(log[i]) /\ requests[s].phase # "running" => requests'[s] = Absent
          /\ Terminal(log[i]) /\ requests[s].phase = "running" =>
                /\ requests'[s].phase = "running" /\ requests'[s].terminal = i
                /\ ~requests'[s].body
                /\ requests'[s].op = IF log[i].kind = "cancel" /\ requests[s].op = "open"
                                     THEN "aborted" ELSE requests[s].op
      BY <1>1, <2>1, <2>2, ObservedFields
    <2>4. agent[s].role # "recovery"
      BY <1>1, <2>1 DEF TaskInv
    <2>5. agent'[s] = agent[s] /\ stopped' = stopped /\ proc' = proc /\ log' = log
      OBVIOUS
    <2>6. TaskInv(s)'
      <3>1. CASE ~Terminal(log[i])
        <4>1. requests'[s].terminal = 0
          BY <2>1, <2>3, <3>1
        <4>2. QED
          BY <1>1, <2>1, <2>3, <2>4, <2>5, <3>1, <4>1 DEF TaskInv, CanOutput, At
      <3>2. CASE Terminal(log[i]) /\ requests[s].phase # "running"
        <4>1. /\ requests'[s].phase = "absent" /\ requests'[s].op = "none"
              /\ ~requests'[s].body /\ requests'[s].terminal = 0
          BY <2>3, <3>2 DEF Absent
        <4>2. agent[s].role \notin {"provider", "control", "recovery"}
          BY <2>1, <2>4, <3>2 DEF TaskInv
        <4>3. QED
          BY <1>1, <2>1, <2>5, <4>1, <4>2 DEF TaskInv, CanOutput, At
      <3>3. CASE Terminal(log[i]) /\ requests[s].phase = "running"
        <4>1. ~stopped' /\ requests'[s].terminal # 0
          BY <1>1, <2>3, <2>5, <3>3
        <4>2. agent[s].role \in {"provider", "control"}
          BY <2>1, <3>3 DEF TaskInv
        <4>3. log'[requests'[s].terminal].kind = "cancel" => requests'[s].op # "open"
          BY <2>3, <2>5, <3>3
        <4>4. agent[s].role = "provider" /\ agent[s].pc \in Calling => requests'[s].op # "none"
          BY <2>1, <2>3, <3>3 DEF TaskInv
        <4>5. requests'[s].terminal <= Seen'
          BY <1>1, <2>3, <3>3
        <4>6. QED
          BY <2>1, <2>3, <2>5, <3>3, <4>1, <4>2, <4>3, <4>4, <4>5 DEF TaskInv, CanOutput, At
      <3>4. QED
        BY <3>1, <3>2, <3>3
    <2>7. QueuedInv'
      <3>1. agent[s].pc = "idle" => requests[s].phase # "running"
        BY <2>1, <2>5 DEF TaskInv, IInv, ThreadInv
      <3>2. ASSUME NEW q \in Seqs, agent[q].pc = "idle"
            PROVE  \/ requests'[q].phase = "absent"
                   \/ requests'[q].phase = requests[q].phase /\ requests'[q].body = requests[q].body
        BY <2>2, <2>3, <2>5, <3>1, <3>2 DEF Absent
      <3>3. QED
        BY <1>4, <3>2, QueuedKeeps DEF TaskInvs
    <2>8. ASSUME NEW t \in Seqs PROVE TaskInv(t)'
      BY <1>2, <2>2, <2>6
    <2>9. QED
      BY <2>7, <2>8 DEF TaskInvs
  <1>5. ASSUME i \in Seqs, ~Tracked(i), NEW body \in BOOLEAN,
               requests' = [requests EXCEPT ![i] = NewRecord(i, body)],
               body => ~h /\ pending' = Append(pending, i) /\ controls' = controls,
               ~body => pending' = pending,
               ~body /\ h => controls' = controls,
               ~body /\ ~h => \E code \in Codes : controls' = Append(controls, <<i, code>>)
        PROVE  TaskInvs'
    <2>1. requests'[i] = NewRecord(i, body) /\ \A t \in Seqs \ {i} : requests'[t] = requests[t]
      BY <1>1, <1>5
    <2>2. /\ requests'[i].phase = "pending" /\ requests'[i].terminal = 0
          /\ requests'[i].op = "none" /\ requests'[i].body = body
      BY <1>1, <1>5, <2>1, NewRecordFields
    <2>3. agent[i].pc = "idle" /\ agent[i].role = "none"
      BY <1>1, <1>5 DEF IInv, ThreadInv
    <2>4. proc' \in {"scan", "live"} /\ (body => proc' = "live")
      BY <1>5 DEF IInv, TypeOK
    <2>5. TaskInv(i)'
      BY <1>1, <1>5, <2>2, <2>3, <2>4 DEF TaskInv, TaskInvs, CanOutput, At
    <2>6. /\ \A j \in 1..Len(pending) : pending[j] \in Seqs
          /\ \A j \in 1..Len(controls) : controls[j][1] \in Seqs
          /\ pending \in Seq(Seqs) /\ controls \in Seq(Seqs \X Codes)
          /\ Len(pending) \in Nat /\ Len(controls) \in Nat
      BY QueueTypes, LenProperties DEF IInv, TypeOK
    <2>7. ASSUME NEW q \in Seqs
          PROVE  \/ q = i
                 \/ requests'[q].phase = requests[q].phase /\ requests'[q].body = requests[q].body
      BY <2>1
    <2>8. \A j \in 1..Len(pending') :
             \/ j \in 1..Len(pending) /\ pending'[j] = pending[j]
             \/ body /\ pending'[j] = i
      <3>1. CASE body
        BY <1>5, <2>6, <3>1, AppendProperties
      <3>2. CASE ~body
        BY <1>5, <3>2
      <3>3. QED
        BY <3>1, <3>2
    <2>9. \A j \in 1..Len(controls') :
             \/ j \in 1..Len(controls) /\ controls'[j] = controls[j]
             \/ ~body /\ controls'[j][1] = i
      <3>1. CASE controls' = controls
        BY <3>1
      <3>2. ASSUME NEW code \in Codes, ~body, controls' = Append(controls, <<i, code>>)
            PROVE  \A j \in 1..Len(controls') :
                      \/ j \in 1..Len(controls) /\ controls'[j] = controls[j]
                      \/ ~body /\ controls'[j][1] = i
        <4>1. <<i, code>> \in Seqs \X Codes
          BY <1>5
        <4>2. QED
          BY <2>6, <3>2, <4>1, AppendProperties
      <3>3. QED
        BY <1>5, <3>1, <3>2
    <2>11. /\ \A j \in 1..Len(pending) : pending[j] <= lastSeen
           /\ \A j \in 1..Len(controls) : controls[j][1] <= lastSeen
           /\ proc = "live" => i = lastSeen + 1
           /\ proc = "scan" => pending = <<>> /\ controls = <<>>
      BY <1>1 DEF IInv, QueueInv, ReaderInv, Seen
    <2>12. /\ \A j \in 1..Len(pending) : pending[j] # i
           /\ \A j \in 1..Len(controls) : controls[j][1] # i
      <3>1. lastSeen \in Nat
        BY DEF IInv, TypeOK
      <3>2. QED
        BY <2>4, <2>6, <2>11, <3>1 DEF Seqs
    <2>10. QueuedInv'
      <3>1. ASSUME NEW j \in 1..Len(pending'), requests'[pending'[j]].phase # "absent"
            PROVE  /\ requests'[pending'[j]].phase = "pending"
                   /\ ~stopped' => requests'[pending'[j]].body
        <4>1. CASE j \in 1..Len(pending) /\ pending'[j] = pending[j]
          BY <2>6, <2>7, <2>12, <3>1, <4>1 DEF QueuedInv, TaskInvs
        <4>2. CASE body /\ pending'[j] = i
          BY <2>2, <4>2
        <4>3. QED
          BY <2>8, <4>1, <4>2
      <3>2. ASSUME NEW j \in 1..Len(controls'), requests'[controls'[j][1]].phase # "absent"
            PROVE  requests'[controls'[j][1]].phase = "pending" /\ ~requests'[controls'[j][1]].body
        <4>1. CASE j \in 1..Len(controls) /\ controls'[j] = controls[j]
          BY <2>6, <2>7, <2>12, <3>2, <4>1 DEF QueuedInv, TaskInvs
        <4>2. CASE ~body /\ controls'[j][1] = i
          BY <2>2, <4>2
        <4>3. QED
          BY <2>9, <4>1, <4>2
      <3>3. QED
        BY <3>1, <3>2 DEF QueuedInv
    <2>13. QED
      BY <1>2, <2>1, <2>5, <2>10 DEF TaskInvs
  <1>6. ASSUME Matched(log[i]), UNCHANGED queues,
               requests' = [requests EXCEPT ![log[i].ref] =
                               Observed(requests[log[i].ref], log[i], i)]
        PROVE  TaskInvs'
    BY <1>4, <1>6 DEF Matched
  <1>7. QED
    BY <1>3, <1>5, <1>6, AcceptCases

\* The log grows, or the subscription stream opens, closes or repeats itself.
LEMMA StillTaskInv ==
    ASSUME IInv, TaskInvs, UNCHANGED <<requests, pending, controls, proc, stopped>>,
           \A s \in Seqs : /\ agent'[s].pc = agent[s].pc /\ agent'[s].role = agent[s].role
                          /\ agent'[s].event = agent[s].event,
           proc = "scan" => cursor' = cursor /\ target' = target,
           Seen' = Seen,
           \A i \in 1..Len(log) : log'[i] = log[i]
    PROVE  TaskInvs'
  <1>1. cursor \in Nat /\ Seen \in Nat /\ agent \in [Seqs -> Agents]
    BY SeenKnown DEF IInv, TypeOK
  <1>2. \A s \in Seqs : TaskInv(s)'
    BY <1>1, TaskKeeps DEF TaskInvs
  <1>3. QueuedInv'
    BY DEF TaskInvs, QueuedInv
  <1>4. QED
    BY <1>2, <1>3 DEF TaskInvs

\* Other members and the server touch no record and no event of a thread.
LEMMA EnvironmentFrame ==
    ASSUME IInv, Environment
    PROVE  /\ UNCHANGED <<process, reader, requests, queues, running, invoked, faults>>
           /\ \A s \in Seqs : /\ agent'[s].pc = agent[s].pc /\ agent'[s].role = agent[s].role
                             /\ agent'[s].event = agent[s].event
           /\ \A i \in 1..Len(log) : log'[i] = log[i]
  <1>1. log \in Seq(Messages) /\ agent \in [Seqs -> Agents]
    BY DEF IInv, TypeOK
  <1>2. ASSUME NEW m, Write(m), m \in Messages
        PROVE  /\ UNCHANGED <<process, reader, worker, invoked, faults>>
               /\ \A i \in 1..Len(log) : log'[i] = log[i]
    BY <1>1, <1>2, LogAppend DEF Write
  <1>3. CASE \E k \in Keys, kind \in RequestKinds : PublishRequest(k, kind[1], kind[2])
    <2>1. PICK k \in Keys, kind \in RequestKinds : PublishRequest(k, kind[1], kind[2])
      BY <1>3
    <2>2. kind \in BOOLEAN \X Fits
      BY ConstantsAssumption
    <2>3. Request(k, kind[1], kind[2]) \in Messages
      BY <2>2 DEF Request, Messages, Requests
    <2>4. QED
      BY <1>2, <2>1, <2>3 DEF PublishRequest, worker, queues
  <1>4. CASE \E k \in Keys, s \in Seqs : PublishCancel(k, s)
    <2>1. PICK k \in Keys, s \in Seqs : PublishCancel(k, s)
      BY <1>4
    <2>2. Cancel(k, s) \in Messages
      BY DEF Cancel, Messages, Cancels, Seqs
    <2>3. QED
      BY <1>2, <2>1, <2>2 DEF PublishCancel, worker, queues
  <1>5. CASE \E n \in Noise : PublishNoise(n)
    <2>1. PICK n \in Noise : PublishNoise(n)
      BY <1>5
    <2>2. System \in Messages /\ Invalid \in Messages
      BY DEF Messages
    <2>3. ASSUME NEW s \in Seqs, s <= Len(log), IsRequest(log[s])
          PROVE  Foreign(s) \in Messages /\ ForeignOutcome(s) \in Messages
      <3>1. Len(log) \in Nat /\ s \in 1..Len(log)
        BY <1>1, <2>3, LenProperties DEF Seqs
      <3>2. log[s] \in Requests /\ s \in Nat
        BY <1>1, <2>3, <3>1, ElementOfSeq, MessageKinds
      <3>3. QED
        BY <3>2, OutputTypes DEF Foreign, ForeignOutcome
    <2>4. QED
      BY <1>2, <2>1, <2>2, <2>3 DEF PublishNoise, worker, queues
  <1>6. ASSUME NEW p \in inflight, Commit(p)
        PROVE  /\ UNCHANGED <<process, reader, requests, queues, running, invoked, faults>>
               /\ \A s \in Seqs : /\ agent'[s].pc = agent[s].pc /\ agent'[s].role = agent[s].role
                                 /\ agent'[s].event = agent[s].event
               /\ \A i \in 1..Len(log) : log'[i] = log[i]
    <2>1. p.event \in Messages
      BY DEF IInv, TypeOK, Publications, Messages
    <2>2. \A i \in 1..Len(log) : log'[i] = log[i]
      BY <1>1, <1>6, <2>1, LogAppend DEF Commit
    <2>3. \A s \in Seqs : /\ agent'[s].pc = agent[s].pc /\ agent'[s].role = agent[s].role
                          /\ agent'[s].event = agent[s].event
      BY <1>1, <1>6 DEF Commit, Agents
    <2>4. QED
      BY <1>6, <2>2, <2>3 DEF Commit
  <1>7. QED
    BY <1>3, <1>4, <1>5, <1>6 DEF Environment

\* stop() and _fail(), whoever calls them outside a publication.
LEMMA StopTaskInv ==
    ASSUME IInv, TaskInvs, Fail, UNCHANGED <<log, reader, queues, agent>>
    PROVE  TaskInvs'
  <1> USE DEF reader, queues
  <1>1. requests' = StopAll /\ stopped' = TRUE /\ proc' = proc
    BY DEF Fail
  <1>2. ASSUME NEW s \in Seqs PROVE TaskInv(s)'
    BY <1>1, TaskStops DEF TaskInvs
  <1>3. ASSUME NEW s \in Seqs
        PROVE  requests'[s].phase = requests[s].phase /\ ~requests'[s].body
    <2>1. requests[s] \in RequestState
      BY DEF IInv, TypeOK
    <2>2. Aborted(requests[s]) \in RequestState /\ Aborted(requests[s]).phase = requests[s].phase
      BY <2>1, RecordTypes
    <2>3. QED
      BY <1>1, <2>2 DEF StopAll, RequestState
  <1>4. QueuedInv'
    BY <1>1, <1>3, QueuedKeeps DEF TaskInvs
  <1>5. QED
    BY <1>2, <1>4 DEF TaskInvs

\* A process that is gone has no records.
LEMMA ResetTaskInv ==
    ASSUME IInv, TaskInvs, Crash \/ Exit
    PROVE  TaskInvs'
  <1>1. Reset /\ proc' = "down" /\ stopped' = FALSE /\ Seen' = 0
    BY DEF Crash, Exit, Seen
  <1>2. ASSUME NEW s \in Seqs PROVE TaskInv(s)'
    <2>1. /\ agent'[s].pc = "idle" /\ agent'[s].role = "none" /\ agent'[s].event = NoEvent
      BY <1>1 DEF Reset, Idle
    <2>2. /\ requests'[s].phase = "absent" /\ requests'[s].op = "none"
          /\ requests'[s].terminal = 0 /\ ~requests'[s].body
      BY <1>1 DEF Reset, Absent
    <2>3. QED
      BY <1>1, <2>1, <2>2 DEF TaskInv, CanOutput, At, Calling
  <1>3. QueuedInv'
    BY <1>1, EmptySeq DEF Reset, QueuedInv
  <1>4. QED
    BY <1>2, <1>3 DEF TaskInvs

\* A process that starts has no records.
LEMMA RestartTaskInv ==
    ASSUME IInv, TaskInvs, Restart
    PROVE  TaskInvs'
  <1>1. /\ proc = "down" /\ proc' = "scan" /\ stopped' = FALSE /\ cursor' = 1
        /\ Seen = 0 /\ Seen' = 0 /\ UNCHANGED <<requests, agent, pending, controls>>
    BY DEF Restart, Seen, worker, queues
  <1>2. ASSUME NEW s \in Seqs PROVE TaskInv(s)'
    <2>1. agent[s].role = "none" /\ requests[s].phase = "absent" /\ TaskInv(s)
      BY <1>1, DownIsEmpty DEF IInv, ThreadInv, Tracked, TaskInvs
    <2>2. requests[s].op = "none" /\ requests[s].terminal = 0 /\ ~requests[s].body
      BY <1>1, <2>1 DEF TaskInv
    <2>3. QED
      BY <1>1, <2>1, <2>2 DEF TaskInv, CanOutput, At
  <1>3. QueuedInv'
    BY <1>1, EmptySeq DEF IInv, ReaderInv, QueuedInv
  <1>4. QED
    BY <1>2, <1>3 DEF TaskInvs

\* recover() returns only after the last thread it uses has gone.
LEMMA NoRecoveryLeft ==
    ASSUME TaskInvs, ~stopped, Unresolved = {}, NEW s \in Seqs
    PROVE  agent[s].role # "recovery"
  <1>1. TaskInv(s) /\ s \notin Unresolved
    BY DEF TaskInvs
  <1>2. QED
    BY <1>1 DEF TaskInv, Unresolved

\* Going live changes no record.
LEMMA GoLiveTaskInv ==
    ASSUME IInv, TaskInvs, GoLive
    PROVE  TaskInvs'
  <1>1. /\ proc = "scan" /\ proc' = "live" /\ ~stopped /\ cursor > target /\ Unresolved = {}
        /\ lastSeen' = target /\ UNCHANGED <<log, stopped, requests, agent, pending, controls>>
    BY DEF GoLive, worker, queues, server
  <1>2. Seen' = Seen
    BY <1>1 DEF Seen, IInv, ReaderInv, TypeOK
  <1>3. ASSUME NEW s \in Seqs PROVE TaskInv(s)'
    <2>1. TaskInv(s) /\ agent[s].role # "recovery"
      BY <1>1, NoRecoveryLeft DEF TaskInvs
    <2>2. QED
      BY <1>1, <1>2, <2>1 DEF TaskInv, CanOutput, At
  <1>4. QueuedInv'
    BY <1>1, EmptySeq DEF IInv, ReaderInv, QueuedInv
  <1>5. QED
    BY <1>3, <1>4 DEF TaskInvs

\* A request that recovery closes has neither body nor call.
LEMMA RecoverTaskInv ==
    ASSUME IInv, TaskInvs, NEW s \in Seqs, RecoverRequest(s)
    PROVE  TaskInvs'
  <1> DEFINE e == ErrorEvent(s, Interrupted, TRUE, FALSE)
  <1>1. /\ proc = "scan" /\ ~stopped /\ cursor > target /\ s \in Unresolved /\ agent[s] = Idle
        /\ agent' = [agent EXCEPT ![s] = Emitting("recovery", e)]
        /\ UNCHANGED <<log, proc, stopped, cursor, target, lastSeen, requests, pending, controls>>
    BY DEF RecoverRequest, server, process, reader, queues
  <1>2. agent \in [Seqs -> Agents] /\ Seen' = Seen /\ Seen \in Nat /\ cursor \in Nat
    BY <1>1, SeenKnown DEF IInv, TypeOK, Seen
  <1>3. ASSUME NEW t \in Seqs \ {s} PROVE TaskInv(t)'
    <2>1. agent'[t] = agent[t] /\ TaskInv(t)
      BY <1>1, <1>2 DEF TaskInvs
    <2>2. /\ UNCHANGED <<log, proc, stopped, cursor, target, requests>>
          /\ cursor <= cursor' /\ Seen <= Seen'
      BY <1>1, <1>2
    <2>3. QED
      <3> HIDE DEF e
      <3> QED BY <1>2, <2>1, <2>2, TaskKeeps
  <1>4. TaskInv(s)'
    <2>2. /\ agent'[s].pc = "emit" /\ agent'[s].role = "recovery" /\ agent'[s].event = e
      <3>1. agent'[s] = Emitting("recovery", e)
        BY <1>1, <1>2
      <3>2. QED
        <4> HIDE DEF e
        <4> QED BY <3>1 DEF Emitting, Idle
    <2>3. TaskInv(s) /\ agent[s].role = "none" /\ requests[s].phase = "pending"
      BY <1>1 DEF TaskInvs, Unresolved, Idle
    <2>4. ~requests[s].body /\ requests[s].terminal = 0
      BY <1>1, <2>3 DEF TaskInv
    <2>5. QED
      <3> HIDE DEF e
      <3> QED BY <1>1, <1>2, <2>2, <2>3, <2>4 DEF TaskInv, CanOutput, At
  <1>5. QueuedInv'
    BY <1>1, EmptySeq DEF IInv, ReaderInv, QueuedInv
  <1>6. QED
    BY <1>3, <1>4, <1>5 DEF TaskInvs

\* The head of a queue is taken, and only its record and thread change.
LEMMA TakenTaskInv ==
    ASSUME IInv, TaskInvs, NEW s \in Seqs, TaskInv(s)',
           \A t \in Seqs \ {s} : requests'[t] = requests[t] /\ agent'[t] = agent[t],
           UNCHANGED <<log, proc, stopped, cursor, target, lastSeen>>,
           \A i \in 1..Len(pending') :
              /\ i + 1 \in 1..Len(pending) /\ pending'[i] = pending[i + 1]
              /\ pending'[i] \in Seqs \ {s},
           controls' = controls,
           \A i \in 1..Len(controls) : controls[i][1] \in Seqs \ {s}
    PROVE  TaskInvs'
  <1>1. cursor \in Nat /\ Seen' = Seen /\ Seen \in Nat
    BY SeenKnown DEF IInv, TypeOK, Seen
  <1>2. ASSUME NEW t \in Seqs \ {s} PROVE TaskInv(t)'
    BY <1>1, TaskKeeps DEF TaskInvs
  <1>3. QueuedInv'
    <2>1. ASSUME NEW i \in 1..Len(pending'), requests'[pending'[i]].phase # "absent"
          PROVE  /\ requests'[pending'[i]].phase = "pending"
                 /\ ~stopped' => requests'[pending'[i]].body
      BY <2>1 DEF TaskInvs, QueuedInv
    <2>2. ASSUME NEW i \in 1..Len(controls'), requests'[controls'[i][1]].phase # "absent"
          PROVE  requests'[controls'[i][1]].phase = "pending" /\ ~requests'[controls'[i][1]].body
      BY <2>2 DEF TaskInvs, QueuedInv
    <2>3. QED
      BY <2>1, <2>2 DEF QueuedInv
  <1>4. QED
    BY <1>2, <1>3 DEF TaskInvs

\* The scheduler gives a task to a request that still has its body, or to none.
LEMMA ScheduleTaskInv ==
    ASSUME IInv, TaskInvs, NEW s \in Seqs, s = Head(pending), Schedule
    PROVE  TaskInvs'
  <1>1. /\ pending \in Seq(Seqs) /\ pending # <<>> /\ pending' = Tail(pending)
        /\ controls' = controls /\ proc = "live" /\ ~stopped
        /\ requests \in [Seqs -> RequestState] /\ agent \in [Seqs -> Agents]
        /\ UNCHANGED <<log, proc, stopped, cursor, target, lastSeen>>
    BY DEF Schedule, IInv, TypeOK, server, process, reader
  <1>2. /\ s = pending[1] /\ 1 \in 1..Len(pending)
        /\ \A i \in 1..Len(pending') :
              /\ i + 1 \in 1..Len(pending) /\ i + 1 # 1 /\ pending'[i] = pending[i + 1]
              /\ pending'[i] \in Seqs
    BY <1>1, TakeHead
  <1>3. agent[s].pc = "idle" /\ TaskInv(s)
    BY <1>2 DEF IInv, QueueInv, TaskInvs
  <1>4. \A i \in 1..Len(pending') : pending'[i] # s
    BY <1>2 DEF IInv, QueueInv
  <1>5. \A i \in 1..Len(controls) : controls[i][1] \in Seqs \ {s}
    BY <1>2, QueueTypes DEF IInv, QueueInv
  <1>6. Seen' = Seen
    BY <1>1 DEF Seen
  <1>7. /\ \A t \in Seqs \ {s} : requests'[t] = requests[t] /\ agent'[t] = agent[t]
        /\ TaskInv(s)'
    <2>1. CASE ~Tracked(s)
      <3>1. requests' = requests /\ agent' = agent
        BY <2>1 DEF Schedule
      <3>2. QED
        BY <1>1, <1>3, <1>6, <3>1 DEF TaskInv, CanOutput, At
    <2>2. CASE Tracked(s)
      <3>1. /\ requests' = [requests EXCEPT ![s] = [requests[s] EXCEPT !.phase = "running"]]
            /\ agent' = [agent EXCEPT ![s] = Task]
        BY <2>2 DEF Schedule
      <3>2. \A t \in Seqs \ {s} : requests'[t] = requests[t] /\ agent'[t] = agent[t]
        BY <1>1, <3>1
      <3>3. requests[s].phase = "pending" /\ requests[s].body
        BY <1>1, <1>2, <2>2 DEF TaskInvs, QueuedInv, Tracked
      <3>4. agent'[s].pc = "begin" /\ agent'[s].role = "provider" /\ agent'[s].event = NoEvent
        BY <1>1, <3>1 DEF Task, Idle
      <3>5. /\ requests'[s].phase = "running" /\ requests'[s].body /\ requests'[s].op = requests[s].op
            /\ requests'[s].terminal = requests[s].terminal
        BY <1>1, <3>1, <3>3 DEF RequestState
      <3>6. TaskInv(s)'
        BY <1>1, <1>3, <1>6, <3>3, <3>4, <3>5 DEF TaskInv, CanOutput, At, Calling
      <3>7. QED
        BY <3>2, <3>6
    <2>3. QED
      BY <2>1, <2>2
  <1>8. QED
    BY <1>1, <1>2, <1>4, <1>5, <1>7, TakenTaskInv

\* A rejection needs no body.
LEMMA ControlTaskInv ==
    ASSUME IInv, TaskInvs, NEW s \in Seqs, NEW code \in Codes, Head(controls) = <<s, code>>,
           ControlBegin
    PROVE  TaskInvs'
  <1> DEFINE e == ErrorEvent(s, code, FALSE, TRUE)
  <1>1. /\ controls \in Seq(Seqs \X Codes) /\ controls # <<>> /\ controls' = Tail(controls)
        /\ pending' = pending /\ proc = "live" /\ ~stopped
        /\ requests \in [Seqs -> RequestState] /\ agent \in [Seqs -> Agents]
        /\ UNCHANGED <<log, proc, stopped, cursor, target, lastSeen>>
    BY DEF ControlBegin, IInv, TypeOK, server, process, reader
  <1>2. /\ controls[1] = <<s, code>> /\ 1 \in 1..Len(controls)
        /\ \A i \in 1..Len(controls') :
              /\ i + 1 \in 1..Len(controls) /\ i + 1 # 1 /\ controls'[i] = controls[i + 1]
              /\ controls'[i] \in Seqs \X Codes
    BY <1>1, TakeHead
  <1>3. agent[s].pc = "idle" /\ TaskInv(s) /\ agent[s].role = "none"
    BY <1>2 DEF IInv, QueueInv, ThreadInv, TaskInvs
  <1>4. \A i \in 1..Len(controls') : controls'[i][1] # s
    BY <1>2 DEF IInv, QueueInv
  <1>5. \A i \in 1..Len(pending) : pending[i] \in Seqs \ {s}
    BY <1>2, QueueTypes DEF IInv, QueueInv
  <1>6. Seen' = Seen /\ Seen \in Nat /\ cursor \in Nat
    BY <1>1, SeenKnown DEF Seen, IInv, TypeOK
  <1>11. Head(controls)[1] = s /\ Head(controls)[2] = code
    OBVIOUS
  <1>7. /\ \A t \in Seqs \ {s} : requests'[t] = requests[t] /\ agent'[t] = agent[t]
        /\ TaskInv(s)'
    <2>1. CASE ~Tracked(s)
      <3>1. requests' = requests /\ agent' = agent
        BY <1>11, <2>1 DEF ControlBegin
      <3>2. QED
        BY <1>1, <1>3, <1>6, <3>1 DEF TaskInv, CanOutput, At
    <2>2. CASE Tracked(s)
      <3>1. /\ requests' = [requests EXCEPT ![s] = [requests[s] EXCEPT !.phase = "running"]]
            /\ agent' = [agent EXCEPT ![s] = Emitting("control", e)]
        BY <1>11, <2>2 DEF ControlBegin
      <3>2. \A t \in Seqs \ {s} : requests'[t] = requests[t] /\ agent'[t] = agent[t]
        BY <1>1, <3>1
      <3>3. requests[s].phase = "pending" /\ ~requests[s].body
        BY <1>1, <1>2, <2>2 DEF TaskInvs, QueuedInv, Tracked
      <3>5. agent'[s] = Emitting("control", e)
        BY <1>1, <3>1
      <3>6. /\ requests'[s].phase = "running" /\ ~requests'[s].body
            /\ requests'[s].op = requests[s].op /\ requests'[s].terminal = requests[s].terminal
        BY <1>1, <3>1, <3>3 DEF RequestState
      <3> HIDE DEF e
      <3>7. agent'[s].pc = "emit" /\ agent'[s].role = "control" /\ agent'[s].event = e
        BY <3>5 DEF Emitting, Idle
      <3>8. TaskInv(s)'
        BY <1>1, <1>3, <1>6, <3>3, <3>6, <3>7 DEF TaskInv, CanOutput, At, Calling
      <3>9. QED
        BY <3>2, <3>8
    <2>3. QED
      BY <2>1, <2>2
  <1>8. \A t \in Seqs \ {s} : TaskInv(t)'
    BY <1>1, <1>6, <1>7, TaskKeeps DEF TaskInvs
  <1>9. QueuedInv'
    <2>1. ASSUME NEW i \in 1..Len(pending'), requests'[pending'[i]].phase # "absent"
          PROVE  /\ requests'[pending'[i]].phase = "pending"
                 /\ ~stopped' => requests'[pending'[i]].body
      BY <1>1, <1>5, <1>7, <2>1 DEF TaskInvs, QueuedInv
    <2>2. ASSUME NEW i \in 1..Len(controls'), requests'[controls'[i][1]].phase # "absent"
          PROVE  requests'[controls'[i][1]].phase = "pending" /\ ~requests'[controls'[i][1]].body
      BY <1>1, <1>2, <1>4, <1>7, <2>2 DEF TaskInvs, QueuedInv
    <2>3. QED
      BY <2>1, <2>2 DEF QueuedInv
  <1>10. QED
    BY <1>7, <1>8, <1>9 DEF TaskInvs

\* Every step of a thread keeps the records.
LEMMA ThreadTaskInv ==
    ASSUME IInv, TaskInvs, NEW s \in Seqs, Thread(s)
    PROVE  TaskInvs'
  <1>1. TaskInv(s)'
    BY CallTaskInv, ProviderTaskInv, PublishTaskInv, FinallyTaskInv, ControlFailTaskInv
       DEF Thread, ThreadStep, TaskInvs
  <1>2. \A t \in Seqs \ {s} : TaskInv(t)'
    BY OtherThread DEF TaskInvs
  <1>3. /\ agent[s].pc # "idle" /\ pending' = pending /\ controls' = controls
        /\ \/ stopped' = stopped /\ \A t \in Seqs \ {s} : requests'[t] = requests[t]
           \/ stopped' = TRUE /\ \A t \in Seqs \ {s} : requests'[t] = StopAll[t]
    BY ThreadFrame DEF queues
  <1>4. CASE stopped' = stopped /\ \A t \in Seqs \ {s} : requests'[t] = requests[t]
    <2>1. QueuedInv'
      BY <1>3, <1>4, QueuedKeeps DEF TaskInvs
    <2>2. QED
      BY <1>1, <1>2, <2>1 DEF TaskInvs
  <1>5. CASE stopped' = TRUE /\ \A t \in Seqs \ {s} : requests'[t] = StopAll[t]
    <2>2. ASSUME NEW t \in Seqs \ {s}
          PROVE  requests'[t].phase = requests[t].phase /\ ~requests'[t].body
      <3>1. requests[t] \in RequestState
        BY DEF IInv, TypeOK
      <3>2. Aborted(requests[t]) \in RequestState /\ Aborted(requests[t]).phase = requests[t].phase
        BY <3>1, RecordTypes
      <3>3. QED
        BY <1>5, <3>2 DEF StopAll, RequestState
    <2>3. QueuedInv'
      BY <1>3, <1>5, <2>2, QueuedKeeps DEF TaskInvs
    <2>4. QED
      BY <1>1, <1>2, <2>3 DEF TaskInvs
  <1>6. QED
    BY <1>3, <1>4, <1>5

\* Reading history keeps the records.
LEMMA ScanTaskInv ==
    ASSUME IInv, TaskInvs, Scan
    PROVE  TaskInvs'
  <1> USE DEF process, reader, server
  <1>1. /\ proc = "scan" /\ ~stopped /\ cursor <= target
        /\ UNCHANGED <<log, target, lastSeen, agent>>
    BY DEF Scan
  <1>2. cursor \in 1..Len(log) /\ cursor = Seen + 1 /\ cursor \in Nat
    BY <1>1, LenProperties DEF IInv, TypeOK, ReaderInv, Seen
  <1>3. CASE Accept(cursor, TRUE) /\ cursor' = cursor + 1 /\ UNCHANGED process
    <2>1. Seen' = cursor
      BY <1>1, <1>2, <1>3 DEF Seen
    <2>2. IInv'
      BY ScanInv
    <2>3. QED
      BY <1>1, <1>2, <1>3, <2>1, <2>2, AcceptTaskInv
  <1>4. CASE Fail /\ UNCHANGED <<cursor, queues>>
    BY <1>1, <1>4, StopTaskInv
  <1>5. QED
    BY <1>3, <1>4 DEF Scan

\* Reading the live stream keeps the records.
LEMMA DeliverTaskInv ==
    ASSUME IInv, TaskInvs, Deliver
    PROVE  TaskInvs'
  <1>1. /\ proc = "live" /\ ~stopped /\ cursor \in 1..Len(log) /\ cursor > lastSeen
        /\ Accept(cursor, FALSE) /\ lastSeen' = cursor
        /\ UNCHANGED <<log, process, agent>>
    BY DEF Deliver, Receiving, server
  <1>2. cursor = Seen + 1 /\ Seen' = cursor
    BY <1>1 DEF IInv, TypeOK, ReaderInv, Seen, process
  <1>3. IInv'
    BY DeliverInv
  <1>4. QED
    BY <1>1, <1>2, <1>3, AcceptTaskInv DEF process

\* Every step keeps the records and the queues.
LEMMA TaskStep ==
    ASSUME IInv, TaskInvs, [Next]_vars
    PROVE  TaskInvs'
  <1> USE DEF process, reader, queues, worker, server
  <1>1. CASE Environment
    <2>1. /\ UNCHANGED <<process, reader, requests, queues>>
          /\ \A s \in Seqs : /\ agent'[s].pc = agent[s].pc /\ agent'[s].role = agent[s].role
                            /\ agent'[s].event = agent[s].event
          /\ \A i \in 1..Len(log) : log'[i] = log[i]
      BY <1>1, EnvironmentFrame
    <2>2. Seen' = Seen
      BY <2>1 DEF Seen
    <2>3. QED
      BY <2>1, <2>2, StillTaskInv
  <1>2. CASE Connect \/ Disconnect \/ DeliverAgain \/ UNCHANGED vars
    <2>1. /\ UNCHANGED <<log, requests, agent, queues, proc, stopped, target, lastSeen>>
          /\ proc = "scan" => cursor' = cursor
      BY <1>2 DEF Connect, Disconnect, DeliverAgain, Receiving, vars
    <2>2. Seen' = Seen
      BY <2>1 DEF Seen
    <2>3. QED
      BY <2>1, <2>2, StillTaskInv
  <1>3. CASE Stop \/ DeliverFault
    BY <1>3, StopTaskInv DEF Stop, DeliverFault
  <1>4. ASSUME NEW s \in Seqs, RecoverRequest(s) PROVE TaskInvs'
    BY <1>4, RecoverTaskInv
  <1>5. CASE Schedule
    <2>1. pending \in Seq(Seqs) /\ pending # <<>>
      BY <1>5 DEF Schedule, IInv, TypeOK
    <2>2. Head(pending) \in Seqs
      BY <2>1, TakeHead
    <2>3. QED
      BY <1>5, <2>2, ScheduleTaskInv
  <1>6. CASE ControlBegin
    <2>1. controls \in Seq(Seqs \X Codes) /\ controls # <<>>
      BY <1>6 DEF ControlBegin, IInv, TypeOK
    <2>2. Head(controls) \in Seqs \X Codes
      BY <2>1, TakeHead
    <2>3. PICK s \in Seqs, code \in Codes : Head(controls) = <<s, code>>
      BY <2>2
    <2>4. QED
      BY <1>6, <2>3, ControlTaskInv
  <1>7. ASSUME NEW s \in Seqs, Thread(s) PROVE TaskInvs'
    BY <1>7, ThreadTaskInv
  <1>8. QED
    BY <1>1, <1>2, <1>3, <1>4, <1>5, <1>6, <1>7, ResetTaskInv, RestartTaskInv, GoLiveTaskInv,
       ScanTaskInv, DeliverTaskInv DEF Next, Life, Subscription

\* The records agree with the threads in every reachable state.
THEOREM TaskInvariance == Spec => []TaskInvs
  <1>1. Init => TaskInvs
    <2> SUFFICES ASSUME Init PROVE TaskInvs
      OBVIOUS
    <2>1. ASSUME NEW s \in Seqs PROVE TaskInv(s)
      <3>1. agent[s].role = "none" /\ agent[s].pc = "idle" /\ agent[s].event = NoEvent
        BY DEF Init, Idle
      <3>2. /\ requests[s].phase = "absent" /\ requests[s].op = "none"
            /\ requests[s].terminal = 0 /\ ~requests[s].body
        BY DEF Init, Absent
      <3>3. QED
        BY <3>1, <3>2 DEF Init, TaskInv, CanOutput, At, Seen
    <2>2. QueuedInv
      BY EmptySeq DEF Init, QueuedInv
    <2>3. QED
      BY <2>1, <2>2 DEF TaskInvs
  <1>2. IInv /\ TaskInvs /\ [Next]_vars => TaskInvs'
    BY TaskStep
  <1>3. QED
    BY <1>1, <1>2, Invariance, PTL DEF Spec

\* The body of a request is there when its task takes it, in whatever order a
\* cancel, a stop and the scheduler come, and nobody holds one without use for it.
THEOREM BodyIsOwned == Spec => []BodyOwned
  <1>1. TaskInvs => BodyOwned
    BY DEF TaskInvs, TaskInv, BodyOwned
  <1>2. QED
    BY <1>1, TaskInvariance, PTL

\* No interleaving of cancel, stop and the installation of a call leaves a call
\* open that nobody will read to its end.
THEOREM AbortsReach == Spec => []AbortReaches
  <1>1. IInv /\ TaskInvs => AbortReaches
    <2> SUFFICES ASSUME IInv, TaskInvs, NEW s \in Seqs, At(s, "provider", "iterate"),
                        \/ stopped
                        \/ requests[s].terminal # 0 /\ log[requests[s].terminal].kind = "cancel"
                 PROVE  requests[s].op = "aborted"
      BY DEF AbortReaches
    <2>1. requests[s] \in RequestState /\ TaskInv(s)
      BY DEF IInv, TypeOK, TaskInvs
    <2>2. requests[s].op # "none" /\ requests[s].op # "open"
      BY <2>1 DEF TaskInv, At, Calling
    <2>3. QED
      BY <2>1, <2>2 DEF RequestState, Operations
  <1>2. QED
    BY <1>1, Invariance, TaskInvariance, PTL
=============================================================================
