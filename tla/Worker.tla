------------------------------- MODULE Worker -------------------------------
(***************************************************************************)
(* The Model Proxy Worker over the OpenEvent log: recovery from history,   *)
(* one ordered subscription, a scheduler that starts at most               *)
(* MaxConcurrency Provider tasks, a control thread that publishes          *)
(* rejections, and the crashes and restarts of the whole process.          *)
(*                                                                         *)
(* A step is a section of code run under Worker.condition together with    *)
(* the thread-local code around it; what two threads do between two such   *)
(* sections interleaves freely.                                            *)
(*                                                                         *)
(* A definition named X_... is X with a plausible bug: put in the place of *)
(* X it makes TLC refute the property named with it in the README.  No     *)
(* other definition uses it.                                               *)
(***************************************************************************)
EXTENDS LlmMessages

CONSTANTS
    RequestKinds,     \* the requests met: pairs of streaming and fit
    MaxSeq,           \* bound: the largest seq a request may get
    MaxConcurrency,   \* worker.max_concurrency
    MaxAppends,       \* bound: appends a Provider yields for one request
    MaxRequests,      \* bound: requests in the log
    MaxCancels,       \* bound: cancels in the log
    MaxNoise,         \* bound: other messages in the log
    Noise,            \* the other messages met: subset of NoiseKinds
    MaxFaults,        \* bound: crashes, stops, disconnects, failed publications;
                      \* and restarts after the first start
    Failures          \* the ProviderError codes met

NoiseKinds == {"system", "invalid", "foreign"}

ASSUME ConstantsAssumption ==
    /\ RequestKinds \subseteq BOOLEAN \X Fits
    /\ MaxSeq \in Nat /\ MaxConcurrency \in Nat \ {0}
    /\ MaxAppends \in Nat /\ MaxRequests \in Nat /\ MaxCancels \in Nat
    /\ MaxNoise \in Nat /\ MaxFaults \in Nat
    /\ Noise \subseteq NoiseKinds /\ Failures \subseteq ProviderCodes

Seqs == 1..MaxSeq    \* the seqs a request may have

VARIABLES
    log,          \* the committed messages; the seq of a message is its position
    inflight,     \* publications sent to OpenEvent and not committed
    proc,         \* the process: down, scanning history, or live
    epoch,        \* incarnation of the process
    stopped,      \* Worker.stopped
    target,       \* max_seq read at the start of recovery
    cursor,       \* next seq to be read; 0 when no Subscribe stream is open
    lastSeen,     \* Worker.last_seen_seq
    requests,     \* Worker.requests: RequestState by request seq
    originals,    \* Worker.originals
    pending,      \* Worker.pending
    controls,     \* Worker.controls
    running,      \* Worker.running
    agent,        \* by request seq: the thread that publishes for the request
    invoked,      \* history: Provider calls started for a request, ever
    faults        \* history: faults so far

server == <<log, inflight>>
reader == <<target, cursor, lastSeen>>
queues == <<originals, pending, controls>>
worker == <<requests, queues, running, agent>>
process == <<proc, epoch, stopped>>
vars == <<server, process, reader, worker, invoked, faults>>

-----------------------------------------------------------------------------
(* RequestState, and the thread that works for a request.                  *)

Phases == {"absent", "pending", "running", "done"}
Operations == {"none", "open", "aborted"}

RequestState ==
    [phase : Phases, duplicate : BOOLEAN, chain : Nat, terminal : Nat,
     body : BOOLEAN, op : Operations]

\* Not a key of Worker.requests.
Absent == [phase |-> "absent", duplicate |-> FALSE, chain |-> 0, terminal |-> 0,
           body |-> FALSE, op |-> "none"]

Roles == {"none", "provider", "control", "recovery"}

\* idle; or a Provider task before its first lock, before and after the call is
\* installed, consuming the call; or an event between the two checks of _emit,
\* in publish, and the last block of the thread.
Labels == {"idle", "begin", "install", "start", "iterate", "emit", "publish", "finally"}

NoEvent == [kind |-> "none"]

Agents == [pc : Labels, role : Roles, event : Outputs \cup {NoEvent},
           ack : Nat, writer : Nat]

Idle == [pc |-> "idle", role |-> "none", event |-> NoEvent, ack |-> 0, writer |-> 0]
Task == [Idle EXCEPT !.pc = "begin", !.role = "provider"]
Emitting(role, e) == [Idle EXCEPT !.pc = "emit", !.role = role, !.event = e]

\* Publications: the incarnation that sent them, and the message.
Publications == [epoch : Nat, event : Outputs]

Count(kinds) == Cardinality({i \in DOMAIN log : log[i].kind \in kinds})

\* An output in agent, inflight or log has a code that its shape admits (Outputs).
TypeOK ==
    /\ log \in Seq(Messages)
    /\ inflight \subseteq Publications
    /\ proc \in {"down", "scan", "live"}
    /\ epoch \in Nat
    /\ stopped \in BOOLEAN
    /\ target \in Nat /\ cursor \in Nat /\ lastSeen \in Nat
    /\ requests \in [Seqs -> RequestState]
    /\ originals \subseteq Keys
    /\ pending \in Seq(Seqs)
    /\ controls \in Seq(Seqs \X Codes)
    /\ running \in Int
    /\ agent \in [Seqs -> Agents]
    /\ invoked \in [Seqs -> Nat]
    /\ faults \in Nat

Tracked(s) == requests[s].phase # "absent"

CanOutput(s) == ~stopped /\ requests[s].terminal = 0

Aborted_Never(r) == r

\* stop(): every body is dropped and every installed Provider call aborted.
Aborted(r) == [r EXCEPT !.op = IF @ = "open" THEN "aborted" ELSE @]

StopAll_KeepsBodies == [s \in Seqs |-> Aborted(requests[s])]
StopAll == [s \in Seqs |-> [Aborted(requests[s]) EXCEPT !.body = FALSE]]

Retired_Always(r) == IF r.phase # "running" THEN Absent ELSE r
Retired(r) == IF r.terminal # 0 /\ r.phase # "running" THEN Absent ELSE r

\* _error_output: what a failure publishes depends on the shape of the request.
EndsStream_Rejected(s, recovery, rejection) == log[s].streaming
EndsStream_Recovered(s, recovery, rejection) == log[s].streaming /\ ~rejection
EndsStream(s, recovery, rejection) ==
    log[s].streaming /\ ~rejection /\ ~(recovery /\ requests[s].duplicate)

ErrorEvent(s, code, recovery, rejection) ==
    IF EndsStream(s, recovery, rejection)
    THEN End(log[s].key, s, code)
    ELSE Result(log[s].key, s, TRUE, code)

Init ==
    /\ log = <<>> /\ inflight = {}
    /\ proc = "down" /\ epoch = 0 /\ stopped = FALSE
    /\ target = 0 /\ cursor = 0 /\ lastSeen = 0
    /\ requests = [s \in Seqs |-> Absent]
    /\ originals = {} /\ pending = <<>> /\ controls = <<>> /\ running = 0
    /\ agent = [s \in Seqs |-> Idle]
    /\ invoked = [s \in Seqs |-> 0]
    /\ faults = 0

-----------------------------------------------------------------------------
(* The other members of the channel, and OpenEvent.                        *)

Write(m) ==
    /\ log' = Append(log, m)
    /\ UNCHANGED <<inflight, process, reader, worker, invoked, faults>>

PublishRequest(k, str, fit) ==
    /\ Len(log) < MaxSeq
    /\ Count({"request"}) < MaxRequests
    /\ Write(Request(k, str, fit))

\* A consumer may cancel at any time, even twice, late, or with the wrong key.
PublishCancel(k, s) ==
    /\ s <= Len(log)
    /\ Count({"cancel"}) < MaxCancels
    /\ Write(Cancel(k, s))

\* What another member may publish for a request.  An output that breaks the
\* chain: an append right after the request, or a result without body for an
\* ordinary request; or the outcome, as a Worker would write it.
Foreign(s) == IF log[s].streaming THEN AppendEvent(log[s].key, s, s)
              ELSE Result(log[s].key, s, FALSE, Http)
ForeignOutcome(s) == IF log[s].streaming THEN End(log[s].key, s, Http)
                     ELSE Result(log[s].key, s, TRUE, Http)

PublishNoise(n) ==
    /\ Cardinality({i \in DOMAIN log :
          \/ log[i].kind \in {"system", "invalid"}
          \/ log[i].kind \in {"append", "result"} /\ log[i] = Foreign(log[i].ref)}) < MaxNoise
    /\ \/ n = "system" /\ Write(System)
       \/ n = "invalid" /\ Write(Invalid)
       \/ /\ n = "foreign"
          /\ \E s \in Seqs :
                /\ s <= Len(log) /\ IsRequest(log[s])
                /\ \/ Write(Foreign(s))
                   \/ Winner(log, s, Len(log)) = 0 /\ Write(ForeignOutcome(s))

\* The thread of the present incarnation that waits for the reply to p.
Waiting(p) ==
    /\ p.epoch = epoch
    /\ agent[p.event.ref].pc = "publish"
    /\ agent[p.event.ref].ack = 0

\* A publication commits, perhaps after its publisher has crashed or given up;
\* nothing makes one commit that nobody waits for, so it may also be lost.
Commit(p) ==
    /\ p \in inflight
    /\ log' = Append(log, p.event)
    /\ inflight' = inflight \ {p}
    /\ agent' = IF Waiting(p)
                THEN [agent EXCEPT ![p.event.ref].ack = Len(log) + 1]
                ELSE agent
    /\ UNCHANGED <<process, reader, requests, queues, running, invoked, faults>>

-----------------------------------------------------------------------------
(* _accept, by kind of message.                                            *)

Track(s, historical) ==
    LET k == log[s].key
        duplicate == k \in originals
        code == CASE duplicate -> Duplicate
                  [] ~duplicate /\ log[s].fit = "large" -> TooLarge
                  [] ~duplicate /\ log[s].fit = "config" -> BadProvider
                  [] OTHER -> Http
        admitted == ~historical /\ code = Http
    IN  IF Tracked(s) THEN UNCHANGED <<requests, queues>>
        ELSE /\ requests' = [requests EXCEPT ![s] =
                   [Absent EXCEPT !.phase = "pending", !.duplicate = duplicate,
                                  !.body = admitted]]
             /\ originals' = originals \cup {k}
             /\ pending' = IF admitted THEN Append(pending, s) ELSE pending
             /\ controls' = IF ~historical /\ code # Http
                            THEN Append(controls, <<s, code>>) ELSE controls

\* The message is for a request that is still undecided here.
Matched(m) ==
    /\ m.ref \in Seqs /\ Tracked(m.ref)
    /\ log[m.ref].key = m.key
    /\ requests[m.ref].terminal = 0

Skipped(m) ==
    Matched(m) => \/ m.kind = "result" /\ requests[m.ref].chain # 0
                  \/ m.kind \in {"end", "cancel"} /\ ~log[m.ref].streaming

Faulty_AnyAppend(m) ==
    m = Invalid \/ (m.kind = "result" /\ ~Skipped(m) /\ ~log[m.ref].streaming /\ ~m.body)

\* ProtocolError, or a message that does not parse.
Faulty(m) ==
    \/ m = Invalid
    \/ /\ IsOutput(m) /\ ~Skipped(m)
       /\ \/ m.kind = "result" /\ ~log[m.ref].streaming /\ ~m.body
          \/ /\ m.kind = "append"
             /\ \/ ~log[m.ref].streaming
                \/ requests[m.ref].chain = 0
                \/ m.prev # requests[m.ref].chain

Terminal(m) == m.kind \in {"end", "cancel"} \/ (m.kind = "result" /\ m.body)

Linked_First(r, m, i) == IF m.kind = "result" THEN [r EXCEPT !.chain = i] ELSE r
Linked(r, m, i) == IF m.kind \in {"result", "append"} THEN [r EXCEPT !.chain = i] ELSE r

\* The record of the request after the message at seq i.
Observed(r, m, i) ==
    LET linked == Linked(r, m, i)
        ended == [linked EXCEPT !.terminal = i, !.body = FALSE]
    IN  IF ~Terminal(m) THEN linked
        ELSE Retired(IF m.kind = "cancel" THEN Aborted(ended) ELSE ended)

\* _accept of the message at seq i; parsing errors are handled by the caller.
Accept(i, historical) ==
    LET m == log[i]
    IN  \/ m = System /\ UNCHANGED <<requests, queues>>
        \/ IsRequest(m) /\ Track(i, historical)
        \/ IsOutput(m) /\ Skipped(m) /\ UNCHANGED <<requests, queues>>
        \/ /\ IsOutput(m) /\ ~Skipped(m) /\ ~Faulty(m)
           /\ requests' = [requests EXCEPT ![m.ref] = Observed(@, m, i)]
           /\ UNCHANGED queues

\* _fail and stop: no thread may begin another publication.
Fail ==
    /\ stopped' = TRUE
    /\ requests' = StopAll
    /\ UNCHANGED <<proc, epoch>>

-----------------------------------------------------------------------------
(* The process: start, recover, crash, stop.                               *)

Reset ==
    /\ target' = 0 /\ cursor' = 0 /\ lastSeen' = 0
    /\ requests' = [s \in Seqs |-> Absent]
    /\ originals' = {} /\ pending' = <<>> /\ controls' = <<>> /\ running' = 0
    /\ agent' = [s \in Seqs |-> Idle]

Restart_FromTip ==
    /\ proc = "down" /\ epoch <= MaxFaults
    /\ proc' = "scan" /\ epoch' = epoch + 1 /\ stopped' = FALSE
    /\ target' = Len(log) /\ cursor' = Len(log) + 1 /\ lastSeen' = 0
    /\ UNCHANGED <<server, worker, invoked, faults>>

\* The process starts; recover() reads the status of the log.
Restart ==
    /\ proc = "down" /\ epoch <= MaxFaults
    /\ proc' = "scan" /\ epoch' = epoch + 1 /\ stopped' = FALSE
    /\ target' = Len(log) /\ cursor' = 1 /\ lastSeen' = 0
    /\ UNCHANGED <<server, worker, invoked, faults>>

\* recover(): one message of the snapshot.
Scan ==
    /\ proc = "scan" /\ ~stopped
    /\ cursor <= target
    /\ \/ /\ Accept(cursor, TRUE)
          /\ cursor' = cursor + 1
          /\ UNCHANGED process
       \/ Faulty(log[cursor]) /\ Fail /\ UNCHANGED <<cursor, queues>>
    /\ UNCHANGED <<server, target, lastSeen, running, agent, invoked, faults>>

Unresolved == {s \in Seqs : requests[s].phase = "pending" /\ requests[s].terminal = 0}

RecoverRequest_Early(s) ==
    /\ proc = "scan" /\ ~stopped
    /\ s \in Unresolved /\ \A t \in Unresolved : s <= t
    /\ agent[s] = Idle
    /\ agent' = [agent EXCEPT ![s] =
          Emitting("recovery", ErrorEvent(s, Interrupted, TRUE, FALSE))]
    /\ UNCHANGED <<server, process, reader, requests, queues, running, invoked, faults>>

\* recover(): the next interrupted request, in seq order, once all is parsed.
RecoverRequest(s) ==
    /\ proc = "scan" /\ ~stopped
    /\ cursor > target
    /\ s \in Unresolved /\ \A t \in Unresolved : s <= t
    /\ agent[s] = Idle
    /\ agent' = [agent EXCEPT ![s] =
          Emitting("recovery", ErrorEvent(s, Interrupted, TRUE, FALSE))]
    /\ UNCHANGED <<server, process, reader, requests, queues, running, invoked, faults>>

\* recover() has returned; the scheduler and the control thread start.
GoLive ==
    /\ proc = "scan" /\ ~stopped
    /\ cursor > target
    /\ Unresolved = {}
    /\ proc' = "live"
    /\ lastSeen' = target /\ cursor' = 0
    /\ UNCHANGED <<server, epoch, stopped, target, worker, invoked, faults>>

Crash ==
    /\ proc # "down"
    /\ faults < MaxFaults
    /\ proc' = "down" /\ stopped' = FALSE
    /\ faults' = faults + 1
    /\ Reset
    /\ UNCHANGED <<server, epoch, invoked>>

Stop ==
    /\ proc # "down" /\ ~stopped
    /\ faults < MaxFaults
    /\ faults' = faults + 1
    /\ Fail
    /\ UNCHANGED <<server, reader, queues, running, agent, invoked>>

\* run() returns; the daemon threads end with the process.
Exit ==
    /\ proc # "down" /\ stopped
    /\ proc' = "down" /\ stopped' = FALSE
    /\ Reset
    /\ UNCHANGED <<server, epoch, invoked, faults>>

-----------------------------------------------------------------------------
(* run(): the subscription.                                                *)

\* The server replays from last_seen_seq, so the last message may come again.
Connect ==
    /\ proc = "live" /\ ~stopped
    /\ cursor = 0
    /\ cursor' \in {lastSeen, lastSeen + 1} \ {0}
    /\ UNCHANGED <<server, process, target, lastSeen, worker, invoked, faults>>

Disconnect ==
    /\ proc = "live" /\ ~stopped
    /\ cursor # 0
    /\ faults < MaxFaults
    /\ faults' = faults + 1
    /\ cursor' = 0
    /\ UNCHANGED <<server, process, target, lastSeen, worker, invoked>>

Receiving ==
    /\ proc = "live" /\ ~stopped
    /\ cursor \in 1..Len(log)

DeliverAgain ==
    /\ Receiving
    /\ cursor <= lastSeen
    /\ cursor' = cursor + 1
    /\ UNCHANGED <<server, process, target, lastSeen, worker, invoked, faults>>

Deliver ==
    /\ Receiving
    /\ cursor > lastSeen
    /\ Accept(cursor, FALSE)
    /\ cursor' = cursor + 1 /\ lastSeen' = cursor
    /\ UNCHANGED <<server, process, target, running, agent, invoked, faults>>

DeliverFault ==
    /\ Receiving
    /\ cursor > lastSeen
    /\ Faulty(log[cursor])
    /\ Fail
    /\ UNCHANGED <<server, reader, queues, running, agent, invoked, faults>>

-----------------------------------------------------------------------------
(* _schedule and _provider_task.                                           *)

Schedule ==
    /\ proc = "live" /\ ~stopped
    /\ pending # <<>> /\ running < MaxConcurrency
    /\ pending' = Tail(pending)
    /\ LET s == Head(pending)
       IN  \/ ~Tracked(s) /\ UNCHANGED <<requests, running, agent>>
           \/ /\ Tracked(s)
              /\ requests' = [requests EXCEPT ![s].phase = "running"]
              /\ running' = running + 1
              /\ agent' = [agent EXCEPT ![s] = Task]
    /\ UNCHANGED <<server, process, reader, originals, controls, invoked, faults>>

At(s, role, pc) == agent[s].role = role /\ agent[s].pc = pc

Goto(s, pc) == agent' = [agent EXCEPT ![s].pc = pc]

Last_Skipped(a) == Idle
Last(a) == [Idle EXCEPT !.pc = "finally", !.role = a.role]

Finish(s) == agent' = [agent EXCEPT ![s] = Last(@)]

\* First lock: take the body and build the ProviderCall, or give up.
TaskBegin(s) ==
    /\ At(s, "provider", "begin")
    /\ \/ CanOutput(s) /\ Goto(s, "install")
          /\ requests' = [requests EXCEPT ![s].body = FALSE]
       \/ ~CanOutput(s) /\ Finish(s) /\ UNCHANGED requests
    /\ UNCHANGED <<server, process, reader, queues, running, invoked, faults>>

\* Second lock: make the call visible to cancel and stop.
TaskInstall(s) ==
    /\ At(s, "provider", "install")
    /\ \/ CanOutput(s) /\ Goto(s, "start")
          /\ requests' = [requests EXCEPT ![s].op = "open"]
       \/ ~CanOutput(s) /\ Finish(s) /\ UNCHANGED requests
    /\ UNCHANGED <<server, process, reader, queues, running, invoked, faults>>

\* Third lock, then the first step of the iterator: the Provider is called
\* unless the call was aborted meanwhile.
TaskStart(s) ==
    /\ At(s, "provider", "start")
    /\ \/ CanOutput(s) /\ Goto(s, "iterate")
          /\ invoked' = [invoked EXCEPT ![s] = @ + 1]
       \/ ~CanOutput(s) /\ Finish(s) /\ UNCHANGED invoked
    /\ UNCHANGED <<server, process, reader, requests, queues, running, faults>>

\* What the Provider may yield next: one result for an ordinary request; for a
\* streaming one headers, appends chained to the last publication, and an end.
NextEvents(s) ==
    LET k == log[s].key
        w == agent[s].writer
        appends == {i \in DOMAIN log : log[i].kind = "append" /\ log[i].ref = s}
    IN  IF ~log[s].streaming THEN {Result(k, s, TRUE, Http)}
        ELSE IF w = 0 THEN {Result(k, s, FALSE, Http)}
        ELSE {End(k, s, Http)} \cup
             (IF Cardinality(appends) < MaxAppends THEN {AppendEvent(k, s, w)} ELSE {})

\* The loop body up to the first check of _emit; a break leads to finally.
EmitOrEnd(s, e) ==
    /\ agent' = [agent EXCEPT ![s] =
          IF CanOutput(s) THEN [@ EXCEPT !.pc = "emit", !.event = e]
          ELSE Last(@)]
    /\ UNCHANGED <<server, process, reader, requests, queues, running, invoked, faults>>

Yield(s) ==
    /\ At(s, "provider", "iterate")
    /\ \E e \in NextEvents(s) : EmitOrEnd(s, e)

ProviderFail_Silent(s) ==
    /\ At(s, "provider", "iterate")
    /\ Finish(s)
    /\ UNCHANGED <<server, process, reader, requests, queues, running, invoked, faults>>

\* ProviderError, or any other exception (60007).
ProviderFail(s) ==
    /\ At(s, "provider", "iterate")
    /\ \E code \in Failures : EmitOrEnd(s, ErrorEvent(s, code, FALSE, FALSE))

\* ProviderCancelled: only after abort().
ProviderCancelled(s) ==
    /\ At(s, "provider", "iterate")
    /\ requests[s].op = "aborted"
    /\ Finish(s)
    /\ UNCHANGED <<server, process, reader, requests, queues, running, invoked, faults>>

\* validate_payload: a Provider event that does not fit becomes an error.
Oversize(s) ==
    /\ At(s, "provider", "emit")
    /\ TooLarge \in Failures
    /\ agent[s].event.kind # "append" => agent[s].event.code = Http
    /\ EmitOrEnd(s, ErrorEvent(s, TooLarge, FALSE, FALSE))

\* The last block of the task.
TaskFinally(s) ==
    /\ At(s, "provider", "finally")
    /\ requests' = [requests EXCEPT ![s] =
          Retired([@ EXCEPT !.op = "none", !.body = FALSE, !.phase = "done"])]
    /\ running' = running - 1
    /\ agent' = [agent EXCEPT ![s] = Idle]
    /\ UNCHANGED <<server, process, reader, queues, invoked, faults>>

-----------------------------------------------------------------------------
(* _control_outputs: one thread, one rejection at a time.                  *)

ControlBegin ==
    /\ proc = "live" /\ ~stopped
    /\ controls # <<>>
    /\ \A s \in Seqs : agent[s].role # "control"
    /\ controls' = Tail(controls)
    /\ LET s == Head(controls)[1]
           code == Head(controls)[2]
       IN  \/ ~Tracked(s) /\ UNCHANGED <<requests, agent>>
           \/ /\ Tracked(s)
              /\ requests' = [requests EXCEPT ![s].phase = "running"]
              /\ agent' = [agent EXCEPT ![s] =
                    Emitting("control", ErrorEvent(s, code, FALSE, TRUE))]
    /\ UNCHANGED <<server, process, reader, originals, pending, running, invoked, faults>>

ControlFinally(s) ==
    /\ At(s, "control", "finally")
    /\ requests' = [requests EXCEPT ![s] = Retired([@ EXCEPT !.phase = "done"])]
    /\ agent' = [agent EXCEPT ![s] = Idle]
    /\ UNCHANGED <<server, process, reader, queues, running, invoked, faults>>

-----------------------------------------------------------------------------
(* _emit: the second check, the publication, its reply or its failure.     *)

\* before_publish, after the uuid is allocated; the event is sent.
PublishStart(s) ==
    /\ agent[s].pc = "emit"
    /\ \/ /\ CanOutput(s)
          /\ inflight' = inflight \cup {[epoch |-> epoch, event |-> agent[s].event]}
          /\ Goto(s, "publish")
       \/ ~CanOutput(s) /\ Finish(s) /\ UNCHANGED inflight
    /\ UNCHANGED <<log, process, reader, requests, queues, running, invoked, faults>>

Acked_First(a) ==
    [Task EXCEPT !.pc = "iterate", !.writer = IF a.writer = 0 THEN a.ack ELSE a.writer]
Acked(a) == [Task EXCEPT !.pc = "iterate", !.writer = a.ack]

\* The reply: the task goes on after its own event, unless that was the last.
PublishReturn(s) ==
    /\ agent[s].pc = "publish" /\ agent[s].ack # 0
    /\ agent' = [agent EXCEPT ![s] =
          CASE @.role = "recovery" -> Idle
            [] @.role = "provider" /\ ~Terminal(@.event) ->
                  Acked(@)
            [] OTHER -> Last(@)]
    /\ requests' = IF agent[s].role = "recovery"
                   THEN [requests EXCEPT ![s].phase = "done"] ELSE requests
    /\ UNCHANGED <<server, process, reader, queues, running, invoked, faults>>

\* No uuid, a definite refusal, or no answer within the retries: the event may
\* still be on its way.  Unless already stopped this is fatal to the Worker; the
\* control thread runs its last block before that.
PublishFail(s) ==
    /\ agent[s].pc \in {"emit", "publish"}
    /\ \/ stopped /\ UNCHANGED <<process, requests, faults>>
       \/ /\ ~stopped /\ agent[s].role # "control"
          /\ faults < MaxFaults
          /\ faults' = faults + 1
          /\ Fail
    /\ Finish(s)
    /\ UNCHANGED <<server, reader, queues, running, invoked>>

ControlFail(s) ==
    /\ agent[s].role = "control" /\ agent[s].pc \in {"emit", "publish"}
    /\ ~stopped /\ stopped' = TRUE
    /\ faults < MaxFaults /\ faults' = faults + 1
    /\ requests' = [StopAll EXCEPT ![s] = Retired([@ EXCEPT !.phase = "done"])]
    /\ agent' = [agent EXCEPT ![s] = Idle]
    /\ UNCHANGED <<server, proc, epoch, reader, queues, running, invoked>>

-----------------------------------------------------------------------------

Environment ==
    \/ \E k \in Keys, kind \in RequestKinds : PublishRequest(k, kind[1], kind[2])
    \/ \E k \in Keys, s \in Seqs : PublishCancel(k, s)
    \/ \E n \in Noise : PublishNoise(n)
    \/ \E p \in inflight : Commit(p)

Life == Restart \/ Scan \/ (\E s \in Seqs : RecoverRequest(s)) \/ GoLive
          \/ Crash \/ Stop \/ Exit

Subscription == Connect \/ Disconnect \/ DeliverAgain \/ Deliver \/ DeliverFault

ProviderStep(s) == Yield(s) \/ ProviderFail(s)

ThreadStep(s) ==
    \/ TaskBegin(s) \/ TaskInstall(s) \/ TaskStart(s)
    \/ ProviderCancelled(s) \/ TaskFinally(s) \/ ControlFinally(s)
    \/ PublishStart(s) \/ PublishReturn(s)

Thread(s) ==
    \/ ThreadStep(s) \/ ProviderStep(s) \/ Oversize(s)
    \/ PublishFail(s) \/ ControlFail(s)

Next ==
    \/ Environment
    \/ Life
    \/ Subscription
    \/ Schedule
    \/ ControlBegin
    \/ \E s \in Seqs : Thread(s)

Spec == Init /\ [][Next]_vars

-----------------------------------------------------------------------------
(* Fairness.  Every thread of a running process gets to run, and the process *)
(* is restarted.  An RPC is answered or given up: each attempt has a         *)
(* deadline and the attempts are bounded.  Nothing is fair about requests,   *)
(* cancels, faults, or a publication nobody waits for.                       *)

MainThread ==
    \/ Restart \/ Scan \/ (\E s \in Seqs : RecoverRequest(s)) \/ GoLive \/ Exit
    \/ Connect \/ DeliverAgain \/ Deliver \/ DeliverFault

Answer(s) ==
    \/ \E p \in inflight : Waiting(p) /\ p.event.ref = s /\ Commit(p)
    \/ PublishFail(s) \/ ControlFail(s)

Fairness ==
    /\ WF_vars(MainThread) /\ WF_vars(Schedule) /\ WF_vars(ControlBegin)
    /\ \A s \in Seqs : WF_vars(ThreadStep(s)) /\ WF_vars(Answer(s))

\* A Provider that hangs: nothing is assumed of what it sends.
HangSpec == Spec /\ Fairness

\* A Provider call yields or fails in the end: its deadlines are finite.
LiveSpec == HangSpec /\ \A s \in Seqs : WF_vars(ProviderStep(s))
=============================================================================
