-------------------------- MODULE WorkerProperties --------------------------
(***************************************************************************)
(* What the Worker promises, as predicates on its state and on the log.    *)
(***************************************************************************)
EXTENDS Worker

RequestSeqs(n) == {s \in 1..n : IsRequest(log[s])}

\* The messages the present incarnation has processed.
Seen == CASE proc = "down" -> 0
          [] proc = "scan" -> cursor - 1
          [] proc = "live" -> lastSeen

Earlier(s) == \E q \in RequestSeqs(s - 1) : log[q].key = log[s].key

\* Over all incarnations at most one Provider call is made for a stream key,
\* and only for its first request, when that passed the admission checks
\* (dedup of _accept, overlap filter of run, history that is never queued).
AtMostOneProviderCall ==
    \A s \in Seqs : invoked[s] > 0 =>
        /\ invoked[s] = 1
        /\ log[s].fit = "ok"
        /\ ~Earlier(s)

\* worker.running counts exactly the live Provider tasks and stays within
\* max_concurrency (_schedule against the finally block of _provider_task).
SlotAccounting ==
    /\ running = Cardinality({s \in Seqs : agent[s].role = "provider"})
    /\ running <= MaxConcurrency

\* The bookkeeping of _accept and _retire_locked agrees with the reference
\* reading of the processed part of the log: the same chain tail, the same
\* winner, nothing dropped before it is decided, and nothing kept after that
\* unless a thread still works for it.
ViewMatchesLog ==
    \A s \in Seqs :
        IF s \in RequestSeqs(Seen)
        THEN /\ requests[s].phase \notin {"absent"} =>
                  /\ requests[s].terminal = Winner(log, s, Seen)
                  /\ requests[s].chain = ChainTail(log, s, Seen)
                  /\ requests[s].duplicate = Earlier(s)
             /\ Winner(log, s, Seen) # 0 => requests[s].phase \in {"absent", "running"}
             /\ Winner(log, s, Seen) = 0 => Tracked(s)
        ELSE ~Tracked(s)

\* No request is forgotten: one that is tracked and undecided is queued, has a
\* thread that works for it, or its deciding event is already in the log; and
\* "running" is said only of a request whose thread exists.
NoForgottenRequest ==
    proc = "live" /\ ~stopped =>
        \A s \in Seqs : Tracked(s) =>
            /\ \/ requests[s].terminal # 0
               \/ \E i \in DOMAIN pending : pending[i] = s
               \/ \E i \in DOMAIN controls : controls[i][1] = s
               \/ agent[s] # Idle
               \/ Winner(log, s, Len(log)) # 0
            /\ requests[s].phase = "running" => agent[s] # Idle

\* Recovery closes what history left open, no less and no more: once the Worker
\* is live every request it found is decided in the log, and a thread of
\* recover() only works for a request that the whole snapshot, also the part of
\* it that comes after the request's last output, leaves undecided.
RecoveredClosed ==
    /\ proc = "live" => \A s \in RequestSeqs(target) : Winner(log, s, Len(log)) # 0
    /\ \A s \in Seqs : agent[s].role = "recovery" =>
          s \in RequestSeqs(target) /\ Winner(log, s, target) = 0

\* A task that may go on has its request body, whatever cancel and stop do to
\* it; no body outlives its use (body is cleared in five places).
BodyOwned ==
    \A s \in Seqs :
        /\ At(s, "provider", "begin") /\ CanOutput(s) => requests[s].body
        /\ requests[s].body =>
              /\ CanOutput(s)
              /\ requests[s].phase = "pending" \/ At(s, "provider", "begin")

\* A Provider call that may be blocked on its socket has been aborted when a
\* cancel was seen or the Worker stops, whenever that happened relative to the
\* installation of the call.
AbortReaches ==
    \A s \in Seqs : At(s, "provider", "iterate") =>
        /\ stopped => requests[s].op = "aborted"
        /\ requests[s].terminal # 0 /\ log[requests[s].terminal].kind = "cancel"
              => requests[s].op = "aborted"

\* The first n messages hold an output for the request that no Worker sends.
Meddled(s, n) ==
    \E i \in (s + 1)..n : /\ log[i].kind \in {"append", "result"}
                          /\ log[i].ref = s /\ log[i] = Foreign(s)

\* What the Workers write never violates the output chain as a consumer reads
\* it, through crashes, unacknowledged publications and late commits: a chain
\* is only ever broken by somebody else.
ChainIntact ==
    \A s \in RequestSeqs(Len(log)) : Broken(log, s, Len(log)) => Meddled(s, Len(log))

\* The subscription never meets a ProtocolError of the Worker's own making.
ReaderNeverFaults ==
    Receiving /\ cursor > lastSeen /\ Faulty(log[cursor]) =>
        log[cursor] = Invalid \/ Meddled(log[cursor].ref, cursor)

\* The Worker never reads on past an output that breaks the call it belongs to:
\* such an output stops the process instead of being taken for progress.
FaultStopsReader == \A s \in RequestSeqs(Seen) : ~Broken(log, s, Seen)

\* A duplicate request is answered by ordinary terminal results only: the
\* rejection, or the interruption found by recovery (no end, no chain).
DuplicatesRejected ==
    \A i \in DOMAIN log : log[i] \in Outputs /\ Earlier(log[i].ref) =>
        log[i].kind = "result" /\ log[i].body /\ log[i].code \in {Duplicate, Interrupted}

-----------------------------------------------------------------------------
(* Liveness, and the promise to a consumer. *)

InLog(s) == s \in RequestSeqs(Len(log))

\* Every request is decided in the end: restarts, lost subscriptions and failed
\* publications delay its terminal event but never lose it.
EveryRequestResolved ==
    \A s \in Seqs : InLog(s) ~> (InLog(s) /\ Winner(log, s, Len(log)) # 0)

\* A task whose request a consumer has cancelled ends and frees its slot, even if
\* the Provider never sends another byte.  (An outcome that another member wrote
\* does not abort the call, _accept only aborts for a cancel: that task ends by
\* the deadlines of its call.)
DecidedTaskEnds ==
    \A s \in Seqs :
        (/\ agent[s].role = "provider"
         /\ requests[s].terminal # 0 /\ log[requests[s].terminal].kind = "cancel")
            ~> (agent[s].role # "provider")

\* The Workers, seen through the log only, implement the call protocol.
Calls == INSTANCE CallProtocol WITH
    Ids <- Seqs, Names <- Keys,
    status <- [s \in Seqs |-> IF InLog(s) THEN CallStatus(log, s, Len(log)) ELSE "none"],
    name <- [s \in Seqs |-> IF InLog(s) THEN log[s].key ELSE "no name"],
    called <- {s \in Seqs : invoked[s] > 0}

\* Calls open, stream and close in order and once, every call closes, and at
\* most one Provider call is made under a stream key.
ImplementsCallProtocol == Calls!CallLiveSpec
=============================================================================
