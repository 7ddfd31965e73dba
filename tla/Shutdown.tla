------------------------------- MODULE Shutdown -------------------------------
(***************************************************************************)
(* How the Worker stops: run(), which recovers, subscribes and reads in    *)
(* the main thread, against stop(), which other threads call or a signal   *)
(* handler.  A handler runs in the main thread, which does nothing else    *)
(* before it has returned.  The locks are those that both sides take: the  *)
(* condition, which a thread may take again, and the plain locks inside    *)
(* the Event stopped and inside a Provider call.                           *)
(*                                                                         *)
(* X_... is X with a plausible bug; only the README's table refers to it.  *)
(***************************************************************************)
EXTENDS Integers, FiniteSets

CONSTANTS
    Stoppers,        \* calls of stop() that do not come from run()
    SignalHandler,   \* they are signal handlers
    MaxRetries,      \* worker.max_retries
    MaxStreams       \* bound: Subscribe calls; the last stream stays open

ASSUME ShutdownAssumption ==
    /\ SignalHandler \in BOOLEAN
    /\ SignalHandler => Cardinality(Stoppers) <= 1
    /\ MaxRetries \in Nat /\ MaxStreams \in Nat \ {0}
    /\ "main" \notin Stoppers

VARIABLES
    pc,          \* where run() is
    stage,       \* the RPC being tried: recover or connect
    attempt,     \* call_rpc's loop variable
    failed,      \* _failure is not None
    stream,      \* run()'s stream, 0 for none
    installed,   \* _stream, 0 for None
    opened,      \* Subscribe calls made
    open,        \* streams that are neither finished nor cancelled
    stopped,     \* the flag of the Event stopped
    stopping,    \* by frame: how far its stop() is
    seen,        \* by frame: the stream its stop() has read
    condition,   \* the frames that hold the Worker's condition
    eventLock,   \* the frame that holds the lock inside stopped, or "none"
    callLock     \* the frame that holds the lock of a Provider call, or "none"

local == <<stage, attempt, failed, stream, opened>>
run == <<pc, local>>
shared == <<installed, open, stopped>>
stops == <<stopping, seen>>
locks == <<condition, eventLock, callLock>>
vars == <<run, shared, stops, locks>>

Frames == {"main"} \cup Stoppers
Thread(f) == IF SignalHandler THEN "main" ELSE f

Init ==
    /\ pc = "check" /\ stage = "recover" /\ attempt = 0 /\ failed = FALSE
    /\ stream = 0 /\ installed = 0 /\ opened = 0 /\ open = {}
    /\ stopped = FALSE
    /\ stopping = [f \in Frames |-> "no"] /\ seen = [f \in Frames |-> 0]
    /\ condition = {} /\ eventLock = "none" /\ callLock = "none"

\* A handler has interrupted run().
Active(f) == stopping[f] \notin {"no", "done"}
Interrupted == SignalHandler /\ \E s \in Stoppers : Active(s)
Runs(f) == f = "main" => ~Interrupted

Free(f) == \A g \in condition : Thread(g) = Thread(f)

-----------------------------------------------------------------------------
(* stop(). *)

Move(f, from, to) == stopping[f] = from /\ stopping' = [stopping EXCEPT ![f] = to]

\* Somebody calls stop(), or a signal arrives while the process is running.
Call(s) ==
    /\ SignalHandler => pc # "returned"
    /\ Move(s, "no", "lock")
    /\ UNCHANGED <<run, shared, seen, locks>>

\* with self.condition
StopLock(f) ==
    /\ Move(f, "lock", "set") /\ Free(f)
    /\ condition' = condition \cup {f}
    /\ UNCHANGED <<run, shared, seen, eventLock, callLock>>

\* Event.set: the lock, the flag, and the lock again.
SetLock(f) ==
    /\ Move(f, "set", "flag") /\ eventLock = "none"
    /\ eventLock' = f
    /\ UNCHANGED <<run, shared, seen, condition, callLock>>

SetFlag(f) ==
    /\ Move(f, "flag", "read")
    /\ stopped' = TRUE /\ eventLock' = "none"
    /\ UNCHANGED <<run, installed, open, seen, condition, callLock>>

\* The stream and the operations are read under the lock ...
ReadStream(f) ==
    /\ Move(f, "read", "cancel")
    /\ seen' = [seen EXCEPT ![f] = installed]
    /\ condition' = condition \ {f}
    /\ UNCHANGED <<run, shared, eventLock, callLock>>

\* ... and cancelled and aborted after it.
CancelStream(f) ==
    /\ Move(f, "cancel", "abort")
    /\ open' = open \ {seen[f]}
    /\ UNCHANGED <<run, installed, stopped, seen, locks>>

AbortLock(f) ==
    /\ Move(f, "abort", "unlock") /\ callLock = "none"
    /\ callLock' = f
    /\ UNCHANGED <<run, shared, seen, condition, eventLock>>

AbortUnlock(f) ==
    /\ Move(f, "unlock", "done")
    /\ callLock' = "none"
    /\ UNCHANGED <<run, shared, seen, condition, eventLock>>

Stop(f) ==
    /\ Runs(f)
    /\ \/ StopLock(f) \/ SetLock(f) \/ SetFlag(f) \/ ReadStream(f)
       \/ CancelStream(f) \/ AbortLock(f) \/ AbortUnlock(f)

-----------------------------------------------------------------------------
(* call_rpc, around the RPCs of recover() and around _connect. *)

At(from, to) == pc = from /\ pc' = to

Check ==
    /\ At("check", IF stopped THEN "raised" ELSE "call")
    /\ UNCHANGED <<local, shared, locks, stops>>

\* An RPC fails within its deadline, or the last one of recover() returns.
Recover ==
    /\ \/ At("call", "failed")
       \/ stage = "recover" /\ At("call", "top")
    /\ UNCHANGED <<local, shared, locks, stops>>

\* The last error is raised; any other is followed by a delay.
Failed ==
    /\ \/ At("failed", "raised")      \* a status that cannot be retried
       \/ At("failed", IF attempt = MaxRetries \/ stopped THEN "raised" ELSE "delay")
    /\ UNCHANGED <<local, shared, locks, stops>>

\* Event.wait: the flag is looked at under the lock, which is free meanwhile ...
Delay ==
    /\ At("delay", "delaying") /\ eventLock = "none"
    /\ eventLock' = "main"
    /\ UNCHANGED <<local, shared, condition, callLock, stops>>

Delaying ==
    /\ At("delaying", IF stopped THEN "raised" ELSE "sleeping")
    /\ eventLock' = "none"
    /\ UNCHANGED <<local, shared, condition, callLock, stops>>

\* ... and taken again after the delay, or after set().
Wake ==
    /\ At("sleeping", "awake") /\ eventLock = "none"
    /\ eventLock' = "main"
    /\ UNCHANGED <<local, shared, condition, callLock, stops>>

Awake ==
    /\ \/ At("awake", "check") /\ attempt' = attempt + 1
       \/ At("awake", "raised") /\ stopped /\ UNCHANGED attempt
    /\ eventLock' = "none"
    /\ UNCHANGED <<stage, failed, stream, opened, shared, condition, callLock, stops>>

\* run()'s except clause: an error is fatal unless the Worker has been stopped.
Raised ==
    /\ At("raised", IF stopped THEN "finally" ELSE "failing")
    /\ failed' = (failed \/ ~stopped)
    /\ UNCHANGED <<stage, attempt, stream, opened, shared, locks, stops>>

Rpc == Check \/ Recover \/ Failed \/ Delay \/ Delaying \/ Wake \/ Awake \/ Raised

-----------------------------------------------------------------------------
(* _connect and the reader loop. *)

Top ==
    /\ At("top", IF stopped THEN "finally" ELSE "check")
    /\ stage' = "connect" /\ attempt' = 0
    /\ UNCHANGED <<failed, stream, opened, shared, locks, stops>>

Subscribe ==
    /\ At("call", "install") /\ stage = "connect"
    /\ opened' = opened + 1 /\ stream' = opened + 1 /\ open' = open \cup {opened + 1}
    /\ UNCHANGED <<stage, attempt, failed, installed, stopped, locks, stops>>

Late_Ignored == FALSE
Late == stopped

\* Under the condition: stop() finds the stream or _connect finds it stopped.
Install ==
    /\ pc = "install" /\ Free("main")
    /\ \/ /\ Late
          /\ pc' = "raised" /\ open' = open \ {stream} /\ stream' = 0
          /\ UNCHANGED installed
       \/ /\ ~Late
          /\ pc' = "starting" /\ installed' = stream
          /\ UNCHANGED <<open, stream>>
    /\ UNCHANGED <<stage, attempt, failed, opened, stopped, locks, stops>>

Finished_Not == open
Finished == open \ {stream}

\* wait_started: accepted, or failed within its deadline and cancelled.
Started ==
    /\ pc = "starting"
    /\ \/ stream \in open /\ pc' = "reading" /\ UNCHANGED open
       \/ /\ stream \in open => opened < MaxStreams
          /\ pc' = "clear" /\ open' = Finished
    /\ UNCHANGED <<stage, attempt, failed, stream, opened, installed, stopped, locks, stops>>

\* The stream is forgotten, under the condition.
Clear ==
    /\ pc \in {"clear", "clear_read"} /\ Free("main")
    /\ pc' = IF pc = "clear" THEN "failed" ELSE "top"
    /\ installed' = 0 /\ stream' = 0
    /\ UNCHANGED <<stage, attempt, failed, opened, open, stopped, locks, stops>>

\* The next response, of which the reader may have to abort a Provider call.
Response ==
    /\ stream \in open
    /\ At("reading", "message")
    /\ UNCHANGED <<local, shared, locks, stops>>

\* The reader stops, handles the message, or finds that it breaks the protocol.
Message ==
    /\ \/ stopped /\ At("message", "drop") /\ UNCHANGED failed
       \/ ~stopped /\ (At("message", "reading") \/ At("message", "abort")) /\ UNCHANGED failed
       \/ ~stopped /\ At("message", "failing") /\ failed' = TRUE
    /\ UNCHANGED <<stage, attempt, stream, opened, shared, locks, stops>>

ReaderAbort ==
    /\ \/ At("abort", "aborting") /\ callLock = "none" /\ callLock' = "main"
       \/ At("aborting", "reading") /\ callLock' = "none"
    /\ UNCHANGED <<local, shared, condition, eventLock, stops>>

\* OpenEvent ends the stream.
StreamEnds ==
    /\ pc = "reading" /\ stream \in open /\ opened < MaxStreams
    /\ open' = open \ {stream}
    /\ UNCHANGED <<run, installed, stopped, locks, stops>>

\* next() raises or the iteration ends: stopped, a reconnection, or a fatal error.
Ended ==
    /\ stream \notin open
    /\ \/ At("reading", "drop") /\ UNCHANGED failed
       \/ At("reading", "failing") /\ ~stopped /\ failed' = TRUE
    /\ UNCHANGED <<stage, attempt, stream, opened, shared, locks, stops>>

DropStream ==
    /\ At("drop", "clear_read")
    /\ open' = Finished
    /\ UNCHANGED <<stage, attempt, failed, stream, opened, installed, stopped, locks, stops>>

Connection ==
    \/ Top \/ Subscribe \/ Install \/ Started \/ Clear
    \/ Message \/ ReaderAbort \/ Ended \/ DropStream

-----------------------------------------------------------------------------
(* _fail and the end of run(): both call stop(). *)

BeginStop ==
    /\ pc \in {"failing", "finally"} /\ Move("main", "no", "lock")
    /\ UNCHANGED <<run, shared, seen, locks>>

EndStop ==
    /\ pc \in {"failing", "finally"} /\ Move("main", "done", "no")
    /\ pc' = CASE pc = "finally" -> "returned"
               [] pc = "failing" /\ stream # 0 -> "drop"
               [] pc = "failing" /\ stream = 0 -> "finally"
    /\ UNCHANGED <<local, shared, seen, locks>>

Main == ~Interrupted /\ (Rpc \/ Connection \/ BeginStop \/ EndStop)

Incoming == ~Interrupted /\ (Response \/ StreamEnds)

Done == pc = "returned" /\ (\A s \in Stoppers : ~Active(s)) /\ UNCHANGED vars

Next ==
    \/ Main \/ Incoming \/ Done
    \/ \E s \in Stoppers : Call(s)
    \/ \E f \in Frames : Stop(f)

\* Every thread goes on; RPCs, delays and wait_started come to an end.  Nothing
\* is assumed of what the stream delivers, or of when it ends.
Spec ==
    /\ Init /\ [][Next]_vars
    /\ WF_vars(Main)
    /\ \A f \in Frames : WF_vars(Stop(f))

-----------------------------------------------------------------------------
(* Properties. *)

\* A Subscribe that is retried or given up leaves no stream behind, whenever
\* stop() comes: there is never more than one, and none when run() has returned.
NoCompetingStreams ==
    /\ open \subseteq {stream}
    /\ pc = "returned" => open = {}

\* Once stop() has been called run() returns: it is not left reading a stream
\* that stop() did not see (_connect), not left in a delay or in a lock, and it
\* begins no other round.
StopEndsRun == \A s \in Stoppers : stopping[s] # "no" ~> pc = "returned"
=============================================================================
