---------------------------- MODULE ShutdownProofs ----------------------------
(***************************************************************************)
(* A Worker has at most one open stream and none when run() has returned,  *)
(* for any number of stop() calls, retries and reconnections, by threads   *)
(* or by a signal handler.                                                 *)
(***************************************************************************)
EXTENDS Shutdown, TLAPS

\* Before _connect has a stream, and once run() has given it up, its local
\* variable holds none.
NoStream == {"check", "call", "failed", "raised", "delay", "delaying", "sleeping",
             "awake", "top", "finally", "returned"}

\* Where run() has finished its stream but still refers to it.
Given == {"clear", "clear_read"}

\* The inductive invariant: the only stream that may be open is run()'s own, which
\* is a stream that was opened.
SInv ==
    /\ opened \in Nat
    /\ open \subseteq {stream} /\ 0 \notin open
    /\ pc \in NoStream => stream = 0
    /\ pc \in Given => open = {}

\* stop() cancels what it has seen and changes nothing that run() knows.
LEMMA StopKeeps == ASSUME SInv, NEW f, Stop(f) PROVE SInv'
  <1>1. pc' = pc /\ UNCHANGED <<opened, stream>> /\ open' \subseteq open
    BY DEF Stop, StopLock, SetLock, SetFlag, ReadStream, CancelStream, AbortLock, AbortUnlock,
           run, local, shared
  <1>2. QED
    BY <1>1 DEF SInv

\* Without a stream call_rpc and recover() do not get one.
LEMMA RpcKeeps == SInv /\ Rpc => SInv'
  <1> SUFFICES ASSUME SInv, Rpc PROVE SInv'
    OBVIOUS
  <1>1. pc \in NoStream /\ pc' \in NoStream \cup {"failing"}
    BY DEF Rpc, Check, Recover, Failed, Delay, Delaying, Wake, Awake, Raised, At, NoStream
  <1>2. UNCHANGED <<opened, stream, open>>
    BY DEF Rpc, Check, Recover, Failed, Delay, Delaying, Wake, Awake, Raised, local, shared
  <1>3. QED
    BY <1>1, <1>2 DEF SInv, NoStream, Given

\* A new stream is opened only without another; it is finished before it is
\* forgotten.
LEMMA ConnectionKeeps == SInv /\ Connection => SInv'
  <1> SUFFICES ASSUME SInv, Connection PROVE SInv'
    OBVIOUS
  <1> USE DEF SInv, NoStream, Given
  <1>1. CASE Top
    BY <1>1 DEF Top, At, shared
  <1>2. CASE Subscribe
    <2>1. stream = 0 /\ open = {}
      BY <1>2 DEF Subscribe, At
    <2>2. opened' = opened + 1 /\ stream' = opened + 1 /\ open' = {opened + 1} /\ pc' = "install"
      BY <1>2, <2>1 DEF Subscribe, At
    <2>3. QED
      BY <2>2
  <1>3. CASE Install
    BY <1>3 DEF Install
  <1>4. CASE Started
    BY <1>4 DEF Started, Finished
  <1>5. CASE Clear
    BY <1>5 DEF Clear
  <1>6. CASE Message
    BY <1>6 DEF Message, At, shared
  <1>7. CASE ReaderAbort
    BY <1>7 DEF ReaderAbort, At, local, shared
  <1>8. CASE Ended
    BY <1>8 DEF Ended, At, shared
  <1>9. CASE DropStream
    BY <1>9 DEF DropStream, At, Finished
  <1>10. QED
    BY <1>1, <1>2, <1>3, <1>4, <1>5, <1>6, <1>7, <1>8, <1>9 DEF Connection

\* The other steps of run(), and those of the stream.
LEMMA RestKeeps == SInv /\ (BeginStop \/ EndStop \/ Response \/ StreamEnds \/ Done) => SInv'
  <1> SUFFICES ASSUME SInv, BeginStop \/ EndStop \/ Response \/ StreamEnds \/ Done
               PROVE  SInv'
    OBVIOUS
  <1>1. CASE BeginStop \/ Response \/ StreamEnds \/ Done
    BY <1>1 DEF BeginStop, Response, StreamEnds, Done, At, SInv, NoStream, Given,
                run, local, shared, vars
  <1>2. CASE EndStop
    BY <1>2 DEF EndStop, SInv, NoStream, Given, local, shared
  <1>3. QED
    BY <1>1, <1>2

\* The invariant, by threads or handlers, for all retries and reconnections.
THEOREM StreamsInvariance == Spec => []SInv
  <1>1. Init => SInv
    BY DEF Init, SInv, Given
  <1>2. SInv /\ [Next]_vars => SInv'
    <2> SUFFICES ASSUME SInv, [Next]_vars PROVE SInv'
      OBVIOUS
    <2>1. CASE UNCHANGED vars
      BY <2>1 DEF SInv, vars, run, local, shared
    <2>2. CASE Next
      <3>1. ASSUME NEW s \in Stoppers, Call(s) PROVE SInv'
        BY <3>1 DEF Call, SInv, run, local, shared
      <3>2. QED
        BY <2>2, <3>1, StopKeeps, RpcKeeps, ConnectionKeeps, RestKeeps DEF Next, Main, Incoming
    <2>3. QED
      BY <2>1, <2>2
  <1>3. QED
    BY <1>1, <1>2, PTL DEF Spec

\* There is never a second stream, and none after run() has returned: a retried
\* Subscribe, a lost connection and a stop() at any time leave nothing behind.
THEOREM OneStream == Spec => []NoCompetingStreams
  <1>1. SInv => NoCompetingStreams
    BY DEF SInv, NoCompetingStreams, NoStream
  <1>2. QED
    BY <1>1, StreamsInvariance, PTL
=============================================================================
