---------------------------- MODULE Subscription ----------------------------
(***************************************************************************)
(* The consumer's side: an OpenAI client of the SDK, whose calls share one *)
(* Subscription.  Every create() runs in a thread of its own, every stream *)
(* may be closed by several threads, and one reader thread follows the log *)
(* of the channel.                                                         *)
(*                                                                         *)
(* A step is a section of code run under Subscription.condition together   *)
(* with the thread-local code after it.  A thread that waits on the        *)
(* condition sleeps until somebody notifies it.  The publications are      *)
(* those of PublishContract: they commit at most once and perhaps late.    *)
(* X_... is X with a plausible bug; only the README's table refers to it.  *)
(***************************************************************************)
EXTENDS LlmMessages

CONSTANTS
    StreamingKeys,    \* the calls made with stream=True
    Closers,          \* the threads that may close a stream
    MaxSeq,           \* bound: messages in the log
    MaxRetries,       \* max_retries, for the reader's connections
    MaxFaults,        \* bound: failed RPCs, broken streams and wrong replies
    Noise             \* other messages met: subset of NoiseKinds

NoiseKinds == {"system", "invalid", "astray"}

ASSUME SubscriptionAssumption ==
    /\ StreamingKeys \subseteq Keys
    /\ 0 \notin Closers
    /\ MaxSeq \in Nat /\ MaxRetries \in Nat /\ MaxFaults \in Nat
    /\ Noise \subseteq NoiseKinds

VARIABLES
    log,          \* the committed messages
    sent,         \* publications that may still commit: call and kind
    failed,       \* Subscription.error, and the event failed set with it
    ready,        \* initial_from_seq is known
    preparing,    \* Subscription.preparing
    anchor,       \* max_seq of the status that prepare() has read
    lastSeen,     \* last_seen_seq
    byUuid,       \* calls in calls_by_uuid
    bySeq,        \* calls in receives_by_seq, under their receive.request_seq
    call,         \* the Call objects
    app,          \* by call: where its create() or its iteration is
    closer,       \* by call and thread: where its close() is
    reader,       \* where the reader thread is
    attempt,      \* failed connections in this round
    stream,       \* the reader's Subscribe stream: none, open or cancelled
    cursor,       \* the seq it will deliver next
    active,       \* active_subscribe is set
    finishing,    \* the stage of _finish_failure
    asleep,       \* threads waiting on the condition
    taken,        \* history: what next_message returned, by call
    cancels,      \* history: cancel publications begun, by call
    callbacks,    \* history: calls of on_error
    faults        \* history: faults so far

server == <<log, sent>>
shared == <<failed, ready, preparing, anchor, lastSeen, byUuid, bySeq>>
connection == <<reader, attempt, stream, cursor, active>>
history == <<taken, cancels, callbacks, faults>>
vars == <<server, shared, call, app, closer, connection, finishing, asleep, history>>

-----------------------------------------------------------------------------
(* Call and ReceiveState. *)

Entries == [seq : 1..MaxSeq, fault : BOOLEAN]

Call == [request_seq : 0..(MaxSeq + 1), receive : 0..MaxSeq, chain_seq : 0..MaxSeq,
         head_seen : BOOLEAN, terminal : BOOLEAN, queue : Seq(Entries),
         error : BOOLEAN, local_closed : BOOLEAN, close : {"no", "started", "done"}]

NewCall == [request_seq |-> 0, receive |-> 0, chain_seq |-> 0, head_seen |-> FALSE,
            terminal |-> FALSE, queue |-> <<>>, error |-> FALSE, local_closed |-> FALSE,
            close |-> "no"]

\* create(): not called yet; before it has a Call, when the subscription may refuse
\* it, and where it may wait for the thread that prepares; while it publishes; when
\* it waits for messages or its stream has been handed out, and the ends of that:
\* the outcome was returned, the call failed, it was closed.
Opening == {"new", "prepare", "status", "start", "unprepared", "failing", "begin", "refused"}
HandedOut == {"next", "done", "failed", "stopped"}
AppLabels == Opening \cup {"uuid", "register", "gate", "sent", "abandon", "disputed",
                           "return", "raised"} \cup HandedOut
CloserLabels == {"idle", "waiting", "gate", "sent", "finish", "closed"}
ReaderLabels == {"off", "connect", "subscribed", "starting", "reading", "waiting", "bad",
                 "parsed", "lost", "failing", "final", "ended"}

\* The calls that Subscription.calls holds.
Begun == {c \in Keys : app[c] \notin Opening}

Threads == Keys \X ({0} \cup Closers)
App(c) == <<c, 0>>

TypeOK ==
    /\ log \in Seq(Messages)
    /\ sent \subseteq Keys \X {"request", "cancel"}
    /\ failed \in BOOLEAN /\ ready \in BOOLEAN /\ preparing \in BOOLEAN
    /\ anchor \in Nat /\ lastSeen \in Nat
    /\ byUuid \subseteq Keys /\ bySeq \subseteq Keys
    /\ call \in [Keys -> Call]
    /\ app \in [Keys -> AppLabels]
    /\ closer \in [Keys \X Closers -> CloserLabels]
    /\ reader \in ReaderLabels
    /\ attempt \in 0..MaxRetries
    /\ stream \in {"none", "open", "cancelled"}
    /\ cursor \in Nat
    /\ active \in BOOLEAN
    /\ finishing \in {"no", "cancel", "join", "callback", "over"}
    /\ asleep \subseteq Threads
    /\ taken \in [Keys -> Seq(Entries)]
    /\ cancels \in [Keys -> Nat]
    /\ callbacks \in Nat /\ faults \in 0..MaxFaults

Init ==
    /\ log = <<>> /\ sent = {}
    /\ failed = FALSE /\ ready = FALSE /\ preparing = FALSE
    /\ anchor = 0 /\ lastSeen = 0 /\ byUuid = {} /\ bySeq = {}
    /\ call = [c \in Keys |-> NewCall]
    /\ app = [c \in Keys |-> "new"]
    /\ closer = [t \in Keys \X Closers |-> "idle"]
    /\ reader = "off" /\ attempt = 0 /\ stream = "none" /\ cursor = 0 /\ active = FALSE
    /\ finishing = "no" /\ asleep = {}
    /\ taken = [c \in Keys |-> <<>>] /\ cancels = [c \in Keys |-> 0]
    /\ callbacks = 0 /\ faults = 0

Fault == faults < MaxFaults /\ faults' = faults + 1

NotifyAll == asleep' = {}
Sleep(t) == asleep' = asleep \cup {t}
Awake(t) == t \notin asleep

-----------------------------------------------------------------------------
(* The parts of Subscription that run under the lock. *)

Detach_UuidOnly(c) == byUuid' = byUuid \ {c} /\ UNCHANGED bySeq
Detach(c) == byUuid' = byUuid \ {c} /\ bySeq' = bySeq \ {c}

Invalidated(r) == [r EXCEPT !.queue = <<>>, !.error = TRUE, !.local_closed = TRUE]

Failed_Everyone(r) == IF r.local_closed THEN r ELSE [r EXCEPT !.error = TRUE]
\* The error reaches every open call that has not got its terminal message.
Failed(r) == IF r.local_closed \/ r.terminal THEN r ELSE [r EXCEPT !.error = TRUE]

\* _fail_locked, the calls being as given by cs; the thread that gets here first
\* will clean up, with the stream that is active at that moment.
FailLocked(cs, handle) ==
    /\ ~failed /\ failed' = TRUE
    /\ call' = [c \in Keys |-> IF c \in Begun THEN Failed(cs[c]) ELSE cs[c]]
    /\ byUuid' = {} /\ bySeq' = {}
    /\ finishing' = IF handle THEN "cancel" ELSE "join"
    /\ NotifyAll
    /\ UNCHANGED <<ready, anchor, lastSeen>>

Goto(c, label) == app' = [app EXCEPT ![c] = label]

-----------------------------------------------------------------------------
(* create(): prepare, begin, publish. *)

\* The first thread prepares; the others wait for it, and look again when notified.
Prepare(c) ==
    /\ app[c] \in {"new", "prepare"} /\ Awake(App(c))
    /\ \/ failed /\ Goto(c, "refused") /\ UNCHANGED <<preparing, asleep>>
       \/ ~failed /\ ready /\ Goto(c, "begin") /\ UNCHANGED <<preparing, asleep>>
       \/ ~failed /\ ~ready /\ ~preparing
          /\ preparing' = TRUE /\ Goto(c, "status") /\ UNCHANGED asleep
       \/ ~failed /\ ~ready /\ preparing
          /\ Goto(c, "prepare") /\ Sleep(App(c)) /\ UNCHANGED preparing
    /\ UNCHANGED <<server, failed, ready, anchor, lastSeen, byUuid, bySeq, call, closer,
                   connection, finishing, history>>

ReadStatus(c) ==
    /\ app[c] = "status"
    /\ \/ anchor' = Len(log) /\ Goto(c, "start") /\ UNCHANGED faults
       \/ Fault /\ Goto(c, "unprepared") /\ UNCHANGED anchor
    /\ UNCHANGED <<server, failed, ready, preparing, lastSeen, byUuid, bySeq, call, closer,
                   connection, finishing, asleep, taken, cancels, callbacks>>

Prepared_Quiet == preparing' = FALSE /\ UNCHANGED asleep
\* The finally of prepare(): whoever waits for it looks again.
Prepared == preparing' = FALSE /\ NotifyAll

\* The reader starts; it cannot connect before the replay anchor is set.
StartReader(c) ==
    /\ app[c] = "start"
    /\ ready' = TRUE /\ lastSeen' = anchor /\ reader' = "connect"
    /\ Prepared
    /\ Goto(c, "begin")
    /\ UNCHANGED <<server, failed, anchor, byUuid, bySeq, call, closer, attempt, stream,
                   cursor, active, finishing, history>>

\* reader.start() raises: this create() fails, the subscription does not, and the
\* next thread prepares again.
StartFails(c) ==
    /\ app[c] = "start" /\ Fault
    /\ Prepared
    /\ Goto(c, "refused")
    /\ UNCHANGED <<server, failed, ready, anchor, lastSeen, byUuid, bySeq, call, closer,
                   connection, finishing, taken, cancels, callbacks>>

\* The status cannot be read; _fail_locked notifies as the finally does.
FailPrepare(c) ==
    /\ app[c] = "unprepared"
    /\ FailLocked(call, active)
    /\ preparing' = FALSE
    /\ Goto(c, "failing")
    /\ UNCHANGED <<server, closer, connection, history>>

\* A step of create() that touches nothing shared: on to label, or to the other
\* label when the subscription has failed.
Unless(c, from, label, otherwise) ==
    /\ app[c] = from
    /\ Goto(c, IF failed THEN otherwise ELSE label)
    /\ UNCHANGED <<server, shared, call, closer, connection, finishing, asleep, history>>

Begin(c) == Unless(c, "begin", "uuid", "refused")

\* get_uuid, which may also fail.
Draw(c) == Unless(c, "uuid", "register", "abandon") \/ Unless(c, "uuid", "abandon", "abandon")

Register(c) ==
    /\ app[c] = "register"
    /\ \/ failed /\ Goto(c, "abandon") /\ UNCHANGED byUuid
       \/ ~failed /\ Goto(c, "gate") /\ byUuid' = byUuid \cup {c}
    /\ UNCHANGED <<server, failed, ready, preparing, anchor, lastSeen, bySeq, call, closer,
                   connection, finishing, asleep, history>>

\* The seq of the request of c, 0 while it is not in the log.
SeqOf(c) == Earliest({i \in DOMAIN log : log[i].kind = "request" /\ log[i].key = c})

\* begin_publication_rpc, then the attempt.
Gate(c) ==
    /\ app[c] = "gate"
    /\ \/ failed /\ Goto(c, "abandon") /\ UNCHANGED sent
       \/ ~failed /\ Goto(c, "sent")
          /\ sent' = IF SeqOf(c) = 0 THEN sent \cup {<<c, "request">>} ELSE sent
    /\ UNCHANGED <<log, shared, call, closer, connection, finishing, asleep, history>>

\* No usable answer: another attempt, or the publication is given up.
NoAnswer(c) ==
    /\ app[c] = "sent"
    /\ \/ ~failed /\ Fault /\ Goto(c, "gate")
       \/ Goto(c, "abandon") /\ UNCHANGED faults
    /\ UNCHANGED <<server, shared, call, closer, connection, finishing, asleep, taken,
                   cancels, callbacks>>

Abandon(c) ==
    /\ app[c] = "abandon"
    /\ call' = [call EXCEPT ![c] = [NewCall EXCEPT !.local_closed = TRUE]]
    /\ Detach(c) /\ NotifyAll
    /\ Goto(c, "raised")
    /\ UNCHANGED <<server, failed, ready, preparing, anchor, lastSeen, closer, connection,
                   finishing, history>>

AfterPublishing(c) == IF c \in StreamingKeys THEN "return" ELSE "next"

Disagrees_Never(r) == FALSE
\* The request was seen in the log under another seq.
Disagrees(r) == r.receive # 0 /\ r.receive # r.request_seq

\* publish_request has returned a seq: published().
Published(c, seq) ==
    LET r == [call[c] EXCEPT !.request_seq = seq]
    IN  /\ app[c] = "sent" /\ SeqOf(c) # 0
        /\ \/ seq = SeqOf(c) /\ UNCHANGED faults
           \/ seq = MaxSeq + 1 /\ Fault
        /\ \/ /\ ~Disagrees(r)
              /\ call' = [call EXCEPT ![c] = r]
              /\ Goto(c, AfterPublishing(c)) /\ NotifyAll
              /\ UNCHANGED <<shared, finishing>>
           \/ /\ Disagrees(r) /\ failed
              /\ call' = [call EXCEPT ![c] = Invalidated(r)]
              /\ Goto(c, AfterPublishing(c)) /\ NotifyAll
              /\ UNCHANGED <<shared, finishing>>
           \/ /\ Disagrees(r)
              /\ FailLocked([call EXCEPT ![c] = Invalidated(r)], active)
              /\ Goto(c, "disputed") /\ UNCHANGED preparing
        /\ UNCHANGED <<server, closer, connection, taken, cancels, callbacks>>

\* check_stream_return, before create() hands out the stream.
Return(c) ==
    /\ app[c] = "return"
    /\ Goto(c, IF call[c].queue = <<>> /\ call[c].error THEN "raised" ELSE "next")
    /\ UNCHANGED <<server, shared, call, closer, connection, finishing, asleep, history>>

\* The message ends the iteration, or is all that an ordinary call waits for.
Ending(c, entry) ==
    \/ entry.fault \/ c \notin StreamingKeys
    \/ log[entry.seq].kind \in {"end", "cancel"}
    \/ log[entry.seq].kind = "result" /\ log[entry.seq].body

NextMessage(c) ==
    /\ app[c] = "next" /\ Awake(App(c))
    /\ LET r == call[c]
       IN  \/ /\ r.queue # <<>>
              /\ call' = [call EXCEPT ![c].queue = Tail(@)]
              /\ taken' = [taken EXCEPT ![c] = Append(@, Head(r.queue))]
              /\ Goto(c, IF Ending(c, Head(r.queue)) THEN "done" ELSE "next")
              /\ UNCHANGED asleep
           \/ /\ r.queue = <<>> /\ (r.error \/ r.local_closed)
              /\ Goto(c, IF r.error THEN "failed" ELSE "stopped")
              /\ UNCHANGED <<call, taken, asleep>>
           \/ /\ r.queue = <<>> /\ ~r.error /\ ~r.local_closed
              /\ Sleep(App(c))
              /\ UNCHANGED <<call, taken, app>>
    /\ UNCHANGED <<server, shared, closer, connection, finishing, cancels, callbacks, faults>>

-----------------------------------------------------------------------------
(* _close_call: several threads may close one stream. *)

\* The first closer takes the close upon itself.
Claimed(r) == [r EXCEPT !.close = "started", !.local_closed = TRUE]

CancelDue_Complete(r) == ~failed
\* The server has to be told only of a call that is not complete.
CancelDue(r) == ~failed /\ ~r.terminal

CloseGoto(c, k, label) == closer' = [closer EXCEPT ![<<c, k>>] = label]

Close(c, k) ==
    /\ c \in StreamingKeys /\ app[c] \in HandedOut
    /\ closer[<<c, k>>] \in {"idle", "waiting"} /\ Awake(<<c, k>>)
    /\ LET r == call[c]
       IN  \/ /\ r.close = "started"
              /\ CloseGoto(c, k, "waiting") /\ Sleep(<<c, k>>)
              /\ UNCHANGED <<call, byUuid, bySeq>>
           \/ /\ r.close = "done" /\ CloseGoto(c, k, "closed")
              /\ UNCHANGED <<call, byUuid, bySeq, asleep>>
           \/ /\ r.close = "no"
              /\ call' = [call EXCEPT ![c] = Claimed(r)]
              /\ Detach(c) /\ NotifyAll
              /\ CloseGoto(c, k, IF CancelDue(r) THEN "gate" ELSE "finish")
    /\ UNCHANGED <<server, failed, ready, preparing, anchor, lastSeen, app, connection,
                   finishing, history>>

\* publish_cancel: refused, without a UUID, or sent.
CloseGate(c, k) ==
    /\ closer[<<c, k>>] = "gate"
    /\ \/ CloseGoto(c, k, "finish") /\ UNCHANGED <<sent, cancels>>
       \/ /\ ~failed
          /\ CloseGoto(c, k, "sent")
          /\ sent' = sent \cup {<<c, "cancel">>}
          /\ cancels' = [cancels EXCEPT ![c] = @ + 1]
    /\ UNCHANGED <<log, shared, call, app, connection, finishing, asleep, taken, callbacks,
                   faults>>

\* Its publication has a conclusion.
CloseAnswer(c, k) ==
    /\ closer[<<c, k>>] = "sent" /\ CloseGoto(c, k, "finish")
    /\ UNCHANGED <<server, shared, call, app, connection, finishing, asleep, history>>

CloseFinish_Quiet(c, k) ==
    /\ closer[<<c, k>>] = "finish" /\ CloseGoto(c, k, "closed")
    /\ call' = [call EXCEPT ![c].close = "done"]
    /\ UNCHANGED <<server, shared, app, connection, finishing, asleep, history>>

CloseFinish(c, k) ==
    /\ closer[<<c, k>>] = "finish" /\ CloseGoto(c, k, "closed")
    /\ call' = [call EXCEPT ![c].close = "done"]
    /\ NotifyAll
    /\ UNCHANGED <<server, shared, app, connection, finishing, history>>

-----------------------------------------------------------------------------
(* The reader: _connect and _read. *)

\* A step of the reader that changes nothing but its connection.
ReaderOnly ==
    UNCHANGED <<server, shared, call, app, closer, finishing, taken, cancels, callbacks>>

\* The end of the round, or of a reader that finds the subscription failed.
Leave(label) ==
    /\ reader' = label /\ stream' = "none" /\ active' = FALSE
    /\ UNCHANGED cursor

Unconnected_NoLimit == attempt' = attempt + 1 /\ Leave("connect")
\* call_rpc repeats a failed _connect, unless it used up its attempts or the
\* status is not retryable.
Unconnected ==
    \/ /\ attempt < MaxRetries
       /\ attempt' = attempt + 1 /\ Leave("connect")
    \/ Leave("lost") /\ UNCHANGED attempt

FirstDelivered_Tip == {Len(log) + 1}
\* The server replays from last_seen_seq, so the last message may come again.
FirstDelivered == {lastSeen, lastSeen + 1} \ {0}

Connect ==
    /\ reader = "connect"
    /\ \/ failed /\ Leave("final") /\ UNCHANGED <<attempt, faults>>
       \/ /\ ~failed
          /\ reader' = "subscribed" /\ stream' = "open"
          /\ cursor' \in FirstDelivered
          /\ UNCHANGED <<attempt, active, faults>>
       \/ ~failed /\ Fault /\ Unconnected
    /\ UNCHANGED asleep /\ ReaderOnly

Subscribed ==
    /\ reader = "subscribed"
    /\ \/ failed /\ Leave("final")
       \/ /\ ~failed
          /\ active' = TRUE /\ reader' = "starting"
          /\ UNCHANGED <<stream, cursor>>
    /\ UNCHANGED <<attempt, asleep, faults>> /\ ReaderOnly

\* wait_started, which returns, raises, or is cut short by a cancellation.
Started ==
    /\ reader = "starting"
    /\ \/ /\ stream = "open" /\ ~failed
          /\ reader' = "reading" /\ NotifyAll
          /\ UNCHANGED <<attempt, stream, cursor, active, faults>>
       \/ /\ failed /\ Leave("final")
          /\ UNCHANGED <<attempt, faults, asleep>>
       \/ /\ ~failed /\ Fault /\ Unconnected
          /\ UNCHANGED asleep
    /\ ReaderOnly

\* A round of _connect has failed.
Lost ==
    /\ reader = "lost"
    /\ \/ /\ failed /\ reader' = "final"
          /\ UNCHANGED <<shared, call, finishing, asleep>>
       \/ FailLocked(call, FALSE) /\ reader' = "failing" /\ UNCHANGED preparing
    /\ UNCHANGED <<server, app, closer, attempt, stream, cursor, active, history>>

\* The loop condition; then next(stream) blocks.
Read ==
    /\ reader = "reading"
    /\ reader' = IF failed THEN "final" ELSE "waiting"
    /\ UNCHANGED <<attempt, stream, cursor, active, asleep, faults>> /\ ReaderOnly

\* next(stream) raises: cancelled by the thread that failed, or broken.
StreamBroken ==
    /\ reader = "waiting"
    /\ \/ stream = "cancelled" /\ UNCHANGED faults
       \/ stream = "open" /\ Fault
    /\ stream' = "none" /\ active' = FALSE
    /\ \/ /\ failed /\ reader' = "final"
          /\ UNCHANGED <<shared, call, finishing, attempt, asleep>>
       \/ /\ ~failed /\ reader' = "connect" /\ attempt' = 0
          /\ NotifyAll
          /\ UNCHANGED <<shared, call, finishing>>
       \/ /\ FailLocked(call, FALSE) /\ reader' = "failing"      \* not retryable
          /\ UNCHANGED <<preparing, attempt>>
    /\ UNCHANGED <<server, app, closer, cursor, taken, cancels, callbacks>>

ReaderEnd ==
    /\ reader = "final"
    /\ Leave("ended") /\ NotifyAll
    /\ UNCHANGED <<attempt, faults>> /\ ReaderOnly

-----------------------------------------------------------------------------
(* The reader: _accept, in two sections. *)

Repeated_Never(i) == FALSE
Repeated(i) == i <= lastSeen

Receive ==
    /\ reader = "waiting" /\ stream = "open" /\ cursor \in DOMAIN log
    /\ \/ /\ failed /\ reader' = "final"
          /\ UNCHANGED <<lastSeen, cursor, asleep>>
       \/ /\ ~failed /\ Repeated(cursor)
          /\ reader' = "reading" /\ cursor' = cursor + 1
          /\ UNCHANGED <<lastSeen, asleep>>
       \/ /\ ~failed /\ ~Repeated(cursor) /\ log[cursor] = System
          /\ reader' = "reading" /\ cursor' = cursor + 1
          /\ lastSeen' = cursor /\ NotifyAll
       \/ /\ ~failed /\ ~Repeated(cursor) /\ log[cursor] # System
          /\ reader' = IF log[cursor] = Invalid THEN "bad" ELSE "parsed"
          /\ UNCHANGED <<lastSeen, cursor, asleep>>
    /\ UNCHANGED <<server, failed, ready, preparing, anchor, byUuid, bySeq, call, app, closer,
                   attempt, stream, active, finishing, history>>

BadMessage ==
    /\ reader = "bad"
    /\ \/ /\ failed /\ reader' = "final"
          /\ UNCHANGED <<shared, call, finishing, asleep>>
       \/ FailLocked(call, active) /\ reader' = "failing" /\ UNCHANGED preparing
    /\ UNCHANGED <<server, app, closer, attempt, stream, cursor, active, history>>

\* _accept_output_locked.  Ignored: later results of a stream, and everything
\* but results of an ordinary call.
Ignored(r, c, m) == IF m.kind = "result" THEN r.head_seen ELSE c \notin StreamingKeys

Faulty_FirstOnly(r, c, m) == m.kind = "append" /\ ~r.head_seen
\* It cannot be taken for the next message of the call.
Faulty(r, c, m) ==
    \/ m.kind = "result" /\ c \notin StreamingKeys /\ ~m.body
    \/ m.kind = "append" /\ (~r.head_seen \/ m.prev # r.chain_seq)

Queued(r, c, m, i) ==
    LET fault == Faulty(r, c, m)
        linked == m.kind = "append" \/ (m.kind = "result" /\ ~m.body)
    IN  [r EXCEPT !.queue = Append(@, [seq |-> i, fault |-> fault]),
                  !.head_seen = @ \/ (m.kind = "result" /\ ~fault),
                  !.chain_seq = IF linked /\ ~fault THEN i ELSE @,
                  !.terminal = \/ fault \/ m.kind \in {"end", "cancel"}
                               \/ m.kind = "result" /\ m.body]

\* An output of a request in receives_by_seq; anything else is passed over.
AcceptOutput(i) ==
    LET m == log[i]
        mine == {c \in bySeq : call[c].receive = m.ref /\ c = m.key}
        r == [c \in mine |-> Queued(call[c], c, m, i)]
        news == {c \in mine : ~Ignored(call[c], c, m)}
    IN  /\ call' = [c \in Keys |-> IF c \in news THEN r[c] ELSE call[c]]
        /\ bySeq' = bySeq \ {c \in news : r[c].terminal}
        /\ UNCHANGED byUuid

\* The request of a call that waits for it.
AcceptRequest(i) ==
    LET c == log[i].key
    IN  IF c \in byUuid
        THEN /\ call' = [call EXCEPT ![c].receive = i, ![c].chain_seq = i]
             /\ byUuid' = byUuid \ {c} /\ bySeq' = bySeq \cup {c}
        ELSE UNCHANGED <<call, byUuid, bySeq>>

\* It was published under another seq: the call and the subscription fail.
Differs(i) ==
    /\ IsRequest(log[i]) /\ log[i].key \in byUuid
    /\ call[log[i].key].request_seq \notin {0, i}

Accept ==
    /\ reader = "parsed"
    /\ \/ /\ failed /\ reader' = "final"
          /\ UNCHANGED <<shared, call, cursor, finishing, asleep>>
       \/ /\ ~failed /\ ~Differs(cursor)
          /\ IF IsRequest(log[cursor]) THEN AcceptRequest(cursor) ELSE AcceptOutput(cursor)
          /\ lastSeen' = cursor /\ cursor' = cursor + 1
          /\ reader' = "reading" /\ NotifyAll
          /\ UNCHANGED <<failed, ready, preparing, anchor, finishing>>
       \/ /\ Differs(cursor)
          /\ FailLocked([call EXCEPT ![log[cursor].key] = Invalidated(@)], active)
          /\ reader' = "failing"
          /\ UNCHANGED <<preparing, cursor>>
    /\ UNCHANGED <<server, app, closer, attempt, stream, active, history>>

-----------------------------------------------------------------------------
(* _finish_failure, in the thread that recorded the error. *)

CancelStream_Not ==
    /\ finishing = "cancel" /\ finishing' = "join"
    /\ UNCHANGED <<server, shared, call, app, closer, connection, asleep, history>>

CancelStream ==
    /\ finishing = "cancel" /\ finishing' = "join"
    /\ stream' = IF stream = "open" THEN "cancelled" ELSE stream
    /\ UNCHANGED <<server, shared, call, app, closer, reader, attempt, cursor, active,
                   asleep, history>>

Join_Skipped ==
    /\ finishing = "join" /\ finishing' = "callback"
    /\ UNCHANGED <<server, shared, call, app, closer, connection, asleep, history>>

Join ==
    /\ finishing = "join" /\ finishing' = "callback"
    /\ reader \in {"off", "failing", "ended"}
    /\ UNCHANGED <<server, shared, call, app, closer, connection, asleep, history>>

\* on_error; then the thread goes on.
Callback ==
    /\ finishing = "callback" /\ finishing' = "over"
    /\ callbacks' = callbacks + 1
    /\ reader' = IF reader = "failing" THEN "final" ELSE reader
    /\ app' = [c \in Keys |->
          CASE app[c] = "failing" -> "refused"
            [] app[c] = "disputed" -> AfterPublishing(c)
            [] OTHER -> app[c]]
    /\ UNCHANGED <<server, shared, call, closer, attempt, stream, cursor, active, asleep,
                   taken, cancels, faults>>

-----------------------------------------------------------------------------
(* OpenEvent and the other members of the channel. *)

Write(m) ==
    /\ Len(log) < MaxSeq
    /\ log' = Append(log, m)
    /\ UNCHANGED <<shared, call, app, closer, connection, finishing, asleep, history>>

Commit(p) ==
    /\ p \in sent /\ sent' = sent \ {p}
    /\ Write(IF p[2] = "request" THEN Request(p[1], p[1] \in StreamingKeys, "ok")
             ELSE Cancel(p[1], call[p[1]].request_seq))

\* Any member may write any output for a request, with a right or a wrong link.
WriteOutput(c) ==
    /\ SeqOf(c) # 0
    /\ LET s == SeqOf(c)
           tail == ChainTail(log, s, Len(log))
       IN  \/ \E body \in BOOLEAN : Write(Result(c, s, body, Http))
           \/ \E prev \in {tail, s} : Write(AppendEvent(c, s, prev))
           \/ Write(End(c, s, Http))
           \/ Write(Cancel(c, s))
    /\ UNCHANGED sent

WriteNoise(n) ==
    /\ \/ n = "system" /\ Write(System)
       \/ n = "invalid" /\ Write(Invalid)
       \/ n = "astray" /\ \E c, d \in Keys :
             c # d /\ SeqOf(d) # 0 /\ Write(Result(c, SeqOf(d), TRUE, Http))
    /\ UNCHANGED sent

-----------------------------------------------------------------------------

Answer(c) == NoAnswer(c) \/ \E seq \in 1..(MaxSeq + 1) : Published(c, seq)

\* A create() that has begun.
AppStep(c) ==
    \/ app[c] = "prepare" /\ Prepare(c)
    \/ ReadStatus(c) \/ StartReader(c) \/ StartFails(c) \/ FailPrepare(c) \/ Begin(c)
    \/ Draw(c) \/ Register(c) \/ Gate(c) \/ Answer(c) \/ Abandon(c) \/ Return(c)
    \/ NextMessage(c)

\* A close() that has begun.
CloserStep(c, k) ==
    \/ closer[<<c, k>>] = "waiting" /\ Close(c, k)
    \/ CloseGate(c, k) \/ CloseAnswer(c, k) \/ CloseFinish(c, k)

ReaderStep ==
    \/ Connect \/ Subscribed \/ Started \/ Lost \/ Read \/ StreamBroken \/ ReaderEnd
    \/ Receive \/ BadMessage \/ Accept

Finish == CancelStream \/ Join \/ Callback

Next ==
    \/ \E c \in Keys : Prepare(c) \/ AppStep(c)
    \/ \E c \in Keys, k \in Closers : Close(c, k) \/ CloserStep(c, k)
    \/ ReaderStep
    \/ Finish
    \/ \E p \in sent : Commit(p)
    \/ \E c \in Keys : WriteOutput(c)
    \/ \E n \in Noise : WriteNoise(n)

Spec == Init /\ [][Next]_vars
=============================================================================
