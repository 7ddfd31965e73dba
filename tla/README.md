# Formal models of the Model Proxy

The repository has two programs that talk through an append-only OpenEvent log.
The **Worker** (`src/src/openevent/model_proxy`) reads `infer.request` messages
from a channel, calls a model provider over HTTP and publishes the answer as
`infer.result`, `infer.append` and `infer.end`. The **SDK**
(`src/src/openevent/model_proxy_sdk`) publishes requests, follows the log and
hands the answers to an application. Both are multi-threaded, and everything
they know of each other is the log. These modules model the control of both
programs; TLC checks them on small instances and TLAPS proves the main
invariants for every value of the constants. One run shows a deadlock of the
code, see Finding.

Line numbers below are those of the files under `src/src/openevent`.

## Inventory

| Component | State it keeps | Operations | What makes it hard |
|---|---|---|---|
| Worker (`model_proxy/worker.py`) | `requests` by seq, `originals`, queues `pending` and `controls`, `running`, `last_seen_seq`, `stopped` | `recover`, `run`, `_accept`, `_schedule`, `_provider_task`, `_control_outputs`, `_emit`, `stop`, `_fail` | four kinds of threads and one condition; nothing is persisted, so a restart rebuilds all from the log; outputs of a dead process may still commit; cancel races with the start of a call |
| Publishing (`publishing.py`) | one publication: UUID, attempt, `uncertain`, `last_error` | `_publish` and its wrappers | an attempt without an answer may be committed or may commit later; refusals after such an attempt; a stop at any time |
| RPC retries (`rpc.py`) | attempt, last error | `call_rpc` | bounds, and the stop event between attempts |
| SDK subscription (`subscription.py`) | `calls_by_uuid`, `receives_by_seq`, per call queue, `ReceiveState`, error; cursor; the reader and its stream | `prepare`, `begin`, `register`, `published`, `publication_failed`, `_read`, `_accept`, `next_message`, `_fail_locked` | messages arrive before the publication returns; reconnection; failure while a call is being made; one condition for all sleepers; a join of the reader |
| SDK client (`openai.py`) | `close_started`, `close_done` per call | `create`, iteration, `close` | several threads close one stream; a cancel is a publication of its own |
| Provider call (`provider.py`) | socket, deadline, parser state | iteration, `abort` | abort against socket installation; events split over reads; limits; deadlines that pause during publication |
| Messages (`models.py`) | none | `parse_message`, `to_payload` | validation of contents |
| Errors (`errors.py`), JSON codec (`_json.py`), configuration (`config.py`) | none | pure functions | a code passes four tables before it is an exception; groups of digits |
| Command line (`cli.py`) | none | `main` | a signal handler that runs `stop()` inside the main thread |
| OpenEvent server and client | the log | publish, fetch, subscribe, status | external: not in the tree |

The components interact in these ways. The Worker and the SDK share only the
log. Both publish through `_publish`, which runs in the thread of its caller and
calls back into it (`before_publish`, `before_rpc`, `stop_event`). The Worker's
tasks own a Provider call; `_accept`, `stop` and the task itself may abort it.
The SDK's reader and its application threads share the subscription's lock.

What makes them correct, in short: at most one Provider call per stream id ever
and one outcome per request; every request decided in the end; an output chain
that consumers can follow; slots that are neither lost nor exceeded; a
publication reported truthfully; an application that gets exactly the messages
of its call; failures that reach every waiting thread. `PROJECT.json` lists the
hazards at their lines with the properties that stand against them.

## Modules

| Module | What it is |
|---|---|
| `LlmMessages` | the messages, and the reference reading of a log: `Winner`, `ChainTail`, `Broken`, `CallStatus` |
| `Worker` | the Worker, its Provider tasks, OpenEvent, other members, crashes and restarts |
| `WorkerProperties` | its invariants and liveness, and the refinement of `CallProtocol` |
| `CallProtocol` | abstract: calls open, stream, close once; at most one Provider call per name |
| `Publishing` | one `_publish` with the server it talks to |
| `PublishContract` | abstract: at most one copy, a true conclusion |
| `Subscription` | the SDK: application threads, closers, reader, failure clean-up |
| `SubscriptionProperties` | its invariants and liveness |
| `ProviderCall` | one `ProviderCall`: sockets, TLS, deadlines, body, yields, and the threads that abort it |
| `ProviderIterator` | abstract: the iterator that a Provider task relies on |
| `Shutdown` | `run()` against `stop()`, lock by lock, by threads or by a signal handler |
| `SseParser` | the byte loop of `_sse`, and the reading of the undivided body |
| `JsonIntegers` | the digit groups of `_json.py` |
| `Outcomes` | what an application is told, from the Provider's answer through the Worker's messages to the exception |
| `MCWorker`, `MCSubscription`, `MCReaders` | constants and compositions for TLC |
| `LlmMessagesProofs` | lemmas: what one more message does to the reference reading |
| `WorkerProofs`, `WorkerLogProofs` | theorems on the Worker, the second on top of the first |
| `PublishingProofs`, `ProviderProofs`, `SubscriptionProofs`, `ShutdownProofs`, `OutcomesProofs` | theorems on the other components |

The modules meet in abstract specifications and in shared definitions. The
Worker's Provider call is the iterator of `ProviderIterator`, which
`ProviderCall` implements; the publications of Worker and SDK have the guarantees
of `PublishContract`, which `Publishing` implements; and both sides of the log are
compared with the same reference reading in `LlmMessages`: the Worker keeps what
`Winner` and `ChainTail` say, and an application receives the messages up to the
same `Winner`.

### Worker

A step is a section under `Worker.condition` with the thread-local code around
it. The thread that works for a request is `agent[s]`; its `pc` says where in
`_provider_task`, `_control_outputs` or `recover` it is:

- `begin`, `install`, `start` are the three locked sections at 290, 298 and 303;
  between them a cancel or a stop may come. `iterate` is the call itself,
  `emit` and `publish` are before and after the second check of `_emit`
  (`before_publish`), `finally` is the last block of the task.
- `Accept` is `_accept`: `Track` for a request, `Observed` for an output or a
  cancel. Its early returns are `Skipped`, its errors `Faulty`.
- `inflight` holds what has been sent and may commit at any later time, also
  after its process has died: `Commit` belongs to the server.
- `Crash` forgets everything but the log; `Restart`, `Scan`, `RecoverRequest`
  and `GoLive` are `recover`. `Connect`, `Disconnect`, `Deliver`,
  `DeliverAgain` and `DeliverFault` are the loop of `run`; a stream is reopened
  at `last_seen_seq`, so the last message may be delivered twice.
- `PublishFail` covers every way in which `_emit` raises: the publication may
  nevertheless be on its way. In the control thread the `finally` block (397-400)
  runs before `_fail` (402-403); `ControlFail` is both in one step, as no other
  section reads that the request is done before it sees that the Worker stops.
- `PublishNoise` is what other members write. For a request they may write an
  output that breaks its chain (`Foreign`), or, while it is undecided, an outcome of
  it (`ForeignOutcome`), which `_accept` takes like the Worker's own: it ends the
  request and drops the body, but does not abort the call, as only a cancel does.

Abstracted: payload contents (a body is there or not; a request fits, is too
large or names an unknown provider), headers, log lines, the paging of `fetch`
and its order checks (a page is read message by message), channel validation.
`abort()` is effective when `_accept` or `stop` decide it. An operation that was
stopped before its first step is counted as a Provider call, which only makes
the properties stronger. Stopping and leaving `run` are the two steps `Stop` and
`Exit`; closing the Subscribe stream is part of them. The waits on `Worker.condition`
are guards of the steps that follow them: a thread whose condition holds goes on, so
a missing `notify_all` in the Worker would not be noticed here. In `Subscription`,
where such a thread sleeps until it is notified, it would (`NoLostWakeup`).

### Publishing

`phase` is the loop: `draw` (`call_rpc` around `get_uuid`), `publish` (the loop
of `_publish` itself), `query` (`call_rpc` around `get_seq_by_uuid`). `pc` is the
place in it: the check of `stop_event` and `before_rpc`, the attempt, the delay.
`Arrive` belongs to the server: an attempt may arrive long after its caller has
given it up, and only a caller that still waits for that very attempt learns
the verdict. The classes of statuses are `ok`, `exists`, `denied`
(`_NOT_COMMITTED`) and everything else.

### Subscription

`app[c]` is the thread that runs `create()` for call `c` and then iterates;
`closer` are threads in `_close_call`; `reader` is the thread of `_read`;
`finishing` is the stage of `_finish_failure` in the thread that recorded the
error (cancel the stream it found active, join the reader, call `on_error`).
`call[c]` is the `Call` with its `ReceiveState`; `byUuid` and `bySeq` are the two
maps. A thread in `condition.wait()` is in `asleep` until some step notifies, so
a missing `notify_all` is a missing `NotifyAll`; those that wait there are in
`create()` while another one prepares, in `next_message` and in `_close_call`.
`StartFails` is a reader thread that cannot be started. `_accept` is two steps
(`Receive` or `BadMessage`, then `Accept`) because it releases the lock to parse.

A wrong seq in the reply of a publication is one of the faults. Every publication
behaves as `PublishContract` says: `sent` holds those that may still commit. A
publication of a cancel is one step to the server; its UUID and its retries have
no other effect. Left out: contents of the request echo other than its seq (the
comparison at 330-339), the metadata of a stream, and what `make_api_error` makes
of a final message. Applications are assumed to go on iterating; that closers
close is not assumed.

### ProviderCall

`phase` is the place in `__iter__` and in what it calls: `begin`, `resolve`,
`address`, `install`, `connect`, `wrap`, `handshake` are `_connect`; `send` and `head`
are the request and `response.begin()`; `encoding`, `body` and `events` are the
readers; at `yield` the consumer has control. `io` is the place in a socket
operation: `loop` and `check` before it, `take` where `self._socket` is read,
`blocked` in the system call. `own` is the socket that the task's local variable
refers to and `socket` is `_socket`, which `abort()` may take at any time
(`AbortTake`, under the lock) and closes outside of the lock (`AbortClose`). `open`
holds the descriptors; `Wrap` moves one into a TLS socket. `End` is every way out of
the generator, with its `finally`.

Time is `left`, what remains of the deadline. `Tick` lets it pass where the code
waits: in the resolver, in a blocked operation and at a `yield`. `quiet` and
`paused` are the history that `FirstCause` needs: how long the Provider was waited
for since the last progress, and how long the consumer took.

Abstracted: several `send`s are one; HTTP parsing, decompression and JSON are the
possible outcomes of a chunk, chosen freely; each chunk of a JSON body has at
least one byte (endless empty compressed blocks and `idna` errors of a host name
are left out); a descriptor number is not reused. `other` is an exception that is
no `ProviderError`, which the Worker reports as 60007.

### Shutdown

A frame is a thread, or a signal handler in the main thread, which runs only
while the handler does not (`Interrupted`). `pc` is where `run()` is, with `call_rpc`
around the RPCs of `recover()` and around `_connect`. The condition is re-entrant;
the lock inside `Event stopped` and the lock of a Provider call are not: that is all
the difference between the two runs. `stage` says which of the two RPC loops runs.
The stream may be refused, may end or fail at any time while others are left to be
opened; the last one stays open, so that nothing but `stop()` can end `run()`.

Left out: a handler that arrives between the test of `stopped` and the assignment
of `_stream` at 415-417, under the re-entrant condition. Then `stop()` reads no
stream and `_connect` installs one after it; Python runs handlers between
bytecodes, so this is a second way in which a signal may not end `run()`.

### SseParser, JsonIntegers, Outcomes

These are functions of their input. `SseParser` has the loop variables of `_sse` as a
record and reads any body in any chunks that `read1` may return; its reference
`Expected` reads the body at once. `JsonIntegers` writes and reads an integer with
any radix, group size and limit. `Outcomes` follows one call: `Output`, `ErrorOutput`
and `Admitted` are the Worker's and `models.py`'s tables, `MakeApiError` is the SDK's;
`why` is the history that says what a message stood for. Its messages are complete
where `LlmMessages` has only one HTTP status, and its control is what the other
modules check in detail. `MCReaders` makes one run of the three: a behaviour is
about a body, an integer or a call.

## Runs

A Worker with nothing to do and a finished client stop, so deadlock is not checked
in the Worker and Subscription runs. It is in the others.

| Run | Instance | What it shows |
|---|---|---|
| `worker_crash` | 2 keys, 2 slots, 2 requests, 1 append, 1 fault and restart | one Provider call per key over restarts; the state agrees with the reference reading; recovery closes what it found |
| `worker_cancel` | 2 keys, 1 slot, every admission result, 1 cancel, 1 fault | types, and with them that no output has a code that its shape does not admit; slots, forgotten requests, bodies, abort handles, duplicates |
| `worker_hang` | 1 stream, 2 appends, 1 cancel, 1 fault, 1 foreign, system or invalid message and 1 foreign outcome, a Provider that may hang | the output chain, no self-made protocol error, the reader stops at the first message that breaks a call, the task of a cancelled request ends |
| `worker_live` | 1 key, original and duplicate, 1 fault, fair | every request is decided; `CallProtocol` is implemented |
| `publishing` | 3 retries | bounds, quiet after stop, `PublishContract` with its liveness |
| `sub_calls` | a stream and an ordinary call, noise, 1 fault, 3 messages | routing, agreement of seqs, reach of a failure, order of `on_error`, no thread sleeps in vain |
| `sub_close` | 1 stream, 2 closers, 1 fault, 4 messages | exactly the messages of the log; same outcome as the Worker's reading; one cancel, and none for a complete call; no thread sleeps in vain |
| `sub_live` | a stream and an ordinary call, 1 closer, 1 fault, fair | outcomes arrive, a failure ends every wait, also that of a `create()` for another one |
| `provider` | 2 addresses, with and without TLS, every kind of body, 2 aborting threads, a slow consumer | no socket is lost, no wait survives an abort, failures name their first cause, `ProviderIterator` with its liveness |
| `readers` | bodies of 6 bytes in all chunks; integers of 7 digits in groups of 2; 12 statuses with every end of a call | events do not depend on chunks; integers survive; the application is told the true cause |
| `stop_thread` | 2 threads stop a Worker, 1 retry, 3 streams | `run()` returns and leaves no stream |
| `stop_signal` | the same with a signal handler; expected to fail | the deadlock under Finding |

Bounds. Requests of different keys meet only in the queues and in the slots, so
two of them show every pair. What other members write is about a single request;
in `worker_hang` it is the first message of the log. One fault suffices for each
single race; faults during the handling of another are left to the theorems. Two
appends are the least that tell
"links to the last event" from "links to the first". `MaxSeq` of the Worker
bounds only where requests may be, not the log. In `Subscription` it bounds the
log: four messages are a request, headers, an append and an end; the liveness
runs have a request and one more, another request or an output, as every wait in the
program is for one message. A socket of a second address shows
every race of the first; two aborting threads show an abort that finds the socket
taken by another. Six bytes hold a byte order mark, a CR LF and a blank line that
are split; the limit of four bytes is met exactly, exceeded by one and undercut.
Twelve statuses lie on both sides of every boundary of the tables. Three streams
are a refused one, a lost one and one that is read. All bounds are guards of the
environment or of faults, never of the programs' own steps.

Fairness. Threads of a running process get to run; an RPC is answered or fails
since every attempt has a deadline and the attempts are bounded; a process that
ended is restarted; a Provider yields or fails in the end (`worker_live` only:
its deadlines are finite) or is not assumed to (`worker_hang`). In `provider` the task and the resolver go on, time passes, and an operation
ends when its timeout is over or its socket has been closed; nothing is assumed of
the Provider, which may send a byte a day, of the consumer or of who aborts. Time is
the one strong fairness (`Tick`): an operation that blocks again and again lets
time pass again and again. In `Shutdown` every frame goes on and an RPC ends; nothing
is assumed of the stream. Nothing is
assumed of requests, cancels, faults, other members, or of a publication nobody
waits for. Otherwise weak fairness is enough: no lock is contended forever in a step
that must happen.

## Faulty variants

A definition `X_...` is `X` with a plausible bug and is used by nothing else. Put in
the place of `X` it makes TLC refute the property.

| Variant | The bug | Refutes |
|---|---|---|
| `Restart_FromTip` | recovery skips the history | `AtMostOneProviderCall`, `ImplementsCallProtocol` |
| `Retired_Always` | a request is dropped before it is decided | `ViewMatchesLog` |
| `RecoverRequest_Early` | recovery closes before the history is read | `RecoveredClosed` |
| `Last_Skipped` | a task ends without its finally block | `SlotAccounting` |
| `ProviderFail_Silent` | a Provider error publishes nothing | `NoForgottenRequest`, `EveryRequestResolved` |
| `StopAll_KeepsBodies` | `stop` keeps the bodies | `BodyOwned` |
| `Aborted_Never` | a cancel or stop does not abort | `AbortReaches`, `DecidedTaskEnds` |
| `EndsStream_Rejected` | a rejected stream gets an end, with a code that no end may have | `TypeOK` (Worker) |
| `EndsStream_Recovered` | a duplicate stream found by recovery gets an end | `DuplicatesRejected` |
| `Acked_First` | every append links to the headers | `ChainIntact` |
| `Linked_First` | the reader does not follow appends | `ReaderNeverFaults` |
| `Faulty_AnyAppend` | appends are not checked | `FaultStopsReader` |
| `FailedAttempt_NoLimit` | the last attempt is repeated | `TypeOK` (Publishing) |
| `Check_Deaf` | the stop event is not looked at | `StopQuiets` |
| `Denied_Definite` | `uncertain` is ignored | `ImplementsContract` |
| `Unconnected_NoLimit` | connections are retried without end | `TypeOK` (Subscription) |
| `Detach_UuidOnly` | a call stays in `receives_by_seq` | `Routed` |
| `Disagrees_Never` | `published` does not compare | `SeqsAgree` |
| `Failed_Everyone` | a failure hits complete calls | `FailureReaches` |
| `Join_Skipped` | the reader is not joined | `CallbackLast` |
| `Repeated_Never` | replayed messages are accepted | `ReadsLog` |
| `Faulty_FirstOnly` | links are not compared | `OneOutcome` |
| `CancelDue_Complete` | the closer does not look whether the call is complete | `OneCancel` |
| `Prepared_Quiet` | the thread that prepared does not notify | `NoLostWakeup` |
| `CancelStream_Not` | the active stream is not cancelled | `FailureEndsAll` |
| `FirstDelivered_Tip` | the stream is reopened at its end | `OutcomeArrives` |
| `CloseFinish_Quiet` | the closer does not notify | `NoLostWakeup` |
| `MoreAddresses_Always` | the address loop has no end | `TypeOK` (ProviderCall) |
| `NextAddress_Leaks` | a socket that failed to connect is not closed | `SocketsClosed` |
| `Installed_Once` | the TLS socket is not installed | `AbortedIsClosed` |
| `Shifted_Not` | the deadline is not moved by a pause | `FirstCause` |
| `AfterYield_Endless` | the reader goes on after the end event | `ImplementsIterator` |
| `TooLarge_Late` | an event may have one byte too many | `EventsMatch` |
| `Joined_Fixed` | the last group counts as a full one | `IntegersSurvive` |
| `MakeApiError_StatusOnly` | the end status is not looked at | `OutcomeTold` |
| `Finished_Not` | a stream that is given up is not finished | `NoCompetingStreams` |
| `Late_Ignored` | `_connect` does not look at `stopped` | `StopEndsRun` |

## Finding

`stop_signal`: `cli.py:28` installs a handler that calls `worker.stop()`. Python runs it
in the main thread between two instructions of `run()`. `stop()` sets the event
`stopped` and aborts Provider calls, and both take a plain lock. When `run()` holds
that lock at this moment (in `stop_event.wait` between two retries, in its own
`stop()`, or while `_accept` aborts a call), the handler waits for the code it has
interrupted, for ever: the process neither reads nor ends, and a further signal
adds another such handler. `stop_thread` shows that the same calls from threads are
harmless. The counterexample uses the fairness of every step the program can take.

## Proofs

`WorkerProofs`: `Invariance` is the inductive invariant `IInv` of the Worker, for
every value of the constants: any number of keys, slots, appends, requests,
crashes. `TypeOK` and `AtMostOneProviderCall` (`TypeCorrect`, `OneCall`) follow
from it. Neither is inductive. That a key is called once rests on this: only the
first request of a key is ever queued (`QueueInv`); it is in the queue once and
no thread works for it yet; a task that has not made its call has `invoked = 0`
(`ThreadInv`); `originals` is exactly the set of keys in the part of the log that
this incarnation has processed (`OriginalsInv`); and a request with a Provider
call behind it lies in the part that recovery will read (`InvokedInv`), so after a
restart it is history and never queued.

In the second half of the module, `Slots` adds the cardinality argument: `running` changes
exactly with the set of requests whose agent has the role of a Provider task, and
the scheduler starts one only below the limit. `TaskInvs` (`TaskInvariance`) is the
invariant of a request's record together with its thread (`TaskInv`) and with its
place in the queues (`QueuedInv`): a request that waits for a task or is at the first
section of one has its body, one that is past it has a call, one that waits for its
rejection has neither; a recovery works only while the process still reads history.
`BodyOwned` and `AbortReaches` follow. `BodyOwned` is not inductive by
itself, since whether a task may still want the body depends on the queue that the
request is in, which only `QueuedInv` knows.

`LlmMessagesProofs` says how `Winner`, `ChainTail`, `Broken`, `FirstResult` and
`CallStatus` of the first `n + 1` messages follow from those of the first `n`, for any
log. The reference reading is thereby a fold over the log without a recursive
definition, and the two readers of the system are compared with it message by message.

`WorkerLogProofs` has four more invariants, each proved with the ones before it:

- `ViewInv`: the record of a request says what the reference reading says of the
  part of the log that this incarnation has processed. It holds through `_accept` in
  both roles, for history and for the live stream, and through `_retire_locked`,
  which may drop a record only when it is decided. `ViewMatchesLog` and
  `FaultStopsReader` follow (`ViewIsLog`, `FaultsStop`).
- `OwnInv`: what is in flight was sent for a request that was asked, has the shape a
  Worker may send for it (`Own`), and, in the present incarnation, has a thread that
  waits for its reply; every output in the log is such a one or was written by somebody
  else. `DuplicatesRejected` follows (`DuplicatesAnswered`).
- `ChainInv`: while a call is undecided and nobody else wrote into it, at most one
  continuation of its chain is in flight, of whatever incarnation, and it fits the tail
  of the log; and a task that has not published has the tail as its `writer`. This
  rests on `AtMostOneProviderCall`: two incarnations never work on one chain, so an
  attempt of a dead process that commits late still fits. `ChainIntact` follows
  (`ChainsStayIntact`), and with `ViewInv` `ReaderNeverFaults` (`OwnOutputsNeverFault`):
  the reader's own check of links can fail only for an output that no Worker sends.
- `OverInv`: a thread is done with a request, or has the reply for a deciding output,
  only when the log decides it; a pending request is in a queue; and when the process
  is live everything that recovery found is decided. `NoForgottenRequest` and
  `RecoveredClosed` follow (`NothingForgotten`, `RecoveryCloses`), the latter with
  `RecoveringInv`: a thread of `recover` is at work only for a request that the whole
  snapshot leaves undecided, and the log does not change under it.

`CallsRefined` puts them together: under the mapping of `ImplementsCallProtocol` every
step of the Workers, the members and the server is a step of `CallProtocol` or none.
A Provider call is made for a name that was never called (`OneCall`), and a message
moves a call that is not broken one stage on (`StatusNext`).

`DuplicatesAnswered`, `NothingForgotten`, `RecoveryCloses` and `CallsRefined` assume
`"foreign" \notin Noise`: members may do everything but write outputs for a request.
A member that does so can break a call for good, or take the place of the result
that decides an ordinary request with one that has no body; the code makes no
promise then but to stop reading (`FaultsStop`). The runs that check these four
properties are without foreign outputs for the same reason. The other theorems hold
with them.

`PublishingProofs`: `PInv` says that one UUID is ever sent, that attempts on their
way are old or the present one, that while `uncertain` is false nothing but the
present attempt can have committed, and that what is concluded is true
(`NetInv`, `FateInv`); `LateInv` counts what begins after the stop event.
From it follow `PublishingTypes`, `Quiet` and `PublishRefines`: every step of
`_publish` is a step of `PublishContract` or none, for any number of retries.

`ProviderProofs`: `PInv` says who holds each socket (`SocketInv`, `AbortInv`: an open
socket of the task is in `_socket` or in the hands of an `abort()` that has not
closed it, one that is being replaced is closed, and after the first `abort()` there
is none to take), where all time has gone (`TimeInv`: `left + paused + quiet =
budget`, and wherever a failure is raised without a check there is time left), and
what can have been yielded where the generator is (`YieldInv`). None of the checked
invariants is inductive without it: `SocketsClosed` alone does not know that the
socket `_install` replaces is closed or wrapped, and `FirstCause` nothing of the
budget. From it follow `ProviderTypes`, `NoSocketLost`, `AbortWorks`, `CauseTold` and
`ProviderRefines`, the safety part of `ImplementsIterator`, for any number of
addresses, aborting threads, chunks and events and any budgets.

`SubscriptionProofs`: `SubInv` is proved for any number of calls and closing threads,
any log, retries and faults. It says that one thread prepares and that nothing can
fail while it does (`PrepInv`, so a reader is never started after `on_error`); that
`_finish_failure` runs once and where the reader is at each of its stages
(`FinishInv`); and, call by call, what the place of its thread says of the Call object
(`StageInv`), which map holds it (`RouteInv`), what is known when reply and log
disagree (`AgreeInv`), who has the error (`ErrorInv`), and that the thread with the
claim on a close is the only one that may publish (`CloseInv`). The checked invariants
need one another: `SeqsAgree` needs that a call without a request in the log has no
messages (`StageInv`) and that routed calls are open (`RouteInv`); `OneCancel` alone
does not know that two threads are never both at the gate. A step is looked at for the
calls it touches and for the others (`OtherCall`), and a failure once for all its
causes (`FailKeeps`). The type of the log rests on `Extremes`: every finite set of
seqs has a least and a greatest one, so `Earliest` and `Latest` return seqs. `TypeOK`,
`Routed`, `SeqsAgree`, `FailureReaches`, `OneCancel` and `CallbackLast` follow.
`OneCancel` also says that no cancel is sent for a complete call: the claim and the
test of `terminal` (299-302) are one section, after which the call is not routed, so
that it cannot become complete while the cancel is on its way.

`WakeInv` says of each thread in `asleep` what it still waits for (`CreateWaits`,
`IterationWaits`, `CloseWaits`) and that a thread prepares while `preparing` is
set, and one closes while `close_started` is set without `close_done`. A step that ends a reason to sleep wakes everybody, whichever thread takes it,
so `NoLostWakeup` follows for any number of threads (`NobodySleepsInVain`). With
fairness this is what `close()` needs to return; `sub_live` checks the rest, for one
closer.

On top of it `ReadInv` says what a call has read (`ReadInvariance`). Neither `ReadsLog`
nor `OneOutcome` is inductive: both look at the whole log, and the SDK keeps four fields
of a call. `Tracks` ties these to the reference reading of the messages up to
`last_seen_seq`: `receive` (the `request_seq` of its `ReceiveState`) points to the request; what has been heard is a beginning
of what is to be read, each with its rank and its verdict (`Right`); and as long as the
call is not closed it is all of it, `terminal` says whether a message that ends the call
has been met, and `head_seen` and `chain_seq` are the first result and the tail of the
chain (`Whole`). `PosInv` adds that the message under judgment is the one after
`last_seen_seq`, whatever the server replays. The proof has three parts:

- what one more message does to what is to be read (`CandidatesNext`, `ReadingNext`,
  `Ranks`), and that later messages change nothing of it (`ReadingPrefix`);
- what `_accept_output_locked` does with that message: it takes exactly those that the
  reference takes (`TakesWhatJoins`), queues them with the right verdict (`WholeNext`),
  and leaves a call that takes nothing as it is (`WholeIdle`);
- that every other step (`published`, a failure, a close, `next_message`, a reconnection,
  a commit) moves messages from the queue to the application, empties a queue from which
  nothing was taken, or touches no part of the reading (`AsideTracks`, `FailTracks`).

`ReadsLog` follows (`AlwaysReadsLog`), without its restriction to calls whose seqs agree.
`OneOutcome` follows (`AlwaysOneOutcome`) with `OutcomeRead`: of any log, the first
message that ends a call in the SDK's reading is the winner of the Worker's reading, or
breaks the call there too.

`ShutdownProofs`: `SInv` says that the only stream that may be open is the one in
`run()`'s local variable, which is empty wherever another can be opened. `OneStream`
follows for threads and handlers alike: the deadlock above is one of liveness.

`OutcomesProofs`: `TheTruthIsTold` is `OutcomeTold` for any set of statuses that
`http.client` may return, over `OSpec`, the part of `MCReaders` that is about a call. The
invariant `OInv` follows the cause through the four tables: what is still to come of a
call ends in at most one event that decides it, and in exactly one unless the call fails
(`TodoInv`, from `CallShape`); a message in the log that decides the call is given its
own cause by the SDK, and is a success only if nothing is left of an answer that does not
fail (`LogInv`); a Worker that is done, or has nothing left to publish of a whole answer,
leaves a message that decides (`DoneInv`). `CauseKnown` and `AnswerTold` compare the
tables: no Provider status is taken for a code of the Worker's (`StatusKnown`), and only
a status 2xx is a success.

The theorems assume only the named assumptions on the constants
(`ConstantsAssumption`, `RetriesAssumption`, `CallAssumption`,
`SubscriptionAssumption`, `StatusesAssumption`), which TLC evaluates on every run.

Only model-checked: all liveness (`EveryRequestResolved`, `DecidedTaskEnds`,
`StopEndsRun`, the liveness of the abstract specifications, `FailureEndsAll`,
`OutcomeArrives`), because fairness and ENABLED are out of the prover's
reach; and of `readers` `EventsMatch` and `IntegersSurvive`, which say what a recursive
function, or a fold over the bytes of a chunk or the digits of an integer, computes.
That takes induction over data, which the provers do not do. Every safety invariant of
the Worker, of `_publish`, of the subscription, of the Provider call, of stopping and of
the outcomes is proved.

## Plan

Done: the Worker, `_publish`, the subscription, the Provider call with its readers,
stopping, the codec and the table of errors. Left: Worker and SDK over one log in one
state machine. Today they meet in the reference reading of `LlmMessages` (and there by
proof: `ViewIsLog` and `AlwaysOneOutcome` are about the same `Winner` and `Broken`), in
`PublishContract` and in `Outcomes`.

## Not modelled

`config.py` validates one document before anything runs: a pure predicate on a
document, whose reference would be the same list of conditions. `__init__.py`
re-exports. Scripts and build files package the programs. Of `models.py` only the
rules on shapes and status codes are modelled; a message that breaks any other is
`Invalid`. The read-only views and metadata of `openai.py` have no step. The client
library is a submodule whose directory is empty; its behaviour is what the callers
rely on: total order, UUID deduplication, replay from a seq, RPCs that may fail or
lose their answer. Logging, wording and layout of messages carry no property.
