----------------------------- MODULE ProviderCall -----------------------------
(***************************************************************************)
(* One ProviderCall: the task that iterates over it resolves, connects,    *)
(* negotiates TLS, sends the request, reads the headers and the body, and  *)
(* stops reading whenever it has yielded something; other threads may      *)
(* abort it at any point.                                                  *)
(*                                                                         *)
(* Only waiting takes time: for the resolver, for a socket, and for the    *)
(* consumer to come back.  left is _deadline minus the present time.  HTTP *)
(* parsing, decompression and the bytes of the SSE parser are choices.     *)
(* X_... is X with a plausible bug; only the README's table refers to it.  *)
(***************************************************************************)
EXTENDS Integers

CONSTANTS
    Aborters,      \* threads that may abort
    MaxAddresses,  \* bound: addresses the resolver returns
    HeaderBudget,  \* response_header_ms
    IdleBudget,    \* idle_ms
    MaxLate,       \* bound: time the resolver needs after the deadline
    MaxPause,      \* bound: time the consumer needs for one event
    Limit,         \* max_payload_bytes, in chunks of a JSON body
    MaxPending,    \* bound: SSE data events that end in one chunk
    MaxBuffered    \* bound: further chunks that read1 has after a recv

ASSUME CallAssumption ==
    /\ {MaxAddresses, HeaderBudget, IdleBudget} \subseteq Nat \ {0}
    /\ {MaxLate, MaxPause, Limit, MaxPending, MaxBuffered} \subseteq Nat

VARIABLES
    streaming,  \* request_body["stream"]
    https,      \* the scheme of the URL
    phase,      \* what the generator is at
    io,         \* in a phase with I/O: loop, check, take, blocked
    addresses,  \* addresses left to try
    own,        \* the local variable sock
    size,       \* len(body) of a JSON body
    sse,        \* the body is read by _sse
    buffered,   \* chunks in the response's buffer
    pending,    \* complete SSE events of the chunk, not yet looked at
    yielded,    \* what the latest yield handed out
    fate,       \* how the iteration ended, none before
    socket,     \* _socket
    open,       \* the sockets that hold a file descriptor
    cancelled,  \* _cancelled
    aborting,   \* by aborter: no, marked, closing, done
    held,       \* by aborter: the socket it took from _socket
    left,       \* _deadline - time.monotonic()
    paused,     \* time.monotonic() - pause, while at a yield
    budget,     \* history: the time allowed since the latest progress
    quiet       \* history: the time spent waiting for the Provider since then

request == <<streaming, https>>
reading == <<size, sse, buffered, pending, yielded>>
program == <<phase, io, addresses, own, reading, fate>>
sockets == <<socket, open>>
aborts == <<cancelled, aborting, held>>
time == <<left, paused, budget, quiet>>
vars == <<request, program, sockets, aborts, time>>

NoSocket == 0
Tls == MaxAddresses + 1      \* the wrapped socket; the others are numbered
Sockets == 1..Tls

Busy == {"idle", "begin", "resolve", "address", "install", "wrap", "encoding",
         "events", "yield", "over", "done"}
Blocking == {"connect", "handshake", "send", "head", "body"}
Blocked == phase \in Blocking /\ io = "blocked"
ErrorCodes == {"60000", "60001", "60002", "60003", "60007", "60008"}
Endings == {"result", "completed", "failed"}

TypeOK ==
    /\ streaming \in BOOLEAN /\ https \in BOOLEAN
    /\ phase \in Busy \cup Blocking
    /\ io \in {"loop", "check", "take", "blocked"}
    /\ addresses \in 0..MaxAddresses
    /\ own \in Sockets \cup {NoSocket} /\ socket \in Sockets \cup {NoSocket}
    /\ open \subseteq Sockets
    /\ size \in 0..Limit /\ pending \in 0..MaxPending
    /\ buffered \in 0..MaxBuffered /\ sse \in BOOLEAN
    /\ yielded \in {"none", "headers", "append"} \cup Endings
    /\ fate \in ErrorCodes \cup {"none", "returned", "dropped", "cancelled", "other"}
    /\ cancelled \in BOOLEAN
    /\ aborting \in [Aborters -> {"no", "marked", "closing", "done"}]
    /\ held \in [Aborters -> Sockets \cup {NoSocket}]
    /\ left \in Int /\ paused \in Nat /\ budget \in Nat /\ quiet \in Nat

Init ==
    /\ streaming \in BOOLEAN /\ https \in BOOLEAN
    /\ phase = "idle" /\ io = "loop" /\ addresses = 0 /\ own = NoSocket
    /\ size = 0 /\ sse = FALSE /\ buffered = 0 /\ pending = 0
    /\ yielded = "none" /\ fate = "none"
    /\ socket = NoSocket /\ open = {}
    /\ cancelled = FALSE
    /\ aborting = [a \in Aborters |-> "no"] /\ held = [a \in Aborters |-> NoSocket]
    /\ left = 0 /\ paused = 0 /\ budget = 0 /\ quiet = 0

-----------------------------------------------------------------------------
(* Steps the phases share. *)

\* _close, as called by the task: nobody else can reach the socket any more.
Close == open' = open \ {socket} /\ socket' = NoSocket

\* The generator ends, and its finally closes the socket.
End(how) ==
    /\ phase' = "done" /\ fate' = how
    /\ Close
    /\ UNCHANGED <<io, addresses, own, reading, time>>

\* _check, and what follows when it passes.
Checked(Then) ==
    \/ cancelled /\ End("cancelled")
    \/ ~cancelled /\ left <= 0 /\ End("60000")
    \/ ~cancelled /\ left > 0 /\ Then

Go(p, i) == phase' = p /\ io' = i

Restart(allowed) == left' = allowed /\ budget' = allowed /\ quiet' = 0 /\ UNCHANGED paused

Local == <<addresses, own, reading, fate, sockets>>

-----------------------------------------------------------------------------
(* _connect. *)

\* The first next(): the header deadline starts.
Start ==
    /\ phase = "idle"
    /\ Go("begin", "loop") /\ Restart(HeaderBudget)
    /\ UNCHANGED <<request, Local, aborts>>

\* The check before the resolver is called.
Begin ==
    /\ phase = "begin"
    /\ Checked(Go("resolve", "loop") /\ UNCHANGED <<Local, time>>)
    /\ UNCHANGED <<request, aborts>>

\* getaddrinfo returns; nothing interrupts it.
Resolved ==
    /\ phase = "resolve"
    /\ \/ Checked(/\ phase' = "address" /\ addresses' \in 1..MaxAddresses
                  /\ UNCHANGED <<io, own, reading, fate, sockets, time>>)
       \/ Checked(End("60001"))
    /\ UNCHANGED <<request, aborts>>

MoreAddresses_Always == TRUE
MoreAddresses == addresses > 0

\* The next address gets a socket, unless that fails or there is none left.
Create ==
    /\ phase = "address"
    /\ \/ /\ MoreAddresses
          /\ LET s == MaxAddresses - addresses + 1 IN
             phase' = "install" /\ own' = s /\ open' = open \cup {s}
          /\ addresses' = addresses - 1
          /\ UNCHANGED <<io, reading, fate, socket, time>>
       \/ MoreAddresses /\ Checked(End("60003"))
       \/ ~MoreAddresses /\ End("60003")
    /\ UNCHANGED <<request, aborts>>

Installed_Once == IF socket = NoSocket THEN own ELSE socket
Installed == own

\* _install: under the lock, so that abort() finds the socket or is found.  The
\* socket it replaces is closed or has been wrapped.
Install ==
    /\ phase = "install"
    /\ \/ /\ cancelled
          /\ phase' = "done" /\ fate' = "cancelled"
          /\ open' = open \ {own, socket} /\ socket' = NoSocket
          /\ UNCHANGED <<io, addresses, own, reading, time>>
       \/ /\ ~cancelled
          /\ Go(IF own = Tls THEN "handshake" ELSE "connect", "check")
          /\ socket' = Installed
          /\ UNCHANGED <<addresses, own, reading, fate, open, time>>
    /\ UNCHANGED <<request, aborts>>

NextAddress_Leaks ==
    /\ phase' = "address" /\ socket' = NoSocket
    /\ UNCHANGED <<io, addresses, own, reading, fate, open, time>>

NextAddress ==
    /\ phase' = "address" /\ Close
    /\ UNCHANGED <<io, addresses, own, reading, fate, time>>

\* wrap_socket moves the descriptor of a plain socket into a new one.
Wrap ==
    /\ phase = "wrap"
    /\ \/ /\ own \in open
          /\ phase' = "install" /\ own' = Tls /\ open' = (open \ {own}) \cup {Tls}
          /\ UNCHANGED <<io, addresses, reading, fate, socket, time>>
       \/ Checked(End("60002"))
    /\ UNCHANGED <<request, aborts>>

-----------------------------------------------------------------------------
(* Socket operations: check, take the socket, wait, check again. *)

\* The check of _raw_body, before read1.
Loop ==
    /\ phase = "body" /\ io = "loop"
    /\ Checked(io' = "check" /\ UNCHANGED <<phase, Local, time>>)
    /\ UNCHANGED <<request, aborts>>

\* The first check; connect and handshake keep the socket they installed.
Check ==
    /\ phase \in Blocking /\ io = "check" /\ buffered = 0
    /\ Checked(/\ io' = IF phase \in {"connect", "handshake"} THEN "blocked" ELSE "take"
               /\ UNCHANGED <<phase, Local, time>>)
    /\ UNCHANGED <<request, aborts>>

\* sock = self._socket, which abort() may have taken.
Take ==
    /\ phase \in Blocking /\ io = "take"
    /\ \/ /\ socket # NoSocket
          /\ own' = socket /\ io' = "blocked"
          /\ UNCHANGED <<phase, addresses, reading, fate, sockets, time>>
       \/ socket = NoSocket /\ cancelled /\ End("cancelled")
    /\ UNCHANGED <<request, aborts>>

\* What an error of each operation means.
Failed ==
    CASE phase = "connect" -> Checked(NextAddress)
      [] phase = "handshake" -> Checked(End("60002"))
      [] phase \in {"send", "head", "body"} -> Checked(End("60003"))

\* The Provider's fault, the socket's timeout, or abort() has closed the socket.
IoError ==
    /\ Blocked
    /\ Failed
    /\ UNCHANGED <<request, aborts>>

\* connect, do_handshake and sendall succeed.
IoDone ==
    /\ Blocked /\ phase \in {"connect", "handshake", "send"} /\ own \in open
    /\ Checked(/\ CASE phase = "connect" -> Go(IF https THEN "wrap" ELSE "send", "check")
                    [] phase = "handshake" -> Go("send", "check")
                    [] phase = "send" -> Go("head", "check")
               /\ UNCHANGED <<Local, time>>)
    /\ UNCHANGED <<request, aborts>>

-----------------------------------------------------------------------------
(* __iter__: the headers and the yields. *)

YieldEvent(what) ==
    /\ Go("yield", "loop") /\ yielded' = what
    /\ UNCHANGED <<addresses, own, sse, fate, sockets>>

\* response.begin() has its headers: the deadline becomes the idle deadline.
HeadersRead ==
    /\ Restart(IdleBudget)
    /\ IF streaming
       THEN YieldEvent("headers") /\ UNCHANGED <<size, pending>>
       ELSE Go("encoding", "loop") /\ UNCHANGED <<addresses, own, size, sse, pending, yielded, fate, sockets>>
    /\ buffered' \in 0..MaxBuffered

\* Part of the headers, or an informational response; all of them; no HTTP;
\* more than the limit allows.  An early end is an error of the operation.
Head ==
    /\ Blocked /\ phase = "head" /\ own \in open
    /\ Checked(\/ io' = "check" /\ UNCHANGED <<phase, Local, time>>
               \/ HeadersRead
               \/ End("60007")
               \/ End("60008"))
    /\ UNCHANGED <<request, aborts>>

Shifted_Not == left
Shifted == left + paused

AfterYield_Endless ==
    CASE yielded = "headers" -> "encoding"
      [] yielded = "append" \/ sse -> "events"
      [] OTHER -> "over"
AfterYield ==
    CASE yielded = "headers" -> "encoding"
      [] yielded = "append" -> "events"
      [] yielded \in Endings -> "over"

\* next() again: the deadline moves by the time the consumer took (which does
\* not matter any more after an end event).
Resume ==
    /\ phase = "yield"
    /\ left' = Shifted /\ paused' = 0
    /\ Go(AfterYield, "loop")
    /\ UNCHANGED <<request, Local, aborts, budget, quiet>>

\* After an end event the generator returns.
Return ==
    /\ phase = "over" /\ End("returned")
    /\ UNCHANGED <<request, aborts>>

\* The consumer leaves its loop: GeneratorExit at the yield.
Drop ==
    /\ phase = "yield" /\ End("dropped")
    /\ UNCHANGED <<request, aborts>>

-----------------------------------------------------------------------------
(* The body. *)

\* read1 answers from its buffer or after a _recv.
Read(Then) ==
    /\ phase = "body"
    /\ \/ io = "check" /\ Then
       \/ io = "blocked" /\ own \in open /\ Checked(Then)
    /\ UNCHANGED <<request, aborts>>

\* It answers with a chunk: buffered before, or received with others.
Chunk ==
    \/ io = "check" /\ buffered > 0 /\ buffered' = buffered - 1
    \/ io = "blocked" /\ buffered' \in 0..MaxBuffered

\* The media type decides who reads the body of a stream; _decoded_body refuses
\* an unknown encoding before it reads anything.
OpenBody ==
    /\ phase = "encoding"
    /\ \/ /\ Go("body", "loop")
          /\ sse' \in IF streaming THEN BOOLEAN ELSE {FALSE}
          /\ UNCHANGED <<addresses, own, size, buffered, pending, yielded, fate, sockets, time>>
       \/ End("60007")
    /\ UNCHANGED <<request, aborts>>

\* The body cannot be read.  What http.client finds, a body too short or badly
\* framed, is reported after a _check; no valid encoding or no JSON is not.
BodyBroken == Read(Checked(End("60003") \/ End("60007")) \/ End("60007"))

\* _json_body: every chunk is progress, and may be one too many.
JsonChunk ==
    /\ ~sse
    /\ Read(\/ /\ Chunk /\ size < Limit
               /\ size' = size + 1 /\ Go("body", "loop") /\ Restart(IdleBudget)
               /\ UNCHANGED <<addresses, own, sse, pending, yielded, fate, sockets>>
            \/ (io = "check" => buffered > 0) /\ size = Limit /\ End("60008"))

JsonEnd ==
    /\ ~sse
    /\ Read(/\ YieldEvent(IF streaming THEN "completed" ELSE "result")
            /\ UNCHANGED <<size, buffered, pending, time>>)

\* _sse gets a chunk that completes some data events, or none (a comment, part
\* of an event).
SseChunk ==
    /\ sse
    /\ Read(/\ Chunk
            /\ pending' \in 0..MaxPending /\ Go("events", "loop")
            /\ UNCHANGED <<addresses, own, size, sse, yielded, fate, sockets, time>>)

\* The next event of the chunk: it moves the deadline if it can be parsed.
\* Without one it is time to read again; the rest may still exceed the limit.
SseEvent ==
    /\ phase = "events"
    /\ \/ pending = 0 /\ Go("body", "loop") /\ UNCHANGED <<Local, time>>
       \/ /\ pending > 0
          /\ pending' = pending - 1 /\ UNCHANGED <<size, buffered>>
          /\ \E what \in {"append", "completed", "failed"} : YieldEvent(what)
          /\ Restart(IdleBudget)
       \/ pending > 0 /\ \E how \in {"60007", "other"} : End(how)
       \/ End("60008")
    /\ UNCHANGED <<request, aborts>>

-----------------------------------------------------------------------------
(* abort(), and time. *)

Abort(a) ==
    /\ aborting[a] = "no"
    /\ aborting' = [aborting EXCEPT ![a] = "marked"] /\ cancelled' = TRUE
    /\ UNCHANGED <<request, program, sockets, held, time>>

\* _close: the socket changes hands under the lock ...
AbortTake(a) ==
    /\ aborting[a] = "marked"
    /\ aborting' = [aborting EXCEPT ![a] = "closing"]
    /\ held' = [held EXCEPT ![a] = socket] /\ socket' = NoSocket
    /\ UNCHANGED <<request, program, open, cancelled, time>>

\* ... and is shut down and closed outside of it.
AbortClose(a) ==
    /\ aborting[a] = "closing"
    /\ aborting' = [aborting EXCEPT ![a] = "done"]
    /\ open' = open \ {held[a]} /\ held' = [held EXCEPT ![a] = NoSocket]
    /\ UNCHANGED <<request, program, socket, cancelled, time>>

\* A socket operation has the rest of the budget as its timeout.
Tick ==
    /\ left' = left - 1
    /\ \/ /\ \/ phase = "resolve" /\ left > -MaxLate
             \/ Blocked /\ left > 0
          /\ quiet' = quiet + 1 /\ UNCHANGED paused
       \/ /\ phase = "yield" /\ paused < MaxPause
          /\ paused' = paused + 1 /\ UNCHANGED quiet
    /\ UNCHANGED <<request, program, sockets, aborts, budget>>

Body == BodyBroken \/ JsonChunk \/ JsonEnd \/ SseChunk

Connecting == Begin \/ Create \/ Install \/ Wrap
Reading == OpenBody \/ Loop \/ Check \/ Take \/ (io = "check" /\ Body) \/ SseEvent \/ Return
Provider == IoDone \/ Head \/ Body

\* An operation ends with an error on its own when its time is up or its socket
\* has been closed.
Woken == (left <= 0 \/ own \notin open) /\ IoError

Done ==
    /\ phase = "done" /\ \A a \in Aborters : aborting[a] = "done"
    /\ UNCHANGED vars

Next ==
    \/ Start \/ Resolved \/ Connecting \/ Reading \/ IoError \/ Provider
    \/ Resume \/ Drop \/ Tick \/ Done
    \/ \E a \in Aborters : Abort(a) \/ AbortTake(a) \/ AbortClose(a)

Spec == Init /\ [][Next]_vars

\* The task and the resolver go on, time passes, sockets time out.  Nothing is
\* assumed of the Provider, of the consumer or of who may abort.
LiveSpec ==
    /\ Spec
    /\ WF_vars(Resolved) /\ WF_vars(Connecting) /\ WF_vars(Reading) /\ WF_vars(Woken)
    /\ SF_vars(Tick)

-----------------------------------------------------------------------------
(* Properties. *)

\* No descriptor is lost: a socket is the task's or in the hands of an abort()
\* that is about to close it, and the task ends without one (_install, _close,
\* the address loop, wrap_socket).
SocketsClosed ==
    \A s \in open : \/ \E a \in Aborters : held[a] = s
                    \/ phase # "done" /\ s = own

\* When every abort() that was begun has returned, the task does not wait on an
\* open socket, wherever it was when they came: abort before, between and after
\* the two _install calls, and while the task opens a socket or waits.
AbortedIsClosed ==
    /\ \E a \in Aborters : aborting[a] = "done"
    /\ \A a \in Aborters : aborting[a] \in {"no", "done"}
    /\ Blocked
    => own \notin open

\* The code of a failure is its first cause: 60000 if and only if the Provider
\* was waited for as long as the budget allows since the last progress, whatever
\* failed afterwards and however long the consumer took to publish.
FirstCause == fate \in ErrorCodes => (fate = "60000" <=> quiet >= budget)

\* A ProviderCall is the iterator its task takes it for, and every next()
\* returns, however slowly the Provider sends.
Iterator == INSTANCE ProviderIterator WITH
    streaming <- streaming,
    stage <- IF phase = "done" THEN "gone"
             ELSE CASE yielded \in Endings -> "over"
                    [] yielded \in {"headers", "append"} -> "streaming"
                    [] yielded = "none" -> "before",
    asked <- phase \notin {"idle", "yield", "done"},
    aborted <- cancelled,
    ending <- fate

ImplementsIterator == Iterator!ILiveSpec
=============================================================================
