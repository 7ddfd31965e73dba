-------------------------- MODULE SubscriptionProofs --------------------------
(***************************************************************************)
(* The safety invariants of the SDK's subscription, for any number of      *)
(* calls and closing threads, any log and any number of faults.            *)
(***************************************************************************)
EXTENDS SubscriptionProperties, LlmMessagesProofs, SequenceTheorems

\* Where one create() prepares the subscription for all of them.
Preparing == {"status", "start", "unprepared"}

\* The reader has a message of the log while it judges one.
LogInv ==
    /\ Len(log) <= MaxSeq
    /\ reader \in {"bad", "parsed"} => cursor \in DOMAIN log

\* One thread prepares, before any other gets past prepare() and before there is
\* a reader; nothing else could have failed by then.
PrepInv ==
    /\ \A c \in Keys : app[c] \in Preparing => preparing /\ ~ready /\ ~failed
    /\ \A c, d \in Keys : app[c] \in Preparing /\ app[d] \in Preparing => c = d
    /\ ~ready => reader = "off" /\ \A c \in Keys : app[c] \in Opening \ {"begin"}

\* _finish_failure runs once, after the failure; it waits for the reader before
\* the callback, unless it runs in the reader.
FinishInv ==
    /\ failed <=> finishing # "no"
    /\ callbacks = IF finishing = "over" THEN 1 ELSE 0
    /\ finishing = "callback" => reader \in {"off", "failing", "ended"}
    /\ finishing = "over" => reader \in {"off", "final", "ended"}
    /\ reader = "failing" => failed

\* What the place of a thread says of its call.
StageInv(c) ==
    /\ app[c] \in Opening => call[c] = NewCall
    /\ app[c] \in {"uuid", "register"} => call[c].receive = 0 /\ ~call[c].local_closed
    /\ app[c] \in HandedOut \cup {"return", "disputed"} => call[c].request_seq # 0
    /\ app[c] \notin HandedOut => /\ taken[c] = <<>> /\ cancels[c] = 0
                                  /\ call[c].close = "no"
                                  /\ \A k \in Closers : closer[<<c, k>>] = "idle"
    /\ app[c] = "disputed" => failed
    /\ call[c].receive = 0 => ~call[c].terminal /\ call[c].queue = <<>>

Open(c) == c \in Begun /\ ~failed /\ ~call[c].local_closed

\* The maps and the calls that expect something.
RouteInv(c) ==
    /\ c \in byUuid => /\ Open(c) /\ call[c].receive = 0
                       /\ app[c] \notin {"uuid", "register"}
    /\ /\ Open(c) /\ call[c].receive = 0
       /\ app[c] \in {"gate", "sent", "return"} \cup HandedOut
       => c \in byUuid
    /\ c \in bySeq <=> Open(c) /\ call[c].receive # 0 /\ ~call[c].terminal

\* The seqs of reply and log.
AgreeInv(c) ==
    /\ taken[c] # <<>> => call[c].receive = call[c].request_seq
    /\ call[c].receive # 0 /\ call[c].request_seq \notin {0, call[c].receive}
          => failed /\ call[c].queue = <<>>

\* Who has got the error.
ErrorInv(c) ==
    /\ c \in Begun /\ failed /\ ~call[c].local_closed /\ ~call[c].terminal
          => call[c].error
    /\ call[c].error => failed /\ (call[c].terminal => call[c].local_closed)

\* The thread that closes a stream is the only one that may publish its cancel; the
\* call is not routed any more, so that one not complete then stays so.
CloseInv(c) ==
    /\ cancels[c] \in {0, 1}
    /\ cancels[c] = 1 => ~call[c].terminal
    /\ IF call[c].close = "no" THEN cancels[c] = 0 ELSE call[c].local_closed
    /\ \A k \in Closers :
          /\ closer[<<c, k>>] \in {"gate", "sent", "finish"} => call[c].close = "started"
          /\ closer[<<c, k>>] = "gate" => cancels[c] = 0 /\ ~call[c].terminal
    /\ \A k, l \in Closers :
          /\ closer[<<c, k>>] \in {"gate", "sent", "finish"}
          /\ closer[<<c, l>>] \in {"gate", "sent", "finish"}
          => k = l

CallInv(c) == StageInv(c) /\ RouteInv(c) /\ AgreeInv(c) /\ ErrorInv(c) /\ CloseInv(c)

\* The inductive invariant.
SubInv == TypeOK /\ LogInv /\ PrepInv /\ FinishInv /\ \A c \in Keys : CallInv(c)

-----------------------------------------------------------------------------
(* The log. *)

\* A request is in the log at most at its seq.
LEMMA LogFacts ==
    ASSUME TypeOK
    PROVE  /\ Len(log) \in Nat /\ DOMAIN log = 1..Len(log)
           /\ \A i \in DOMAIN log : log[i] \in Messages
           /\ \A c \in Keys : SeqOf(c) \in 0..Len(log)
  <1>1. Len(log) \in Nat /\ DOMAIN log = 1..Len(log) /\ \A i \in DOMAIN log : log[i] \in Messages
    BY LenProperties, ElementOfSeq DEF TypeOK
  <1>2. ASSUME NEW c \in Keys PROVE SeqOf(c) \in 0..Len(log)
    <2> DEFINE S == {i \in DOMAIN log : log[i].kind = "request" /\ log[i].key = c}
    <2>1. S \subseteq 1..Len(log) /\ S \subseteq Nat /\ IsFiniteSet(S)
      <3>1. S \subseteq 1..Len(log)
        BY <1>1
      <3>2. IsFiniteSet(1..Len(log))
        BY <1>1, FS_Interval
      <3> HIDE DEF S
      <3>3. IsFiniteSet(S)
        BY <3>1, <3>2, FS_Subset
      <3>4. S \subseteq Nat
        BY <1>1, <3>1
      <3>5. QED
        BY <3>1, <3>3, <3>4
    <2>2. SeqOf(c) = Earliest(S)
      BY DEF SeqOf
    <2>3. QED
      <3>1. Earliest(S) \in S \cup {0}
        <4> HIDE DEF S
        <4> QED BY <2>1, Chosen
      <3>2. Earliest(S) \in 0..Len(log)
        BY <1>1, <2>1, <3>1
      <3>3. QED
        BY <2>2, <3>2
  <1>3. QED
    BY <1>1, <1>2

-----------------------------------------------------------------------------
(* The invariant holds initially, and says what the properties say. *)

\* A new Call object has its fields in range.
LEMMA NewCallType == NewCall \in Call
  BY SubscriptionAssumption DEF NewCall, Call

\* Nothing has been called, nothing is in the log.
LEMMA InitInv == Init => SubInv
  <1> SUFFICES ASSUME Init PROVE SubInv
    OBVIOUS
  <1>1. TypeOK
    <2>1. log \in Seq(Messages) /\ taken \in [Keys -> Seq(Entries)]
      BY EmptySeq DEF Init
    <2>2. call \in [Keys -> Call]
      BY NewCallType DEF Init
    <2>3. app \in [Keys -> AppLabels] /\ closer \in [Keys \X Closers -> CloserLabels]
      BY DEF Init, AppLabels, Opening, CloserLabels
    <2>4. cancels \in [Keys -> Nat] /\ attempt \in 0..MaxRetries /\ faults \in 0..MaxFaults
      BY SubscriptionAssumption DEF Init
    <2>5. QED
      BY <2>1, <2>2, <2>3, <2>4 DEF Init, TypeOK, ReaderLabels
  <1>2. LogInv /\ PrepInv /\ FinishInv
    BY SubscriptionAssumption DEF Init, LogInv, PrepInv, FinishInv, Preparing, Opening
  <1>3. ASSUME NEW c \in Keys PROVE CallInv(c)
    BY <1>3 DEF Init, CallInv, StageInv, RouteInv, AgreeInv, ErrorInv, CloseInv, Open, Begun,
                NewCall, Opening, HandedOut
  <1>4. QED
    BY <1>1, <1>2, <1>3 DEF SubInv

\* The properties of SubscriptionProperties that follow from it.
LEMMA Implied ==
    ASSUME SubInv
    PROVE  TypeOK /\ Routed /\ SeqsAgree /\ FailureReaches /\ OneCancel /\ CallbackLast
  <1>1. TypeOK /\ \A c \in Keys : CallInv(c)
    BY DEF SubInv
  <1>2. Routed
    <2>1. byUuid \subseteq Keys /\ bySeq \subseteq Keys
      BY <1>1 DEF TypeOK
    <2>2. QED
      BY <1>1, <2>1 DEF CallInv, RouteInv, Open, Routed, Begun
  <1>3. SeqsAgree
    BY <1>1 DEF CallInv, AgreeInv, SeqsAgree
  <1>4. FailureReaches
    BY <1>1 DEF CallInv, ErrorInv, FailureReaches, Begun
  <1>5. OneCancel
    BY <1>1 DEF CallInv, CloseInv, OneCancel
  <1>6. CallbackLast
    BY DEF SubInv, FinishInv, CallbackLast
  <1>7. QED
    BY <1>1, <1>2, <1>3, <1>4, <1>5, <1>6

-----------------------------------------------------------------------------
(* Steps of create() that leave the Call objects alone. *)

\* A step that does not touch a call keeps what is known of it.
LEMMA OtherCall ==
    ASSUME NEW d \in Keys, CallInv(d),
           call'[d] = call[d], app'[d] = app[d], taken'[d] = taken[d], cancels'[d] = cancels[d],
           \A k \in Closers : closer'[<<d, k>>] = closer[<<d, k>>],
           failed' = failed, d \in byUuid' <=> d \in byUuid, d \in bySeq' <=> d \in bySeq
    PROVE  CallInv(d)'
  <1>1. (d \in Begun)' <=> d \in Begun
    BY DEF Begun
  <1>2. StageInv(d)'
    BY DEF CallInv, StageInv
  <1>3. RouteInv(d)'
    BY <1>1 DEF CallInv, RouteInv, Open
  <1>4. AgreeInv(d)'
    BY DEF CallInv, AgreeInv
  <1>5. ErrorInv(d)'
    BY <1>1 DEF CallInv, ErrorInv
  <1>6. CloseInv(d)'
    BY DEF CallInv, CloseInv
  <1>7. QED
    BY <1>2, <1>3, <1>4, <1>5, <1>6 DEF CallInv

\* The ways of create() between two labels, with nothing but a registration.
Way(from, to) ==
    \/ from \in Opening /\ to \in Opening
    \/ from = "begin" /\ to = "uuid" /\ ~failed
    \/ from \in {"uuid", "register"} /\ to \in {"register", "abandon"}
    \/ from \in {"gate", "sent"} /\ to \in {"gate", "sent", "abandon"}
    \/ from = "return" /\ to \in {"next", "raised"}

\* A thread that only moves on keeps what its place says of its call.
LEMMA MoveKeeps ==
    ASSUME SubInv, NEW c \in Keys, NEW label, app' = [app EXCEPT ![c] = label],
           UNCHANGED <<call, taken, cancels, closer, failed, bySeq>>,
           \/ Way(app[c], label) /\ byUuid' = byUuid
           \/ /\ app[c] = "register" /\ label = "gate"
              /\ ~failed /\ byUuid' = byUuid \cup {c}
    PROVE  \A d \in Keys : CallInv(d)'
  <1>1. app \in [Keys -> AppLabels] /\ \A d \in Keys : CallInv(d)
    BY DEF SubInv, TypeOK
  <1>2. app'[c] = label /\ \A d \in Keys \ {c} : app'[d] = app[d]
    BY <1>1
  <1>3. ASSUME NEW d \in Keys \ {c} PROVE CallInv(d)'
    BY <1>1, <1>2, OtherCall
  <1>4. CallInv(c)'
    <2>1. CallInv(c)
      BY <1>1
    <2>2. StageInv(c)'
      BY <1>2, <2>1 DEF CallInv, StageInv, ErrorInv, Begun, Way, Opening, HandedOut, NewCall
    <2>3. RouteInv(c)'
      BY <1>2, <2>1 DEF CallInv, StageInv, RouteInv, Open, Begun, Way, Opening, HandedOut, NewCall
    <2>4. AgreeInv(c)'
      BY <2>1 DEF CallInv, AgreeInv
    <2>5. ErrorInv(c)'
      BY <1>2, <2>1 DEF CallInv, StageInv, ErrorInv, Begun, Way, Opening, NewCall
    <2>6. CloseInv(c)'
      BY <2>1 DEF CallInv, CloseInv
    <2>7. QED
      BY <2>2, <2>3, <2>4, <2>5, <2>6 DEF CallInv
  <1>5. QED
    BY <1>3, <1>4

\* prepare(): refused, already prepared, chosen to prepare, or put to sleep.
LEMMA PrepareInv ==
    ASSUME SubInv, NEW c \in Keys, Prepare(c)
    PROVE  SubInv'
  <1>1. app \in [Keys -> AppLabels]
    BY DEF SubInv, TypeOK
  <1>2. TypeOK'
    <2>1. app' \in [Keys -> AppLabels] /\ preparing' \in BOOLEAN
      BY <1>1 DEF SubInv, TypeOK, Prepare, Goto, AppLabels, Opening
    <2>2. asleep' \subseteq Threads
      BY DEF SubInv, TypeOK, Prepare, Sleep, App, Threads
    <2>3. QED
      BY <2>1, <2>2 DEF SubInv, TypeOK, Prepare, server, connection, history
  <1>3. LogInv' /\ PrepInv' /\ FinishInv'
    BY <1>1 DEF SubInv, LogInv, PrepInv, FinishInv, Prepare, Goto, Preparing, Opening, server,
                connection, history
  <1>4. \A d \in Keys : CallInv(d)'
    <2>1. PICK label : app' = [app EXCEPT ![c] = label] /\ Way(app[c], label)
      BY <1>1 DEF Prepare, Goto, Way, Opening
    <2>2. QED
      BY <2>1, MoveKeeps DEF Prepare, history
  <1>5. QED
    BY <1>2, <1>3, <1>4 DEF SubInv

\* The status of the channel that prepare() reads.
LEMMA ReadStatusInv ==
    ASSUME SubInv, NEW c \in Keys, ReadStatus(c)
    PROVE  SubInv'
  <1>1. app \in [Keys -> AppLabels]
    BY DEF SubInv, TypeOK
  <1>2. TypeOK'
    <2>1. app' \in [Keys -> AppLabels]
      BY <1>1 DEF ReadStatus, Goto, AppLabels, Opening
    <2>2. anchor' \in Nat
      BY LogFacts DEF SubInv, TypeOK, ReadStatus
    <2>3. faults' \in 0..MaxFaults
      BY SubscriptionAssumption DEF SubInv, TypeOK, ReadStatus, Fault
    <2>4. QED
      BY <2>1, <2>2, <2>3 DEF SubInv, TypeOK, ReadStatus, server, connection
  <1>3. LogInv' /\ PrepInv' /\ FinishInv'
    BY <1>1 DEF SubInv, LogInv, PrepInv, FinishInv, ReadStatus, Goto, Preparing, Opening, server,
                connection
  <1>4. \A d \in Keys : CallInv(d)'
    <2>1. PICK label : app' = [app EXCEPT ![c] = label] /\ Way(app[c], label)
      BY <1>1 DEF ReadStatus, Goto, Way, Opening
    <2>2. QED
      BY <2>1, MoveKeeps DEF ReadStatus
  <1>5. QED
    BY <1>2, <1>3, <1>4 DEF SubInv

\* The reader is started by the only thread that prepares, before any failure.
LEMMA StartReaderInv ==
    ASSUME SubInv, NEW c \in Keys, StartReader(c)
    PROVE  SubInv'
  <1>1. app \in [Keys -> AppLabels]
    BY DEF SubInv, TypeOK
  <1>2. TypeOK'
    BY <1>1 DEF SubInv, TypeOK, StartReader, Prepared, Goto, NotifyAll, AppLabels, Opening,
                ReaderLabels, server, history
  <1>3. LogInv' /\ PrepInv' /\ FinishInv'
    BY <1>1 DEF SubInv, LogInv, PrepInv, FinishInv, StartReader, Goto, Preparing, server, history
  <1>4. \A d \in Keys : CallInv(d)'
    <2>1. app' = [app EXCEPT ![c] = "begin"] /\ Way(app[c], "begin")
      BY <1>1 DEF StartReader, Goto, Way, Opening
    <2>2. QED
      BY <2>1, MoveKeeps DEF StartReader, history
  <1>5. QED
    BY <1>2, <1>3, <1>4 DEF SubInv

\* The reader that does not start leaves the subscription as it was before prepare().
LEMMA StartFailsInv ==
    ASSUME SubInv, NEW c \in Keys, StartFails(c)
    PROVE  SubInv'
  <1>1. app \in [Keys -> AppLabels] /\ app[c] = "start" /\ app' = [app EXCEPT ![c] = "refused"]
    BY DEF SubInv, TypeOK, StartFails, Goto
  <1>2. faults' \in 0..MaxFaults
    BY SubscriptionAssumption DEF SubInv, TypeOK, StartFails, Fault
  <1>3. TypeOK'
    BY <1>1, <1>2 DEF SubInv, TypeOK, StartFails, Prepared, NotifyAll, AppLabels, Opening, server,
                      connection
  <1>4. LogInv' /\ PrepInv' /\ FinishInv'
    BY <1>1 DEF SubInv, LogInv, PrepInv, FinishInv, StartFails, Prepared, Preparing, Opening,
                server, connection
  <1>5. \A d \in Keys : CallInv(d)'
    <2>1. Way(app[c], "refused")
      BY <1>1 DEF Way, Opening
    <2>2. QED
      BY <1>1, <2>1, MoveKeeps DEF StartFails
  <1>6. QED
    BY <1>3, <1>4, <1>5 DEF SubInv

\* The steps of create() that move nothing but its own label.
LEMMA LabelInv ==
    ASSUME SubInv, NEW c \in Keys, Begin(c) \/ Draw(c) \/ NoAnswer(c) \/ Return(c) PROVE SubInv'
  <1>1. app \in [Keys -> AppLabels]
    BY DEF SubInv, TypeOK
  <1>2. PICK label \in AppLabels \ Preparing :
            /\ app' = [app EXCEPT ![c] = label] /\ Way(app[c], label)
            /\ app[c] \in {"begin", "uuid", "sent", "return"}
    BY <1>1 DEF Begin, Draw, Unless, NoAnswer, Return, Goto, Way, AppLabels, Opening, HandedOut,
                Preparing
  <1>3. /\ UNCHANGED <<server, shared, call, closer, connection, finishing, asleep, taken, cancels,
                      callbacks>>
        /\ faults' \in 0..MaxFaults
    BY SubscriptionAssumption
    DEF Begin, Draw, Unless, NoAnswer, Return, Fault, SubInv, TypeOK, history
  <1>4. TypeOK'
    BY <1>1, <1>2, <1>3 DEF SubInv, TypeOK, server, shared, connection
  <1>5. LogInv' /\ PrepInv' /\ FinishInv'
    BY <1>1, <1>2, <1>3 DEF SubInv, LogInv, PrepInv, FinishInv, Opening, server, shared, connection
  <1>6. \A d \in Keys : CallInv(d)'
    BY <1>2, <1>3, MoveKeeps DEF shared
  <1>7. QED
    BY <1>4, <1>5, <1>6 DEF SubInv

\* register(): the call is routed by its UUID, unless the subscription failed.
LEMMA RegisterInv ==
    ASSUME SubInv, NEW c \in Keys, Register(c)
    PROVE  SubInv'
  <1>1. app \in [Keys -> AppLabels]
    BY DEF SubInv, TypeOK
  <1>2. TypeOK'
    BY <1>1 DEF SubInv, TypeOK, Register, Goto, AppLabels, server, connection, history
  <1>3. LogInv' /\ PrepInv' /\ FinishInv'
    BY <1>1 DEF SubInv, LogInv, PrepInv, FinishInv, Register, Goto, Preparing, Opening, server,
                connection, history
  <1>4. \A d \in Keys : CallInv(d)'
    BY MoveKeeps DEF Register, Goto, Way, history
  <1>5. QED
    BY <1>2, <1>3, <1>4 DEF SubInv

\* begin_publication_rpc and the attempt behind it.
LEMMA GateInv ==
    ASSUME SubInv, NEW c \in Keys, Gate(c)
    PROVE  SubInv'
  <1>1. app \in [Keys -> AppLabels]
    BY DEF SubInv, TypeOK
  <1>2. TypeOK'
    <2>1. app' \in [Keys -> AppLabels]
      BY <1>1 DEF Gate, Goto, AppLabels
    <2>2. sent' \subseteq Keys \X {"request", "cancel"}
      BY DEF SubInv, TypeOK, Gate
    <2>3. QED
      BY <2>1, <2>2 DEF SubInv, TypeOK, Gate, shared, connection, history
  <1>3. LogInv' /\ PrepInv' /\ FinishInv'
    BY <1>1 DEF SubInv, LogInv, PrepInv, FinishInv, Gate, Goto, Preparing, Opening, shared,
                connection, history
  <1>4. \A d \in Keys : CallInv(d)'
    BY MoveKeeps DEF Gate, Goto, Way, shared, history
  <1>5. QED
    BY <1>2, <1>3, <1>4 DEF SubInv

-----------------------------------------------------------------------------
(* Failures of the subscription. *)

\* What the updates of a Call object do to its fields.
LEMMA CallFields ==
    ASSUME NEW r \in Call
    PROVE  /\ Failed(r) \in Call
           /\ Failed(r) = r \/ Failed(r) = [r EXCEPT !.error = TRUE]
           /\ Failed(r).error <=> r.error \/ (~r.local_closed /\ ~r.terminal)
           /\ Invalidated(r) \in Call
           /\ Invalidated(r).queue = <<>> /\ Invalidated(r).error /\ Invalidated(r).local_closed
           /\ Failed(Invalidated(r)) = Invalidated(r)
           /\ \A x \in {Failed(r), Invalidated(r)} :
                 /\ x.request_seq = r.request_seq /\ x.receive = r.receive
                 /\ x.chain_seq = r.chain_seq /\ x.head_seen = r.head_seen
                 /\ x.terminal = r.terminal /\ x.close = r.close
           /\ Failed(r).queue = r.queue /\ Failed(r).local_closed = r.local_closed
  <1>1. <<>> \in Seq(Entries)
    BY EmptySeq
  <1>2. Invalidated(r) \in Call
    BY <1>1 DEF Invalidated, Call
  <1>3. Failed(r) \in Call
    BY DEF Failed, Call
  <1>4. QED
    BY <1>2, <1>3 DEF Invalidated, Failed, Call

\* How the steps that fail the subscription treat one call, which is cs_d when
\* _fail_locked meets it: untouched, seen under another seq by the reader, or
\* published under another seq.
Treated(d, cs_d) ==
    \/ /\ cs_d = call[d]
       /\ app'[d] = app[d] \/ (app[d] \in Opening /\ app'[d] \in Opening)
    \/ cs_d = Invalidated(call[d]) /\ d \in byUuid /\ app'[d] = app[d]
    \/ /\ \E seq \in 1..(MaxSeq + 1) :
             cs_d = Invalidated([call[d] EXCEPT !.request_seq = seq])
       /\ app[d] = "sent" /\ app'[d] = "disputed"

\* _fail_locked, whatever has been done to the call at fault.
LEMMA FailKeeps ==
    ASSUME SubInv, NEW cs, NEW handle, FailLocked(cs, handle),
           UNCHANGED <<taken, cancels, closer>>,
           \A d \in Keys : Treated(d, cs[d])
    PROVE  call' \in [Keys -> Call] /\ \A d \in Keys : CallInv(d)'
  <1>1. ~failed /\ failed' = TRUE /\ byUuid' = {} /\ bySeq' = {}
        /\ call' = [c \in Keys |-> IF c \in Begun THEN Failed(cs[c]) ELSE cs[c]]
    BY DEF FailLocked
  <1>2. ASSUME NEW d \in Keys PROVE call'[d] \in Call /\ CallInv(d)'
    <2>1. call[d] \in Call /\ CallInv(d) /\ (d \in byUuid => d \in Begun)
      BY DEF SubInv, TypeOK, CallInv, RouteInv, Open
    <2>2. (d \in Begun)' <=> d \in Begun
      BY DEF Treated, Begun, Opening
    <2>3. CASE /\ cs[d] = call[d]
               /\ app'[d] = app[d] \/ (app[d] \in Opening /\ app'[d] \in Opening)
      <3>1. call'[d] = IF d \in Begun THEN Failed(call[d]) ELSE call[d]
        BY <1>1, <2>3
      <3>2. call'[d] \in Call /\ call'[d].queue = call[d].queue
            /\ call'[d].request_seq = call[d].request_seq /\ call'[d].receive = call[d].receive
            /\ call'[d].terminal = call[d].terminal /\ call'[d].close = call[d].close
            /\ call'[d].local_closed = call[d].local_closed
        BY <2>1, <3>1, CallFields
      <3>3. ASSUME d \in Begun
            PROVE  /\ call'[d].error => call[d].error \/ ~call[d].terminal
                   /\ ~call[d].local_closed /\ ~call[d].terminal => call'[d].error
        <4>1. call'[d] = Failed(call[d])
          BY <3>1, <3>3
        <4>2. QED
          BY <2>1, <4>1, CallFields
      <3>4. StageInv(d)'
        BY <1>1, <2>1, <2>3, <3>1, <3>2 DEF CallInv, StageInv, Opening, HandedOut, Begun
      <3>5. RouteInv(d)' /\ AgreeInv(d)' /\ CloseInv(d)'
        BY <1>1, <2>1, <2>3, <3>2 DEF CallInv, RouteInv, AgreeInv, CloseInv, Open
      <3>6. ErrorInv(d)'
        BY <1>1, <2>1, <2>2, <3>1, <3>2, <3>3 DEF CallInv, ErrorInv
      <3>7. QED
        BY <3>2, <3>4, <3>5, <3>6 DEF CallInv
    <2>4. CASE \/ cs[d] = Invalidated(call[d]) /\ d \in byUuid /\ app'[d] = app[d]
               \/ /\ \E seq \in 1..(MaxSeq + 1) :
                        cs[d] = Invalidated([call[d] EXCEPT !.request_seq = seq])
                  /\ app[d] = "sent" /\ app'[d] = "disputed"
      <3> DEFINE Stands(r) == /\ cs[d] = Invalidated(r)
                              /\ r.receive = call[d].receive /\ r.terminal = call[d].terminal
                              /\ r.close = call[d].close
                              /\ \/ r.request_seq = call[d].request_seq /\ app'[d] = app[d]
                                 \/ r.request_seq # 0 /\ app[d] = "sent" /\ app'[d] = "disputed"
      <3>1. PICK r \in Call : Stands(r)
        <4>1. CASE cs[d] = Invalidated(call[d]) /\ app'[d] = app[d]
          BY <2>1, <4>1
        <4>2. CASE /\ \E seq \in 1..(MaxSeq + 1) :
                        cs[d] = Invalidated([call[d] EXCEPT !.request_seq = seq])
                   /\ app[d] = "sent" /\ app'[d] = "disputed"
          <5>1. PICK seq \in 1..(MaxSeq + 1) :
                    cs[d] = Invalidated([call[d] EXCEPT !.request_seq = seq])
            BY <4>2
          <5>2. [call[d] EXCEPT !.request_seq = seq] \in Call /\ seq # 0
            <6>1. seq # 0 /\ seq \in 0..(MaxSeq + 1)
              BY SubscriptionAssumption
            <6>2. QED
              BY <2>1, <6>1 DEF Call
          <5>3. Stands([call[d] EXCEPT !.request_seq = seq])
            BY <2>1, <4>2, <5>1, <5>2 DEF Call
          <5>4. QED
            BY <5>2, <5>3
        <4>3. QED
          BY <2>4, <4>1, <4>2
      <3>2. d \in Begun
        BY <2>1, <2>4 DEF Begun, Opening
      <3>3. call'[d] = Invalidated(r)
        BY <1>1, <3>1, <3>2, CallFields
      <3>4. call'[d] \in Call /\ call'[d].queue = <<>> /\ call'[d].error /\ call'[d].local_closed
            /\ call'[d].request_seq = r.request_seq /\ call'[d].receive = r.receive
            /\ call'[d].terminal = r.terminal /\ call'[d].close = r.close
        BY <3>1, <3>3, CallFields
      <3>5. StageInv(d)'
        BY <1>1, <2>1, <2>4, <3>1, <3>2, <3>4
        DEF CallInv, StageInv, RouteInv, Opening, HandedOut, Begun
      <3>6. RouteInv(d)'
        BY <1>1, <3>4 DEF RouteInv, Open
      <3>7. AgreeInv(d)'
        BY <1>1, <2>1, <3>1, <3>4 DEF CallInv, StageInv, AgreeInv, HandedOut
      <3>8. ErrorInv(d)' /\ CloseInv(d)'
        BY <1>1, <2>1, <3>1, <3>4 DEF CallInv, ErrorInv, CloseInv
      <3>9. QED
        BY <3>4, <3>5, <3>6, <3>7, <3>8 DEF CallInv
    <2>5. QED
      BY <2>3, <2>4 DEF Treated
  <1>3. QED
    BY <1>1, <1>2

\* prepare() fails: nobody else can have failed the subscription before.
LEMMA FailPrepareInv ==
    ASSUME SubInv, NEW c \in Keys, FailPrepare(c)
    PROVE  SubInv'
  <1>1. app \in [Keys -> AppLabels] /\ call \in [Keys -> Call]
    BY DEF SubInv, TypeOK
  <1>2. /\ FailLocked(call, active) /\ app' = [app EXCEPT ![c] = "failing"]
        /\ app[c] = "unprepared" /\ preparing' = FALSE
        /\ UNCHANGED <<server, closer, connection, history>>
    BY DEF FailPrepare, Goto
  <1>3. call' \in [Keys -> Call] /\ \A d \in Keys : CallInv(d)'
    <2>1. \A d \in Keys : Treated(d, call[d])
      BY <1>1, <1>2 DEF Treated, Opening
    <2>2. QED
      BY <1>1, <1>2, <2>1, FailKeeps DEF history
  <1>4. TypeOK'
    BY <1>1, <1>2, <1>3
    DEF SubInv, TypeOK, FailLocked, NotifyAll, AppLabels, Opening, server, connection, history
  <1>5. LogInv' /\ PrepInv' /\ FinishInv'
    BY <1>1, <1>2 DEF SubInv, LogInv, PrepInv, FinishInv, FailLocked, Preparing, Opening, server,
                     connection, history
  <1>6. QED
    BY <1>3, <1>4, <1>5 DEF SubInv

\* The reader gives up: after a lost connection, a message that does not parse, or
\* a request under another seq.
LEMMA ReaderFails ==
    ASSUME SubInv, NEW cs \in [Keys -> Call], NEW handle, FailLocked(cs, handle),
           reader \notin {"off", "ended"}, reader' = "failing", stream' \in {stream, "none"},
           active' \in BOOLEAN, faults' \in 0..MaxFaults,
           \A d \in Keys : Treated(d, cs[d]),
           UNCHANGED <<server, app, closer, attempt, cursor, preparing, taken, cancels, callbacks>>
    PROVE  SubInv'
  <1>1. call' \in [Keys -> Call] /\ \A d \in Keys : CallInv(d)'
    BY FailKeeps
  <1>2. TypeOK'
    BY <1>1 DEF SubInv, TypeOK, FailLocked, NotifyAll, ReaderLabels, server
  <1>3. LogInv' /\ PrepInv' /\ FinishInv'
    BY DEF SubInv, LogInv, PrepInv, FinishInv, FailLocked, Preparing, Opening, server
  <1>4. QED
    BY <1>1, <1>2, <1>3 DEF SubInv

-----------------------------------------------------------------------------
(* The other steps of create() and of the iteration. *)

\* A step of one thread that changes the Call of c, and no other.
LEMMA OneCallKeeps ==
    ASSUME SubInv, NEW c \in Keys, NEW r \in Call, NEW label,
           call' = [call EXCEPT ![c] = r], app' = [app EXCEPT ![c] = label],
           failed' = failed,
           \A d \in Keys \ {c} :
              /\ taken'[d] = taken[d] /\ cancels'[d] = cancels[d]
              /\ \A k \in Closers : closer'[<<d, k>>] = closer[<<d, k>>]
              /\ d \in byUuid' <=> d \in byUuid
              /\ d \in bySeq' <=> d \in bySeq
    PROVE  /\ call' \in [Keys -> Call] /\ call'[c] = r
           /\ app'[c] = label
           /\ \A d \in Keys \ {c} : app'[d] = app[d] /\ CallInv(d)'
  <1>1. app \in [Keys -> AppLabels] /\ call \in [Keys -> Call] /\ \A d \in Keys : CallInv(d)
    BY DEF SubInv, TypeOK
  <1>2. /\ call' \in [Keys -> Call] /\ call'[c] = r /\ app'[c] = label
        /\ \A d \in Keys \ {c} : call'[d] = call[d] /\ app'[d] = app[d]
    BY <1>1
  <1>3. ASSUME NEW d \in Keys \ {c} PROVE CallInv(d)'
    BY <1>1, <1>2, OtherCall
  <1>4. QED
    BY <1>2, <1>3

\* The call is given up and both maps forget it.
LEMMA AbandonInv ==
    ASSUME SubInv, NEW c \in Keys, Abandon(c)
    PROVE  SubInv'
  <1> DEFINE r == [NewCall EXCEPT !.local_closed = TRUE]
  <1>1. /\ app \in [Keys -> AppLabels] /\ app[c] = "abandon" /\ CallInv(c)
        /\ byUuid \subseteq Keys /\ bySeq \subseteq Keys
    BY DEF SubInv, TypeOK, Abandon
  <1>2. /\ call' = [call EXCEPT ![c] = r] /\ app' = [app EXCEPT ![c] = "raised"]
        /\ byUuid' = byUuid \ {c} /\ bySeq' = bySeq \ {c} /\ asleep' = {}
        /\ UNCHANGED <<server, failed, ready, preparing, anchor, lastSeen, closer, connection,
                      finishing, history>>
    BY DEF Abandon, Detach, NotifyAll, Goto
  <1>3. /\ r \in Call /\ r.receive = 0 /\ r.request_seq = 0 /\ ~r.terminal /\ ~r.error
        /\ r.local_closed /\ r.close = "no" /\ r.queue = <<>>
    BY NewCallType DEF NewCall, Call
  <1> HIDE DEF r
  <1>4. /\ call' \in [Keys -> Call] /\ call'[c] = r /\ app'[c] = "raised"
        /\ \A d \in Keys \ {c} : app'[d] = app[d] /\ CallInv(d)'
    BY <1>2, <1>3, OneCallKeeps DEF history
  <1>5. CallInv(c)'
    BY <1>1, <1>2, <1>3, <1>4
    DEF CallInv, StageInv, RouteInv, AgreeInv, ErrorInv, CloseInv, Open, Begun, Opening, HandedOut,
        history
  <1>6. TypeOK'
    BY <1>1, <1>2, <1>4 DEF SubInv, TypeOK, AppLabels, server, connection, history
  <1>7. LogInv' /\ PrepInv' /\ FinishInv'
    BY <1>1, <1>2, <1>4 DEF SubInv, LogInv, PrepInv, FinishInv, Preparing, Opening, server,
                          connection, history
  <1>8. QED
    BY <1>4, <1>5, <1>6, <1>7 DEF SubInv

\* A message is only handed out once reply and log agree on the seq.
LEMMA NextMessageInv ==
    ASSUME SubInv, NEW c \in Keys, NextMessage(c)
    PROVE  SubInv'
  <1>1. /\ app \in [Keys -> AppLabels] /\ call \in [Keys -> Call] /\ CallInv(c)
        /\ taken \in [Keys -> Seq(Entries)] /\ app[c] = "next"
        /\ UNCHANGED <<server, shared, closer, connection, finishing, cancels, callbacks, faults>>
    BY DEF SubInv, TypeOK, NextMessage
  <1>2. CASE call[c].queue # <<>>
    <2> DEFINE q == call[c].queue
               r == [call[c] EXCEPT !.queue = Tail(@)]
    <2>1. PICK label \in {"done", "next"} : app' = [app EXCEPT ![c] = label]
      BY <1>2 DEF NextMessage, Goto
    <2>2. /\ call' = [call EXCEPT ![c].queue = Tail(@)]
          /\ taken' = [taken EXCEPT ![c] = Append(@, Head(q))] /\ asleep' = asleep
      BY <1>2 DEF NextMessage
    <2>3. q \in Seq(Entries) /\ Tail(q) \in Seq(Entries) /\ Head(q) \in Entries
      BY <1>1, <1>2, HeadTailProperties DEF Call
    <2>4. /\ r \in Call /\ r.request_seq = call[c].request_seq /\ r.receive = call[c].receive
          /\ r.terminal = call[c].terminal /\ r.error = call[c].error
          /\ r.local_closed = call[c].local_closed /\ r.close = call[c].close
      BY <1>1, <2>3 DEF Call
    <2>5. call' = [call EXCEPT ![c] = r]
      BY <1>1, <2>2
    <2>6. call[c].receive = call[c].request_seq /\ call[c].receive # 0
      BY <1>1, <1>2 DEF CallInv, StageInv, AgreeInv, HandedOut
    <2>7. taken' \in [Keys -> Seq(Entries)] /\ \A d \in Keys \ {c} : taken'[d] = taken[d]
      BY <1>1, <2>2, <2>3, AppendProperties
    <2> HIDE DEF r
    <2>8. /\ call' \in [Keys -> Call] /\ call'[c] = r /\ app'[c] = label
          /\ \A d \in Keys \ {c} : app'[d] = app[d] /\ CallInv(d)'
      BY <1>1, <2>1, <2>4, <2>5, <2>7, OneCallKeeps DEF shared
    <2>9. CallInv(c)'
      BY <1>1, <2>4, <2>6, <2>8
      DEF CallInv, StageInv, RouteInv, AgreeInv, ErrorInv, CloseInv, Open, Begun, Opening,
          HandedOut, shared
    <2>10. TypeOK'
      BY <1>1, <2>1, <2>2, <2>7, <2>8 DEF SubInv, TypeOK, AppLabels, HandedOut, server, shared,
                                         connection
    <2>11. LogInv' /\ PrepInv' /\ FinishInv'
      BY <1>1, <2>8 DEF SubInv, LogInv, PrepInv, FinishInv, Preparing, Opening, server, shared,
                       connection
    <2>12. QED
      BY <2>8, <2>9, <2>10, <2>11 DEF SubInv
  <1>3. CASE call[c].queue = <<>>
    <2>1. UNCHANGED <<call, taken>>
      BY <1>3 DEF NextMessage
    <2>2. PICK label \in {"next", "failed", "stopped"} :
              app' = [app EXCEPT ![c] = label] /\ asleep' \subseteq Threads
      <3>1. app = [app EXCEPT ![c] = "next"]
        BY <1>1
      <3>2. asleep' \subseteq Threads
        BY DEF SubInv, TypeOK, NextMessage, Sleep, App, Threads
      <3>3. QED
        BY <1>3, <3>1, <3>2 DEF NextMessage, Goto
    <2>3. call' = [call EXCEPT ![c] = call[c]] /\ call[c] \in Call
      BY <1>1, <2>1
    <2>4. /\ app'[c] = label
          /\ \A d \in Keys \ {c} : app'[d] = app[d] /\ CallInv(d)'
      BY <1>1, <2>1, <2>2, <2>3, OneCallKeeps DEF shared
    <2>5. CallInv(c)'
      BY <1>1, <2>1, <2>4
      DEF CallInv, StageInv, RouteInv, AgreeInv, ErrorInv, CloseInv, Open, Begun, Opening,
          HandedOut, shared
    <2>6. TypeOK'
      BY <1>1, <2>1, <2>2 DEF SubInv, TypeOK, AppLabels, HandedOut, server, shared, connection
    <2>7. LogInv' /\ PrepInv' /\ FinishInv'
      BY <1>1, <2>4 DEF SubInv, LogInv, PrepInv, FinishInv, Preparing, Opening, server, shared,
                       connection
    <2>8. QED
      BY <2>4, <2>5, <2>6, <2>7 DEF SubInv
  <1>4. QED
    BY <1>2, <1>3

\* published(): the seqs agree, or the call is invalidated and everything fails.
LEMMA PublishedInv ==
    ASSUME SubInv, NEW c \in Keys, NEW seq \in 1..(MaxSeq + 1), Published(c, seq) PROVE SubInv'
  <1> DEFINE r == [call[c] EXCEPT !.request_seq = seq]
  <1>1. /\ app \in [Keys -> AppLabels] /\ call \in [Keys -> Call] /\ CallInv(c) /\ app[c] = "sent"
        /\ UNCHANGED <<server, closer, connection, taken, cancels, callbacks>>
    BY DEF SubInv, TypeOK, Published
  <1>2. faults' \in 0..MaxFaults
    <2>1. faults' = faults \/ (faults < MaxFaults /\ faults' = faults + 1)
      BY DEF Published, Fault
    <2>2. faults \in 0..MaxFaults /\ MaxFaults \in Nat
      BY SubscriptionAssumption DEF SubInv, TypeOK
    <2>3. QED
      BY <2>1, <2>2
  <1>3. seq # 0 /\ r \in Call /\ r.request_seq = seq /\ r.receive = call[c].receive
        /\ r.terminal = call[c].terminal /\ r.error = call[c].error /\ r.queue = call[c].queue
        /\ r.local_closed = call[c].local_closed /\ r.close = call[c].close
    <2>1. seq # 0 /\ seq \in 0..(MaxSeq + 1)
      BY SubscriptionAssumption
    <2>2. call[c] \in Call
      BY <1>1
    <2>3. QED
      BY <2>1, <2>2 DEF Call
  <1>4. AfterPublishing(c) \in {"return", "next"}
    BY DEF AfterPublishing
  <1>5. CASE /\ ~Disagrees(r) \/ failed
             /\ call' = [call EXCEPT ![c] = IF Disagrees(r) THEN Invalidated(r) ELSE r]
             /\ Goto(c, AfterPublishing(c)) /\ NotifyAll /\ UNCHANGED <<shared, finishing>>
    <2> DEFINE x == IF Disagrees(r) THEN Invalidated(r) ELSE r
    <2>1. /\ x \in Call /\ x.request_seq = seq /\ x.receive = r.receive /\ x.terminal = r.terminal
          /\ x.close = r.close
          /\ IF Disagrees(r) THEN failed /\ x.queue = <<>> /\ x.error /\ x.local_closed
             ELSE x = r
      <3>1. CASE Disagrees(r)
        <4>1. x = Invalidated(r) /\ failed
          BY <1>5, <3>1
        <4>2. /\ Invalidated(r) \in Call /\ Invalidated(r).queue = <<>>
              /\ Invalidated(r).error /\ Invalidated(r).local_closed
              /\ Invalidated(r).request_seq = r.request_seq
              /\ Invalidated(r).receive = r.receive /\ Invalidated(r).terminal = r.terminal
              /\ Invalidated(r).close = r.close
          <5>1. r \in Call
            BY <1>3
          <5> HIDE DEF r
          <5>2. /\ Invalidated(r) \in Call /\ Invalidated(r).queue = <<>>
                /\ Invalidated(r).error /\ Invalidated(r).local_closed
            BY <5>1, CallFields
          <5>3. /\ Invalidated(r).request_seq = r.request_seq
                /\ Invalidated(r).receive = r.receive /\ Invalidated(r).terminal = r.terminal
                /\ Invalidated(r).close = r.close
            BY <5>1, CallFields
          <5>4. QED
            BY <5>2, <5>3
        <4>3. QED
          BY <1>3, <3>1, <4>1, <4>2
      <3>2. CASE ~Disagrees(r)
        <4>1. x = r
          BY <3>2
        <4>2. QED
          BY <1>3, <3>2, <4>1
      <3>3. QED
        BY <3>1, <3>2
    <2>2. /\ call' \in [Keys -> Call] /\ call'[c] = x /\ app'[c] = AfterPublishing(c)
          /\ \A d \in Keys \ {c} : app'[d] = app[d] /\ CallInv(d)'
      <3>1. call' = [call EXCEPT ![c] = x] /\ app' = [app EXCEPT ![c] = AfterPublishing(c)]
            /\ UNCHANGED <<failed, byUuid, bySeq>>
        BY <1>5 DEF Goto, shared
      <3>2. QED
        <4> HIDE DEF x, r
        <4> QED BY <1>1, <2>1, <3>1, OneCallKeeps
    <2> HIDE DEF x, r
    <2>3. CallInv(c)'
      <3>1. StageInv(c)'
        BY <1>1, <1>3, <1>4, <1>5, <2>1, <2>2 DEF CallInv, StageInv, Opening, HandedOut, shared
      <3>2. RouteInv(c)'
        BY <1>1, <1>3, <1>4, <1>5, <2>1, <2>2
        DEF CallInv, RouteInv, Open, Begun, Opening, HandedOut, shared
      <3>3. AgreeInv(c)'
        BY <1>1, <1>3, <1>5, <2>1, <2>2
        DEF CallInv, StageInv, AgreeInv, HandedOut, Disagrees, shared
      <3>4. ErrorInv(c)' /\ CloseInv(c)'
        BY <1>1, <1>3, <1>4, <1>5, <2>1, <2>2
        DEF CallInv, ErrorInv, CloseInv, Begun, Opening, shared
      <3>5. QED
        BY <3>1, <3>2, <3>3, <3>4 DEF CallInv
    <2>4. TypeOK'
      BY <1>1, <1>2, <1>4, <1>5, <2>2
      DEF SubInv, TypeOK, Goto, NotifyAll, AppLabels, HandedOut, server, shared, connection
    <2>5. LogInv' /\ PrepInv' /\ FinishInv'
      BY <1>1, <1>4, <1>5, <2>2 DEF SubInv, LogInv, PrepInv, FinishInv, Preparing, Opening, server,
                                   shared, connection
    <2>6. QED
      BY <2>2, <2>3, <2>4, <2>5 DEF SubInv
  <1>6. CASE /\ FailLocked([call EXCEPT ![c] = Invalidated(r)], active)
             /\ Goto(c, "disputed") /\ UNCHANGED preparing
    <2> DEFINE cs == [call EXCEPT ![c] = Invalidated(r)]
    <2>1. cs \in [Keys -> Call] /\ cs[c] = Invalidated(r) /\ \A d \in Keys \ {c} : cs[d] = call[d]
      BY <1>1, <1>3, CallFields
    <2>2. app' = [app EXCEPT ![c] = "disputed"]
      BY <1>6 DEF Goto
    <2>3. \A d \in Keys : Treated(d, cs[d])
      BY <1>1, <2>1, <2>2 DEF Treated
    <2> HIDE DEF cs
    <2>4. FailLocked(cs, active)
      BY <1>6 DEF cs
    <2>5. call' \in [Keys -> Call] /\ \A d \in Keys : CallInv(d)'
      BY <1>1, <2>1, <2>3, <2>4, FailKeeps
    <2>6. TypeOK'
      BY <1>1, <1>2, <1>6, <2>2, <2>4, <2>5
      DEF SubInv, TypeOK, FailLocked, NotifyAll, AppLabels, server, connection
    <2>7. LogInv' /\ PrepInv' /\ FinishInv'
      BY <1>1, <1>6, <2>2, <2>4
      DEF SubInv, LogInv, PrepInv, FinishInv, FailLocked, Preparing, Opening, server, connection
    <2>8. QED
      BY <2>5, <2>6, <2>7 DEF SubInv
  <1>7. QED
    BY <1>5, <1>6 DEF Published

\* Every step of create() and of the iteration.
LEMMA AppInv == ASSUME SubInv, NEW c \in Keys, AppStep(c) PROVE SubInv'
  BY PrepareInv, ReadStatusInv, StartReaderInv, StartFailsInv, FailPrepareInv, LabelInv,
     RegisterInv, GateInv, PublishedInv, AbandonInv, NextMessageInv
  DEF AppStep, Answer

-----------------------------------------------------------------------------
(* close(). *)

\* A step of one close() that changes at most its call.
LEMMA CloserKeeps ==
    ASSUME SubInv, NEW c \in Keys, NEW k \in Closers, NEW label \in CloserLabels, NEW r \in Call,
           closer' = [closer EXCEPT ![<<c, k>>] = label], call' = [call EXCEPT ![c] = r],
           /\ sent' \subseteq Keys \X {"request", "cancel"} /\ asleep' \subseteq Threads
           /\ byUuid' \in {byUuid, byUuid \ {c}} /\ bySeq' \in {bySeq, bySeq \ {c}}
           /\ cancels' \in {cancels, [cancels EXCEPT ![c] = @ + 1]},
           UNCHANGED <<log, failed, ready, preparing, anchor, lastSeen, app, connection, finishing,
                       taken, callbacks, faults>>,
           CallInv(c)'
    PROVE  SubInv'
  <1>1. /\ app \in [Keys -> AppLabels] /\ closer \in [Keys \X Closers -> CloserLabels]
        /\ cancels \in [Keys -> Nat] /\ byUuid \subseteq Keys /\ bySeq \subseteq Keys
    BY DEF SubInv, TypeOK
  <1>2. closer' \in [Keys \X Closers -> CloserLabels] /\ cancels' \in [Keys -> Nat]
    BY <1>1
  <1>3. ASSUME NEW d \in Keys \ {c}
        PROVE  /\ \A l \in Closers : closer'[<<d, l>>] = closer[<<d, l>>]
               /\ cancels'[d] = cancels[d]
    BY <1>1, <1>3
  <1>4. ASSUME NEW d \in Keys \ {c}
        PROVE  (d \in byUuid' <=> d \in byUuid) /\ (d \in bySeq' <=> d \in bySeq)
    BY <1>4
  <1>5. app' = [app EXCEPT ![c] = app[c]] /\ taken' = taken /\ failed' = failed
    BY <1>1
  <1>6. call' \in [Keys -> Call] /\ \A d \in Keys \ {c} : CallInv(d)'
    BY <1>3, <1>4, <1>5, OneCallKeeps
  <1>7. TypeOK'
    BY <1>1, <1>2, <1>6 DEF SubInv, TypeOK, connection
  <1>8. LogInv' /\ PrepInv' /\ FinishInv'
    BY DEF SubInv, LogInv, PrepInv, FinishInv, connection
  <1>9. QED
    BY <1>6, <1>7, <1>8 DEF SubInv

\* What is known of the call that is being closed.
LEMMA CloserFacts ==
    ASSUME SubInv, NEW c \in Keys, NEW k \in Closers
    PROVE  /\ call \in [Keys -> Call] /\ closer \in [Keys \X Closers -> CloserLabels]
           /\ cancels \in [Keys -> Nat] /\ CallInv(c)
           /\ closer[<<c, k>>] # "idle" => app[c] \in HandedOut
           /\ call = [call EXCEPT ![c] = call[c]]
           /\ cancels[c] \in {0, 1}
           /\ sent \subseteq Keys \X {"request", "cancel"} /\ asleep \subseteq Threads
  BY DEF SubInv, TypeOK, CallInv, StageInv, CloseInv

\* The claim of a close(), or the wait for another thread's.
LEMMA CloseStepInv ==
    ASSUME SubInv, NEW c \in Keys, NEW k \in Closers, Close(c, k)
    PROVE  SubInv'
  <1>1. /\ call \in [Keys -> Call] /\ closer \in [Keys \X Closers -> CloserLabels]
        /\ CallInv(c) /\ app[c] \in HandedOut /\ closer[<<c, k>>] \in {"idle", "waiting"}
        /\ sent \subseteq Keys \X {"request", "cancel"} /\ asleep \subseteq Threads
    BY CloserFacts DEF Close
  <1>2. UNCHANGED <<server, failed, ready, preparing, anchor, lastSeen, app, connection, finishing,
                    history>>
    BY DEF Close
  <1>3. PICK label \in {"waiting", "closed", "finish", "gate"} :
            closer' = [closer EXCEPT ![<<c, k>>] = label]
            /\ (label \in {"finish", "gate"} => call[c].close = "no")
            /\ (label = "gate" => ~call[c].terminal)
    BY DEF Close, CloseGoto, CancelDue
  <1>4. /\ closer'[<<c, k>>] = label
        /\ \A l \in Closers \ {k} : closer'[<<c, l>>] = closer[<<c, l>>]
    BY <1>1, <1>3
  <1>5. asleep' \subseteq Threads
    BY <1>1 DEF Close, Sleep, NotifyAll, Threads
  <1>6. CASE call[c].close = "no"
    <2> DEFINE r == Claimed(call[c])
    <2>1. call' = [call EXCEPT ![c] = r] /\ byUuid' = byUuid \ {c} /\ bySeq' = bySeq \ {c}
      BY <1>6 DEF Close, Detach
    <2>2. /\ r \in Call /\ r.request_seq = call[c].request_seq /\ r.receive = call[c].receive
          /\ r.terminal = call[c].terminal /\ r.error = call[c].error /\ r.queue = call[c].queue
          /\ r.local_closed /\ r.close = "started"
      BY <1>1 DEF Claimed, Call
    <2> HIDE DEF r
    <2>3. call'[c] = r
      BY <1>1, <2>1
    <2>4. CallInv(c)'
      <3>1. StageInv(c)' /\ RouteInv(c)'
        BY <1>1, <1>2, <2>1, <2>2, <2>3
        DEF CallInv, StageInv, RouteInv, Open, Opening, HandedOut, history
      <3>2. AgreeInv(c)' /\ ErrorInv(c)'
        BY <1>1, <1>2, <2>2, <2>3 DEF CallInv, AgreeInv, ErrorInv, Begun, history
      <3>3. CloseInv(c)'
        <4>1. /\ cancels'[c] = 0 /\ label \in {"waiting", "closed", "finish", "gate"}
              /\ label = "gate" => ~call'[c].terminal
              /\ \A l \in Closers \ {k} : closer'[<<c, l>>] \notin {"gate", "sent", "finish"}
          BY <1>1, <1>2, <1>3, <1>4, <1>6, <2>2, <2>3 DEF CallInv, CloseInv, history
        <4>2. call'[c].close = "started" /\ call'[c].local_closed
          BY <2>2, <2>3
        <4>3. QED
          BY <1>4, <4>1, <4>2 DEF CloseInv
      <3>4. QED
        BY <3>1, <3>2, <3>3 DEF CallInv
    <2>5. QED
      BY <1>1, <1>2, <1>3, <1>5, <2>1, <2>2, <2>4, CloserKeeps
      DEF CloserLabels, server, history
  <1>7. CASE call[c].close # "no"
    <2>1. UNCHANGED <<call, byUuid, bySeq>> /\ label \in {"waiting", "closed"}
      BY <1>3, <1>7 DEF Close
    <2>2. call' = [call EXCEPT ![c] = call[c]] /\ call[c] \in Call
      BY <1>1, <2>1
    <2>3. CallInv(c)'
      <3>1. StageInv(c)' /\ RouteInv(c)'
        BY <1>1, <1>2, <2>1
        DEF CallInv, StageInv, RouteInv, Open, Begun, Opening, HandedOut, history
      <3>2. AgreeInv(c)' /\ ErrorInv(c)'
        BY <1>1, <1>2, <2>1 DEF CallInv, AgreeInv, ErrorInv, Begun, history
      <3>3. CloseInv(c)'
        BY <1>1, <1>2, <1>4, <2>1 DEF CallInv, CloseInv, history
      <3>4. QED
        BY <3>1, <3>2, <3>3 DEF CallInv
    <2>4. QED
      BY <1>1, <1>2, <1>3, <1>5, <2>1, <2>2, <2>3, CloserKeeps
      DEF CloserLabels, server, history
  <1>8. QED
    BY <1>6, <1>7

\* Only the thread with the claim gets to publish the cancel, and once.
LEMMA CloseGateInv ==
    ASSUME SubInv, NEW c \in Keys, NEW k \in Closers, CloseGate(c, k)
    PROVE  SubInv'
  <1>1. /\ call \in [Keys -> Call] /\ closer \in [Keys \X Closers -> CloserLabels]
        /\ cancels \in [Keys -> Nat] /\ CallInv(c) /\ app[c] \in HandedOut
        /\ sent \subseteq Keys \X {"request", "cancel"} /\ asleep \subseteq Threads
        /\ closer[<<c, k>>] = "gate"
    BY CloserFacts DEF CloseGate
  <1>2. UNCHANGED <<log, shared, call, app, connection, finishing, asleep, taken, callbacks,
                    faults>>
    BY DEF CloseGate
  <1>3. PICK label \in {"finish", "sent"} :
            /\ closer' = [closer EXCEPT ![<<c, k>>] = label]
            /\ \/ UNCHANGED <<sent, cancels>>
               \/ sent' = sent \cup {<<c, "cancel">>} /\ cancels' = [cancels EXCEPT ![c] = @ + 1]
    BY DEF CloseGate, CloseGoto
  <1>4. /\ closer'[<<c, k>>] = label
        /\ \A l \in Closers \ {k} : closer'[<<c, l>>] = closer[<<c, l>>]
        /\ cancels'[c] \in {cancels[c], cancels[c] + 1}
    BY <1>1, <1>3
  <1>5. sent' \subseteq Keys \X {"request", "cancel"}
    BY <1>1, <1>3
  <1>6. CallInv(c)'
    <2>1. StageInv(c)' /\ RouteInv(c)'
      BY <1>1, <1>2 DEF CallInv, StageInv, RouteInv, Open, Begun, Opening, HandedOut, shared
    <2>2. AgreeInv(c)' /\ ErrorInv(c)'
      BY <1>1, <1>2 DEF CallInv, AgreeInv, ErrorInv, Begun, shared
    <2>3. CloseInv(c)'
      BY <1>1, <1>2, <1>3, <1>4 DEF CallInv, CloseInv
    <2>4. QED
      BY <2>1, <2>2, <2>3 DEF CallInv
  <1>7. call' = [call EXCEPT ![c] = call[c]] /\ call[c] \in Call
    BY <1>1, <1>2
  <1>8. QED
    BY <1>1, <1>2, <1>3, <1>5, <1>6, <1>7, CloserKeeps DEF CloserLabels, shared

\* The end of the cancel's publication and of the close().
LEMMA CloseEndInv ==
    ASSUME SubInv, NEW c \in Keys, NEW k \in Closers, CloseAnswer(c, k) \/ CloseFinish(c, k)
    PROVE  SubInv'
  <1>1. /\ call \in [Keys -> Call] /\ closer \in [Keys \X Closers -> CloserLabels]
        /\ CallInv(c) /\ app[c] \in HandedOut
        /\ sent \subseteq Keys \X {"request", "cancel"} /\ asleep \subseteq Threads
    BY CloserFacts DEF CloseAnswer, CloseFinish
  <1>2. UNCHANGED <<server, shared, app, connection, finishing, history>>
    BY DEF CloseAnswer, CloseFinish
  <1>3. PICK label \in {"finish", "closed"}, r \in Call :
            /\ closer[<<c, k>>] \in {"sent", "finish"}
            /\ closer' = [closer EXCEPT ![<<c, k>>] = label] /\ asleep' \in {asleep, {}}
            /\ call' = [call EXCEPT ![c] = r]
            /\ r.request_seq = call[c].request_seq /\ r.receive = call[c].receive
            /\ r.terminal = call[c].terminal /\ r.error = call[c].error
            /\ r.queue = call[c].queue /\ r.local_closed = call[c].local_closed
            /\ r.close # "no" /\ (label = "finish" => r.close = "started")
    <2>1. CASE CloseAnswer(c, k)
      <3>1. call' = [call EXCEPT ![c] = call[c]] /\ call[c] \in Call
        BY <1>1, <2>1 DEF CloseAnswer
      <3>2. call[c].close = "started"
        BY <1>1, <2>1 DEF CloseAnswer, CallInv, CloseInv
      <3>3. QED
        BY <2>1, <3>1, <3>2 DEF CloseAnswer, CloseGoto
    <2>2. CASE CloseFinish(c, k)
      <3>1. call' = [call EXCEPT ![c] = [call[c] EXCEPT !.close = "done"]]
        BY <1>1, <2>2 DEF CloseFinish
      <3>2. [call[c] EXCEPT !.close = "done"] \in Call
        BY <1>1 DEF Call
      <3>3. call[c] \in Call
        BY <1>1
      <3>4. QED
        BY <2>2, <3>1, <3>2, <3>3 DEF CloseFinish, CloseGoto, NotifyAll, Call
    <2>3. QED
      BY <2>1, <2>2
  <1>4. /\ closer'[<<c, k>>] = label /\ call'[c] = r
        /\ \A l \in Closers \ {k} : closer'[<<c, l>>] = closer[<<c, l>>]
    BY <1>1, <1>3
  <1>5. CallInv(c)'
    <2>1. StageInv(c)' /\ RouteInv(c)'
      BY <1>1, <1>2, <1>3, <1>4
      DEF CallInv, StageInv, RouteInv, Open, Begun, Opening, HandedOut, shared, history
    <2>2. AgreeInv(c)' /\ ErrorInv(c)'
      BY <1>1, <1>2, <1>3, <1>4 DEF CallInv, AgreeInv, ErrorInv, Begun, shared, history
    <2>3. CloseInv(c)'
      BY <1>1, <1>2, <1>3, <1>4 DEF CallInv, CloseInv, history
    <2>4. QED
      BY <2>1, <2>2, <2>3 DEF CallInv
  <1>6. QED
    BY <1>1, <1>2, <1>3, <1>5, CloserKeeps DEF CloserLabels, server, shared, history

\* Every step of close().
LEMMA CloserInv ==
    ASSUME SubInv, NEW c \in Keys, NEW k \in Closers, Close(c, k) \/ CloserStep(c, k)
    PROVE  SubInv'
  BY CloseStepInv, CloseGateInv, CloseEndInv DEF CloserStep

-----------------------------------------------------------------------------
(* The reader and the thread that cleans up, with the calls left alone. *)

\* Nothing is lost when no call, map or thread of the application moves.
LEMMA CallsKeep ==
    ASSUME SubInv, UNCHANGED <<call, app, closer, taken, cancels, failed, byUuid, bySeq>>
    PROVE  \A d \in Keys : CallInv(d)'
  BY OtherCall DEF SubInv

\* A step of the reader that touches its connection and what it has read.
LEMMA ReaderKeeps ==
    ASSUME SubInv, reader \notin {"off", "ended", "failing"},
           reader' \in ReaderLabels \ {"off", "failing"},
           reader' \in {"bad", "parsed"} => cursor' \in DOMAIN log,
           /\ attempt' \in 0..MaxRetries /\ stream' \in {"none", "open", "cancelled"}
           /\ cursor' \in Nat /\ active' \in BOOLEAN /\ lastSeen' \in Nat
           /\ faults' \in 0..MaxFaults /\ asleep' \in {asleep, {}},
           finishing = "over" => reader' \in {"final", "ended"},
           UNCHANGED <<server, failed, ready, preparing, anchor, byUuid, bySeq, call, app, closer,
                       finishing, taken, cancels, callbacks>>
    PROVE  SubInv'
  <1>1. \A d \in Keys : CallInv(d)'
    BY CallsKeep
  <1>2. TypeOK'
    BY DEF SubInv, TypeOK, server
  <1>3. LogInv' /\ PrepInv' /\ FinishInv'
    BY DEF SubInv, LogInv, PrepInv, FinishInv, server
  <1>4. QED
    BY <1>1, <1>2, <1>3 DEF SubInv

\* What the steps of the reader need to know.
LEMMA ReaderFacts ==
    ASSUME SubInv
    PROVE  /\ attempt \in 0..MaxRetries /\ MaxRetries \in Nat
           /\ stream \in {"none", "open", "cancelled"}
           /\ cursor \in Nat /\ active \in BOOLEAN /\ lastSeen \in Nat
           /\ faults \in 0..MaxFaults /\ (faults < MaxFaults => faults + 1 \in 0..MaxFaults)
           /\ call \in [Keys -> Call] /\ \A d \in Keys : Treated(d, call[d]) \/ app' # app
           /\ finishing = "over" => failed /\ reader \in {"off", "final", "ended"}
           /\ DOMAIN log \subseteq Nat
  <1>1. TypeOK /\ FinishInv
    BY DEF SubInv
  <1>2. DOMAIN log \subseteq Nat
    BY <1>1, LogFacts
  <1>3. /\ attempt \in 0..MaxRetries /\ MaxRetries \in Nat
        /\ stream \in {"none", "open", "cancelled"}
        /\ cursor \in Nat /\ active \in BOOLEAN /\ lastSeen \in Nat
        /\ faults \in 0..MaxFaults /\ (faults < MaxFaults => faults + 1 \in 0..MaxFaults)
        /\ call \in [Keys -> Call]
    BY <1>1, SubscriptionAssumption DEF TypeOK
  <1>4. \A d \in Keys : Treated(d, call[d]) \/ app' # app
    BY DEF Treated
  <1>5. QED
    BY <1>1, <1>2, <1>3, <1>4 DEF FinishInv

\* Connecting, waiting for the start, and the loop of the reader.
LEMMA ConnectionInv ==
    ASSUME SubInv, Connect \/ Subscribed \/ Started \/ Read \/ ReaderEnd PROVE SubInv'
  <1>1. UNCHANGED <<server, failed, ready, preparing, anchor, lastSeen, byUuid, bySeq, call, app,
                    closer, finishing, taken, cancels, callbacks>>
    BY DEF Connect, Subscribed, Started, Read, ReaderEnd, ReaderOnly, shared
  <1>2. reader \in {"connect", "subscribed", "starting", "reading", "final"}
        /\ reader' \in {"connect", "subscribed", "starting", "reading", "waiting", "lost", "final",
                       "ended"}
        /\ (reader = "final" => reader' = "ended")
    BY DEF Connect, Subscribed, Started, Read, ReaderEnd, Leave, Unconnected
  <1>3. /\ attempt' \in 0..MaxRetries /\ stream' \in {"none", "open", "cancelled"}
        /\ active' \in BOOLEAN
    <2>1. attempt' \in {attempt, attempt + 1} /\ (attempt' # attempt => attempt < MaxRetries)
      BY ReaderFacts DEF Connect, Subscribed, Started, Read, ReaderEnd, Leave, Unconnected
    <2>2. stream' \in {stream, "none", "open"}
      BY DEF Connect, Subscribed, Started, Read, ReaderEnd, Leave, Unconnected
    <2>3. active' = active \/ active' = TRUE \/ active' = FALSE
      BY DEF Connect, Subscribed, Started, Read, ReaderEnd, Leave, Unconnected
    <2>4. active' \in BOOLEAN
      BY <2>3, ReaderFacts, Zenon
    <2>5. attempt' \in 0..MaxRetries
      BY <2>1, ReaderFacts
    <2>6. QED
      BY <2>2, <2>4, <2>5, ReaderFacts
  <1>4. cursor' \in Nat
    BY ReaderFacts
    DEF Connect, Subscribed, Started, Read, ReaderEnd, Leave, Unconnected, FirstDelivered
  <1>5. faults' \in 0..MaxFaults /\ asleep' \in {asleep, {}}
    BY ReaderFacts DEF Connect, Subscribed, Started, Read, ReaderEnd, Fault, NotifyAll
  <1>6. QED
    BY <1>1, <1>2, <1>3, <1>4, <1>5, ReaderFacts, ReaderKeeps DEF ReaderLabels

\* A message arrives.
LEMMA ReceiveInv == ASSUME SubInv, Receive PROVE SubInv'
  <1>1. UNCHANGED <<server, failed, ready, preparing, anchor, byUuid, bySeq, call, app, closer,
                    attempt, stream, active, finishing, taken, cancels, callbacks, faults>>
    BY DEF Receive, history
  <1>2. /\ reader = "waiting" /\ reader' \in {"reading", "bad", "parsed", "final"}
        /\ reader' \in {"bad", "parsed"} => cursor' \in DOMAIN log
        /\ finishing = "over" => reader' = "final"
    BY ReaderFacts DEF Receive
  <1>3. cursor' \in Nat /\ lastSeen' \in Nat /\ asleep' \in {asleep, {}}
    BY ReaderFacts DEF Receive, NotifyAll
  <1>4. QED
    BY <1>1, <1>2, <1>3, ReaderFacts, ReaderKeeps DEF ReaderLabels

\* The connection is lost for good or for now, or a message does not parse.
LEMMA FaultInv == ASSUME SubInv, Lost \/ StreamBroken \/ BadMessage PROVE SubInv'
  <1>1. /\ UNCHANGED <<server, app, closer, cursor, taken, cancels, callbacks>>
        /\ reader \in {"lost", "waiting", "bad"}
        /\ stream' \in {stream, "none"} /\ active' \in BOOLEAN /\ attempt' \in 0..MaxRetries
        /\ faults' \in 0..MaxFaults
    <2>1. /\ UNCHANGED <<server, app, closer, cursor, taken, cancels, callbacks>>
          /\ reader \in {"lost", "waiting", "bad"} /\ stream' \in {stream, "none"}
      BY DEF Lost, StreamBroken, BadMessage, history
    <2>2. active' = active \/ active' = FALSE
      BY DEF Lost, StreamBroken, BadMessage
    <2>3. active' \in BOOLEAN
      BY <2>2, ReaderFacts, Zenon
    <2>4. attempt' = attempt \/ attempt' = 0
      BY DEF Lost, StreamBroken, BadMessage
    <2>5. faults' = faults \/ (faults < MaxFaults /\ faults' = faults + 1)
      BY DEF Lost, StreamBroken, BadMessage, Fault, history
    <2>6. attempt' \in 0..MaxRetries /\ faults' \in 0..MaxFaults
      BY <2>4, <2>5, ReaderFacts
    <2>7. QED
      BY <2>1, <2>3, <2>6
  <1>2. \A d \in Keys : Treated(d, call[d])
    BY <1>1, ReaderFacts
  <1>3. CASE /\ \/ failed /\ reader' = "final" /\ asleep' = asleep
                \/ ~failed /\ reader' = "connect" /\ asleep' = {}
             /\ UNCHANGED <<shared, call, finishing>>
    BY <1>1, <1>3, ReaderFacts, ReaderKeeps DEF ReaderLabels, shared
  <1>4. ASSUME NEW handle, FailLocked(call, handle), reader' = "failing",
               UNCHANGED <<preparing, attempt>>
        PROVE  SubInv'
    BY <1>1, <1>2, <1>4, ReaderFacts, ReaderFails
  <1>5. QED
    BY <1>3, <1>4 DEF Lost, StreamBroken, BadMessage, NotifyAll, connection

\* _finish_failure: the callback lets the threads that failed go on.
LEMMA FinishKeeps == ASSUME SubInv, Finish PROVE SubInv'
  <1>1. /\ failed /\ TypeOK /\ app \in [Keys -> AppLabels] /\ \A d \in Keys : CallInv(d)
        /\ UNCHANGED <<server, shared, call, closer, attempt, cursor, active, asleep, taken,
                      cancels, faults>>
    BY DEF SubInv, TypeOK, FinishInv, Finish, CancelStream, Join, Callback, connection, history
  <1>2. CASE CancelStream \/ Join
    <2>1. UNCHANGED <<app, reader, callbacks>>
      BY <1>2 DEF CancelStream, Join, connection, history
    <2>2. \A d \in Keys : CallInv(d)'
      BY <1>1, <2>1, CallsKeep DEF shared
    <2>3. TypeOK'
      BY <1>1, <1>2, <2>1 DEF TypeOK, CancelStream, Join, server, shared, connection
    <2>4. LogInv' /\ PrepInv' /\ FinishInv'
      BY <1>1, <1>2, <2>1 DEF SubInv, LogInv, PrepInv, FinishInv, CancelStream, Join, server, shared
    <2>5. QED
      BY <2>2, <2>3, <2>4 DEF SubInv
  <1>3. CASE Callback
    <2>1. /\ finishing = "callback" /\ finishing' = "over" /\ callbacks' = callbacks + 1
          /\ reader' = IF reader = "failing" THEN "final" ELSE reader
          /\ stream' = stream
      BY <1>3 DEF Callback
    <2>2. \A d \in Keys :
            \/ app'[d] = app[d]
            \/ app[d] = "failing" /\ app'[d] = "refused"
            \/ app[d] = "disputed" /\ app'[d] \in {"return", "next"}
      BY <1>3 DEF Callback, AfterPublishing
    <2>3. app' \in [Keys -> AppLabels]
      <3>1. DOMAIN app' = Keys /\ app' = [d \in Keys |-> app'[d]]
        BY <1>3 DEF Callback
      <3>2. \A d \in Keys : app'[d] \in AppLabels
        BY <1>1, <2>2 DEF AppLabels, Opening, HandedOut
      <3>3. QED
        BY <3>1, <3>2
    <2>4. ASSUME NEW d \in Keys PROVE CallInv(d)'
      <3>1. CallInv(d)
        BY <1>1
      <3>2. (d \in Begun)' <=> d \in Begun
        BY <2>2 DEF Begun, Opening
      <3>3. StageInv(d)'
        BY <1>1, <2>2, <3>1 DEF CallInv, StageInv, Opening, HandedOut, shared
      <3>4. RouteInv(d)'
        BY <1>1, <2>2, <3>1 DEF CallInv, RouteInv, Open, shared
      <3>5. AgreeInv(d)' /\ ErrorInv(d)' /\ CloseInv(d)'
        BY <1>1, <3>1, <3>2 DEF CallInv, AgreeInv, ErrorInv, CloseInv, shared
      <3>6. QED
        BY <3>3, <3>4, <3>5 DEF CallInv
    <2>5. TypeOK'
      BY <1>1, <2>1, <2>3 DEF TypeOK, ReaderLabels, server, shared
    <2>6. LogInv' /\ FinishInv'
      BY <1>1, <2>1 DEF SubInv, LogInv, FinishInv, server, shared
    <2>7. PrepInv'
      BY <1>1, <2>1, <2>2 DEF SubInv, PrepInv, Preparing, Opening, shared
    <2>8. QED
      BY <2>4, <2>5, <2>6, <2>7 DEF SubInv
  <1>4. QED
    BY <1>2, <1>3 DEF Finish

-----------------------------------------------------------------------------
(* _accept. *)

\* What is queued for a call leaves its seqs, its error and its close alone.
LEMMA QueuedFields ==
    ASSUME NEW r \in Call, NEW c, NEW m, NEW i \in 1..MaxSeq
    PROVE  LET x == Queued(r, c, m, i)
           IN  /\ x \in Call
               /\ x.request_seq = r.request_seq /\ x.receive = r.receive /\ x.error = r.error
               /\ x.local_closed = r.local_closed /\ x.close = r.close
  <1> DEFINE fault == Faulty(r, c, m)
             entry == [seq |-> i, fault |-> fault]
             head == r.head_seen \/ (m.kind = "result" /\ ~fault)
             linked == m.kind = "append" \/ (m.kind = "result" /\ ~m.body)
             chain == IF linked /\ ~fault THEN i ELSE r.chain_seq
             last == \/ fault \/ m.kind \in {"end", "cancel"}
                     \/ m.kind = "result" /\ m.body
  <1>1. fault \in BOOLEAN /\ head \in BOOLEAN /\ last \in BOOLEAN
    BY DEF Faulty
  <1>2. entry \in Entries /\ r.queue \in Seq(Entries) /\ chain \in 0..MaxSeq
    BY <1>1, SubscriptionAssumption DEF Entries, Call
  <1>3. Append(r.queue, entry) \in Seq(Entries)
    BY <1>2, AppendProperties
  <1>4. Queued(r, c, m, i) = [r EXCEPT !.queue = Append(@, entry), !.head_seen = head,
                                       !.chain_seq = chain, !.terminal = last]
    BY DEF Queued
  <1> HIDE DEF fault, entry, head, linked, chain, last
  <1> DEFINE x == [r EXCEPT !.queue = Append(@, entry), !.head_seen = head,
                            !.chain_seq = chain, !.terminal = last]
  <1>5. x \in Call
    BY <1>1, <1>2, <1>3 DEF Call
  <1>6. /\ x.request_seq = r.request_seq /\ x.receive = r.receive /\ x.error = r.error
        /\ x.local_closed = r.local_closed /\ x.close = r.close
    BY DEF Call
  <1>7. Queued(r, c, m, i) = x
    BY <1>4
  <1> HIDE DEF x
  <1>8. QED
    BY <1>5, <1>6, <1>7

\* The reader takes a message of the log for the calls that it is for.
LEMMA AcceptKeeps ==
    ASSUME SubInv, NEW i \in 1..MaxSeq, ~failed, ~Differs(i),
           IF IsRequest(log[i]) THEN AcceptRequest(i) ELSE AcceptOutput(i),
           UNCHANGED <<app, closer, taken, cancels, failed>>
    PROVE  /\ call' \in [Keys -> Call] /\ byUuid' \subseteq Keys /\ bySeq' \subseteq Keys
           /\ \A d \in Keys : CallInv(d)'
  <1>1. /\ call \in [Keys -> Call] /\ \A d \in Keys : CallInv(d)
        /\ byUuid \subseteq Keys /\ bySeq \subseteq Keys
    BY DEF SubInv, TypeOK
  <1>2. CASE /\ IsRequest(log[i]) /\ log[i].key \in byUuid /\ AcceptRequest(i)
    <2>0. PICK c \in Keys : c = log[i].key
      BY <1>1, <1>2
    <2> DEFINE r == [call[c] EXCEPT !.receive = i, !.chain_seq = i]
    <2>1. /\ call[c] \in Call /\ CallInv(c)
          /\ call' = [call EXCEPT ![c] = r]
          /\ byUuid' = byUuid \ {c} /\ bySeq' = bySeq \cup {c}
          /\ call[c].request_seq \in {0, i}
      BY <1>1, <1>2, <2>0 DEF AcceptRequest, Differs
    <2>2. i \in 0..MaxSeq /\ i # 0
      BY SubscriptionAssumption
    <2>3. /\ r \in Call /\ r.request_seq = call[c].request_seq /\ r.receive = i
          /\ r.terminal = call[c].terminal /\ r.error = call[c].error
          /\ r.queue = call[c].queue /\ r.local_closed = call[c].local_closed
          /\ r.close = call[c].close
      BY <2>1, <2>2 DEF Call
    <2> HIDE DEF r
    <2>4. call'[c] = r /\ call' \in [Keys -> Call] /\ \A d \in Keys \ {c} : call'[d] = call[d]
      BY <1>1, <2>1, <2>3
    <2>5. /\ Open(c) /\ call[c].receive = 0 /\ app[c] \notin {"uuid", "register"}
          /\ ~call[c].terminal
      BY <1>2, <2>0, <2>1 DEF CallInv, RouteInv, StageInv
    <2>6. CallInv(c)'
      <3>1. StageInv(c)'
        BY <2>1, <2>2, <2>3, <2>4, <2>5 DEF CallInv, StageInv, Open, Begun
      <3>2. RouteInv(c)'
        BY <2>1, <2>2, <2>3, <2>4, <2>5 DEF RouteInv, Open, Begun
      <3>3. AgreeInv(c)'
        BY <2>1, <2>2, <2>3, <2>4, <2>5 DEF CallInv, StageInv, AgreeInv, HandedOut
      <3>4. ErrorInv(c)' /\ CloseInv(c)'
        BY <2>1, <2>3, <2>4, <2>5 DEF CallInv, ErrorInv, CloseInv
      <3>5. QED
        BY <3>1, <3>2, <3>3, <3>4 DEF CallInv
    <2>7. \A d \in Keys \ {c} : CallInv(d)'
      BY <1>1, <2>1, <2>4, OtherCall
    <2>8. QED
      BY <1>1, <2>1, <2>4, <2>6, <2>7
  <1>3. CASE IsRequest(log[i]) /\ log[i].key \notin byUuid
    <2>1. UNCHANGED <<call, byUuid, bySeq>>
      BY <1>3 DEF AcceptRequest
    <2>2. QED
      BY <1>1, <2>1, CallsKeep
  <1>4. CASE ~IsRequest(log[i]) /\ AcceptOutput(i)
    <2> DEFINE m == log[i]
               x(d) == Queued(call[d], d, m, i)
    <2>1. PICK news \in SUBSET bySeq :
              /\ call' = [d \in Keys |-> IF d \in news THEN x(d) ELSE call[d]]
              /\ bySeq' = bySeq \ {d \in news : x(d).terminal} /\ byUuid' = byUuid
      <3> DEFINE mine == {d \in bySeq : call[d].receive = m.ref /\ d = m.key}
                 r == [d \in mine |-> x(d)]
                 news == {d \in mine : ~Ignored(call[d], d, m)}
      <3>1. /\ call' = [d \in Keys |-> IF d \in news THEN r[d] ELSE call[d]]
            /\ bySeq' = bySeq \ {d \in news : r[d].terminal} /\ byUuid' = byUuid
        BY <1>4 DEF AcceptOutput
      <3>2. news \in SUBSET bySeq /\ \A d \in news : r[d] = x(d)
        OBVIOUS
      <3> HIDE DEF news, r, x
      <3>3. QED
        BY <3>1, <3>2
    <2>2. ASSUME NEW d \in Keys, d \notin news PROVE call'[d] \in Call /\ CallInv(d)'
      <3>1. call'[d] = call[d] /\ (d \in bySeq' <=> d \in bySeq)
        BY <2>1, <2>2
      <3>2. QED
        BY <1>1, <2>1, <3>1, OtherCall
    <2>3. ASSUME NEW d \in Keys, d \in news PROVE call'[d] \in Call /\ CallInv(d)'
      <3>1. /\ call'[d] = x(d) /\ d \in bySeq /\ (d \in bySeq' <=> ~x(d).terminal)
        BY <2>1, <2>3
      <3>2. /\ x(d) \in Call /\ x(d).request_seq = call[d].request_seq
            /\ x(d).receive = call[d].receive /\ x(d).error = call[d].error
            /\ x(d).local_closed = call[d].local_closed /\ x(d).close = call[d].close
        BY <1>1, QueuedFields
      <3> HIDE DEF x
      <3>3. CallInv(d) /\ Open(d) /\ call[d].receive # 0 /\ ~call[d].error
        BY <1>1, <3>1 DEF CallInv, RouteInv, ErrorInv, Open
      <3>4. StageInv(d)'
        BY <3>1, <3>2, <3>3 DEF CallInv, StageInv, Open, Begun
      <3>5. RouteInv(d)'
        BY <2>1, <3>1, <3>2, <3>3 DEF CallInv, RouteInv, Open, Begun
      <3>6. AgreeInv(d)'
        BY <3>1, <3>2, <3>3 DEF CallInv, AgreeInv
      <3>7. ErrorInv(d)'
        BY <3>1, <3>2, <3>3 DEF CallInv, ErrorInv
      <3>8. CloseInv(d)'
        <4>1. /\ call[d].close = "no" /\ cancels[d] = 0
              /\ \A k \in Closers : closer[<<d, k>>] \notin {"gate", "sent", "finish"}
          BY <3>3 DEF CallInv, CloseInv, Open
        <4>2. call'[d].close = "no" /\ UNCHANGED <<cancels, closer>>
          BY <3>1, <3>2, <4>1
        <4>3. QED
          BY <4>1, <4>2 DEF CloseInv
      <3>9. QED
        BY <3>1, <3>2, <3>4, <3>5, <3>6, <3>7, <3>8 DEF CallInv
    <2>4. call' \in [Keys -> Call]
      <3>1. \A d \in Keys : call'[d] \in Call
        BY <2>2, <2>3
      <3>2. DOMAIN call' = Keys /\ call' = [d \in Keys |-> call'[d]]
        BY <2>1
      <3>3. QED
        BY <3>1, <3>2
    <2>5. QED
      BY <1>1, <2>1, <2>2, <2>3, <2>4
  <1>5. QED
    BY <1>2, <1>3, <1>4

\* _accept: nothing after a failure, a message for its calls, or a failure.
LEMMA AcceptInv == ASSUME SubInv, Accept PROVE SubInv'
  <1>1. /\ reader = "parsed" /\ cursor \in DOMAIN log /\ cursor \in 1..MaxSeq
        /\ call \in [Keys -> Call] /\ byUuid \subseteq Keys
        /\ UNCHANGED <<server, app, closer, attempt, stream, active, history>>
    <2>1. reader = "parsed" /\ cursor \in DOMAIN log
      BY DEF SubInv, LogInv, Accept
    <2>2. cursor \in 1..MaxSeq
      BY <2>1, LogFacts, SubscriptionAssumption DEF SubInv, LogInv
    <2>3. QED
      BY <2>1, <2>2 DEF SubInv, TypeOK, Accept
  <1>2. CASE /\ failed /\ reader' = "final"
             /\ UNCHANGED <<shared, call, cursor, finishing, asleep>>
    BY <1>1, <1>2, ReaderFacts, ReaderKeeps DEF ReaderLabels, shared, history
  <1>3. CASE /\ ~failed /\ ~Differs(cursor)
             /\ IF IsRequest(log[cursor]) THEN AcceptRequest(cursor) ELSE AcceptOutput(cursor)
             /\ lastSeen' = cursor /\ cursor' = cursor + 1
             /\ reader' = "reading" /\ NotifyAll
             /\ UNCHANGED <<failed, ready, preparing, anchor, finishing>>
    <2>1. /\ call' \in [Keys -> Call] /\ byUuid' \subseteq Keys /\ bySeq' \subseteq Keys
          /\ \A d \in Keys : CallInv(d)'
      BY <1>1, <1>3, AcceptKeeps DEF history
    <2>2. TypeOK'
      BY <1>1, <1>3, <2>1 DEF SubInv, TypeOK, ReaderLabels, NotifyAll, server, history
    <2>3. LogInv' /\ PrepInv' /\ FinishInv'
      BY <1>1, <1>3 DEF SubInv, LogInv, PrepInv, FinishInv, server, history
    <2>4. QED
      BY <2>1, <2>2, <2>3 DEF SubInv
  <1>4. CASE /\ Differs(cursor)
             /\ FailLocked([call EXCEPT ![log[cursor].key] = Invalidated(@)], active)
             /\ reader' = "failing"
             /\ UNCHANGED <<preparing, cursor>>
    <2> DEFINE c == log[cursor].key
               cs == [call EXCEPT ![c] = Invalidated(@)]
    <2>1. c \in byUuid /\ c \in Keys
      BY <1>1, <1>4 DEF Differs
    <2>2. /\ cs \in [Keys -> Call] /\ cs[c] = Invalidated(call[c])
          /\ \A d \in Keys \ {c} : cs[d] = call[d]
      <3> HIDE DEF c
      <3>1. Invalidated(call[c]) \in Call
        BY <1>1, <2>1, CallFields
      <3>2. QED
        BY <1>1, <2>1, <3>1
    <2>3. \A d \in Keys : Treated(d, cs[d])
      <3> HIDE DEF cs, c
      <3> QED BY <1>1, <2>1, <2>2 DEF Treated
    <2>4. FailLocked(cs, active)
      BY <1>4
    <2> HIDE DEF cs, c
    <2>5. QED
      BY <1>1, <1>4, <2>2, <2>3, <2>4, ReaderFacts, ReaderFails DEF history
  <1>5. QED
    BY <1>2, <1>3, <1>4 DEF Accept

-----------------------------------------------------------------------------
(* The log, and the theorems. *)

\* A new message disturbs nothing that the SDK knows.
LEMMA WriteKeeps ==
    ASSUME SubInv, NEW m \in Messages, Write(m), sent' \subseteq Keys \X {"request", "cancel"}
    PROVE  SubInv'
  <1>1. /\ log \in Seq(Messages) /\ Len(log) \in Nat /\ Len(log) < MaxSeq
        /\ log' = Append(log, m)
        /\ UNCHANGED <<shared, call, app, closer, connection, finishing, asleep, history>>
    BY LenProperties DEF SubInv, TypeOK, Write
  <1>2. /\ log' \in Seq(Messages) /\ Len(log') = Len(log) + 1
        /\ DOMAIN log \subseteq DOMAIN log'
    BY <1>1, AppendProperties, LenProperties
  <1>3. \A d \in Keys : CallInv(d)'
    BY <1>1, CallsKeep DEF shared, history
  <1>4. TypeOK'
    BY <1>1, <1>2 DEF SubInv, TypeOK, shared, connection, history
  <1>5. LogInv' /\ PrepInv' /\ FinishInv'
    BY <1>1, <1>2, SubscriptionAssumption
    DEF SubInv, LogInv, PrepInv, FinishInv, shared, connection, history
  <1>6. QED
    BY <1>3, <1>4, <1>5 DEF SubInv

\* What the members of the channel write are messages.
LEMMA MessageTypes ==
    ASSUME NEW c \in Keys, NEW seq \in Nat, NEW flag \in BOOLEAN
    PROVE  /\ Request(c, flag, "ok") \in Messages
           /\ Result(c, seq, flag, Http) \in Messages
           /\ End(c, seq, Http) \in Messages
           /\ Cancel(c, seq) \in Messages
           /\ \A prev \in Nat : AppendEvent(c, seq, prev) \in Messages
           /\ System \in Messages /\ Invalid \in Messages
  <1>1. Http \in Codes
    BY DEF Codes
  <1>2. Request(c, flag, "ok") \in Requests
    BY DEF Request, Requests, Fits
  <1>3. Result(c, seq, flag, Http) \in Results /\ End(c, seq, Http) \in Ends
        /\ Cancel(c, seq) \in Cancels /\ \A prev \in Nat : AppendEvent(c, seq, prev) \in Appends
    BY <1>1 DEF Result, Results, End, Ends, Cancel, Cancels, AppendEvent, Appends
  <1>4. QED
    BY <1>2, <1>3 DEF Messages, Outputs

\* Commits, the outputs of any member and other messages.
LEMMA EnvironmentInv ==
    ASSUME SubInv,
           \/ \E p \in sent : Commit(p)
           \/ \E c \in Keys : WriteOutput(c)
           \/ \E n \in Noise : WriteNoise(n)
    PROVE  SubInv'
  <1>1. /\ sent \subseteq Keys \X {"request", "cancel"} /\ call \in [Keys -> Call]
        /\ Len(log) \in Nat /\ \A c \in Keys : SeqOf(c) \in Nat
    BY LogFacts DEF SubInv, TypeOK
  <1>2. ASSUME NEW p \in sent, Commit(p) PROVE SubInv'
    <2>1. p[1] \in Keys /\ call[p[1]].request_seq \in Nat /\ (p[1] \in StreamingKeys) \in BOOLEAN
      BY <1>1, SubscriptionAssumption DEF Call
    <2>2. PICK m \in Messages : Write(m)
      BY <1>2, <2>1, MessageTypes DEF Commit
    <2>3. QED
      BY <1>1, <1>2, <2>2, WriteKeeps DEF Commit
  <1>3. ASSUME NEW c \in Keys, WriteOutput(c) PROVE SubInv'
    <2>1. SeqOf(c) \in Nat /\ ChainTail(log, SeqOf(c), Len(log)) \in Nat
      BY <1>1, TailType
    <2>2. PICK m \in Messages : Write(m)
      BY <1>3, <2>1, MessageTypes DEF WriteOutput
    <2>3. QED
      BY <1>1, <1>3, <2>2, WriteKeeps DEF WriteOutput
  <1>4. ASSUME NEW n \in Noise, WriteNoise(n) PROVE SubInv'
    <2>1. PICK m \in Messages : Write(m)
      <3>1. System \in Messages /\ Invalid \in Messages
        BY DEF Messages
      <3>2. QED
        BY <1>1, <1>4, <3>1, MessageTypes DEF WriteNoise
    <2>2. QED
      BY <1>1, <1>4, <2>1, WriteKeeps DEF WriteNoise
  <1>5. QED
    BY <1>2, <1>3, <1>4

\* Every step of the system.
LEMMA StepInv == SubInv /\ [Next]_vars => SubInv'
  <1> SUFFICES ASSUME SubInv, [Next]_vars PROVE SubInv'
    OBVIOUS
  <1>1. ASSUME ReaderStep PROVE SubInv'
    BY <1>1, ConnectionInv, ReceiveInv, FaultInv, AcceptInv DEF ReaderStep
  <1>2. ASSUME UNCHANGED vars PROVE SubInv'
    <2>1. \A d \in Keys : CallInv(d)'
      BY <1>2, CallsKeep DEF vars, shared, history
    <2>2. TypeOK' /\ LogInv' /\ PrepInv' /\ FinishInv'
      BY <1>2 DEF SubInv, TypeOK, LogInv, PrepInv, FinishInv, vars, server, shared, connection,
                  history
    <2>3. QED
      BY <2>1, <2>2 DEF SubInv
  <1>3. QED
    BY <1>1, <1>2, PrepareInv, AppInv, CloserInv, FinishKeeps, EnvironmentInv DEF Next

\* For any number of calls and closing threads, any log and any faults, the state
\* of the SDK keeps the invariant.
THEOREM SubInvariance == Spec => []SubInv
  BY InitInv, StepInv, PTL DEF Spec

\* Every variable keeps its type, the seqs of chains and requests included.
THEOREM SubTypes == Spec => []TypeOK
  BY Implied, SubInvariance, PTL

\* The maps of the subscription route to exactly the calls that expect something.
THEOREM Routes == Spec => []Routed
  BY Implied, SubInvariance, PTL

\* Whichever of the publication's reply and the log comes first, no application
\* reads outputs under a seq that publishing did not report.
THEOREM SeqsAlwaysAgree == Spec => []SeqsAgree
  BY Implied, SubInvariance, PTL

\* A failure is an error of every open call, and of no completed one.
THEOREM FailureAlwaysReaches == Spec => []FailureReaches
  BY Implied, SubInvariance, PTL

\* However many threads close a stream, it is cancelled at most once.
THEOREM CancelledOnce == Spec => []OneCancel
  BY Implied, SubInvariance, PTL

\* on_error comes once and after everything that the reader does.
THEOREM CallbackComesLast == Spec => []CallbackLast
  BY Implied, SubInvariance, PTL

-----------------------------------------------------------------------------
(* Who sleeps on the condition. *)

\* There is a thread to wait for: one that prepares, one that closes.
BusyInv ==
    /\ preparing => \E d \in Keys : app[d] \in Preparing
    /\ \A c \in Keys : call[c].close = "started" =>
          \E j \in Closers : closer[<<c, j>>] \in {"gate", "sent", "finish"}

\* What a sleeper waits for has not come.
CreateWaits(c) == app[c] = "prepare" /\ preparing /\ ~ready /\ ~failed
IterationWaits(c) ==
    app[c] = "next" /\ call[c].queue = <<>> /\ ~call[c].error /\ ~call[c].local_closed
CloseWaits(c, k) == closer[<<c, k>>] = "waiting" /\ call[c].close = "started"

WakeInv ==
    /\ BusyInv
    /\ \A c \in Keys : App(c) \in asleep => CreateWaits(c) \/ IterationWaits(c)
    /\ \A c \in Keys, k \in Closers : <<c, k>> \in asleep => CloseWaits(c, k)

\* The property: who has a reason to sleep also has a thread to wait for.
LEMMA WakeImplied == ASSUME WakeInv PROVE NoLostWakeup
  <1>1. ASSUME NEW c \in Keys, App(c) \in asleep
        PROVE  \/ /\ app[c] = "prepare" /\ preparing /\ ~ready /\ ~failed
                  /\ \E d \in Keys : app[d] \in {"status", "start", "unprepared"}
               \/ /\ app[c] = "next" /\ call[c].queue = <<>>
                  /\ ~call[c].error /\ ~call[c].local_closed
    BY <1>1 DEF WakeInv, BusyInv, CreateWaits, IterationWaits, Preparing
  <1>2. ASSUME NEW c \in Keys, NEW k \in Closers, <<c, k>> \in asleep
        PROVE  /\ closer[<<c, k>>] = "waiting" /\ call[c].close = "started"
               /\ \E j \in Closers : closer[<<c, j>>] \in {"gate", "sent", "finish"}
    BY <1>2 DEF WakeInv, BusyInv, CloseWaits
  <1>3. QED
    BY <1>1, <1>2 DEF NoLostWakeup

\* After notify_all nobody sleeps.
LEMMA Notified ==
    ASSUME BusyInv', NotifyAll
    PROVE  WakeInv'
  BY DEF WakeInv, NotifyAll

\* A step that takes no thread away that somebody may wait for.
LEMMA BusyKept ==
    ASSUME BusyInv, closer' = closer,
           preparing' => preparing /\ \A d \in Keys : app[d] \in Preparing => app'[d] \in Preparing,
           \A d \in Keys : call'[d].close = "started" => call[d].close = "started"
    PROVE  BusyInv'
  BY DEF BusyInv

\* A step without notify_all that moves no sleeper.
LEMMA SleepersKept ==
    ASSUME WakeInv, asleep' = asleep, UNCHANGED <<preparing, ready, failed, call, closer>>,
           \A d \in Keys : app[d] \in Preparing => app'[d] \in Preparing,
           \A d \in Keys : App(d) \in asleep => app'[d] = app[d]
    PROVE  WakeInv'
  <1>1. BusyInv'
    BY BusyKept DEF WakeInv
  <1>2. QED
    BY <1>1 DEF WakeInv, CreateWaits, IterationWaits, CloseWaits

\* prepare() sleeps while another thread prepares; a first one finds no sleeper.
LEMMA PrepareWakes ==
    ASSUME SubInv, WakeInv, NEW c \in Keys, Prepare(c)
    PROVE  WakeInv'
  <1>1. /\ app \in [Keys -> AppLabels] /\ app[c] \notin Preparing /\ App(c) \notin asleep
        /\ UNCHANGED <<ready, failed, call, closer>>
    BY DEF SubInv, TypeOK, Prepare, Awake, Preparing
  <1>2. PICK label \in {"refused", "begin", "status", "prepare"} : app' = [app EXCEPT ![c] = label]
    BY DEF Prepare, Goto
  <1>3. app'[c] = label /\ \A d \in Keys \ {c} : app'[d] = app[d]
    BY <1>1, <1>2
  <1>4. CASE UNCHANGED <<preparing, asleep>>
    BY <1>1, <1>3, <1>4, SleepersKept
  <1>5. CASE ~preparing /\ preparing' /\ app'[c] = "status" /\ UNCHANGED asleep
    <2>1. BusyInv'
      BY <1>1, <1>5 DEF WakeInv, BusyInv, Preparing
    <2>2. ASSUME NEW d \in Keys, App(d) \in asleep' PROVE IterationWaits(d)'
      BY <1>1, <1>3, <1>5, <2>2 DEF WakeInv, CreateWaits, IterationWaits
    <2>3. QED
      BY <1>1, <1>5, <2>1, <2>2 DEF WakeInv, CloseWaits
  <1>6. CASE /\ ~failed /\ ~ready /\ preparing /\ preparing' = preparing
             /\ app'[c] = "prepare" /\ asleep' = asleep \cup {App(c)}
    <2>1. BusyInv'
      BY <1>1, <1>3, <1>6, BusyKept DEF WakeInv
    <2>2. ASSUME NEW d \in Keys, App(d) \in asleep' PROVE CreateWaits(d)' \/ IterationWaits(d)'
      <3>1. CASE d = c
        BY <1>1, <1>6, <3>1 DEF CreateWaits
      <3>2. CASE d # c
        BY <1>1, <1>3, <1>6, <2>2, <3>2 DEF WakeInv, CreateWaits, IterationWaits, App
      <3>3. QED
        BY <3>1, <3>2
    <2>3. ASSUME NEW d \in Keys, NEW k \in Closers, <<d, k>> \in asleep' PROVE CloseWaits(d, k)'
      BY <1>1, <1>6, <2>3, SubscriptionAssumption DEF WakeInv, CloseWaits, App
    <2>4. QED
      BY <2>1, <2>2, <2>3 DEF WakeInv
  <1>7. QED
    BY <1>1, <1>4, <1>5, <1>6 DEF Prepare, Goto, Sleep

\* next_message sleeps with nothing to hand out; whoever takes a message is awake.
LEMMA NextMessageWakes ==
    ASSUME SubInv, WakeInv, NEW c \in Keys, NextMessage(c)
    PROVE  WakeInv'
  <1>1. /\ app \in [Keys -> AppLabels] /\ call \in [Keys -> Call] /\ app[c] = "next"
        /\ App(c) \notin asleep /\ UNCHANGED <<preparing, ready, failed, closer>>
    BY DEF SubInv, TypeOK, NextMessage, Awake, shared
  <1>2. \A d \in Keys \ {c} : call'[d] = call[d] /\ app'[d] = app[d]
    BY <1>1 DEF NextMessage, Goto
  <1>3. call'[c].close = call[c].close
    <2>1. call[c] \in Call
      BY <1>1
    <2>2. call' = call \/ call' = [call EXCEPT ![c].queue = Tail(@)]
      BY DEF NextMessage
    <2>3. QED
      BY <1>1, <2>1, <2>2 DEF Call
  <1>4. BusyInv'
    BY <1>1, <1>2, <1>3, BusyKept DEF WakeInv, Preparing
  <1>5. CASE asleep' = asleep
    BY <1>1, <1>2, <1>3, <1>4, <1>5 DEF WakeInv, CreateWaits, IterationWaits, CloseWaits
  <1>6. CASE /\ call[c].queue = <<>> /\ ~call[c].error /\ ~call[c].local_closed
             /\ asleep' = asleep \cup {App(c)} /\ UNCHANGED <<call, app>>
    <2>1. \A d \in Keys : App(d) \in asleep' => CreateWaits(d)' \/ IterationWaits(d)'
      BY <1>1, <1>6 DEF WakeInv, CreateWaits, IterationWaits, App
    <2>2. \A d \in Keys, k \in Closers : <<d, k>> \in asleep' => CloseWaits(d, k)'
      BY <1>1, <1>6, SubscriptionAssumption DEF WakeInv, CloseWaits, App
    <2>3. QED
      BY <1>4, <2>1, <2>2 DEF WakeInv
  <1>7. QED
    BY <1>5, <1>6 DEF NextMessage, Sleep

\* _fail_locked notifies and closes nothing.
LEMMA FailWakes ==
    ASSUME SubInv, WakeInv, NEW cs, NEW handle, FailLocked(cs, handle),
           \A d \in Keys : cs[d] \in Call /\ cs[d].close = call[d].close,
           closer' = closer,
           preparing' => preparing /\ \A d \in Keys : app[d] \in Preparing => app'[d] \in Preparing
    PROVE  WakeInv'
  <1>1. ASSUME NEW d \in Keys PROVE call'[d].close = call[d].close
    BY <1>1, CallFields DEF FailLocked
  <1>2. BusyInv'
    BY <1>1, BusyKept DEF WakeInv
  <1>3. QED
    BY <1>2, Notified DEF FailLocked

\* published(), whatever it finds.
LEMMA PublishedWakes ==
    ASSUME SubInv, WakeInv, NEW c \in Keys, NEW seq \in 1..(MaxSeq + 1), Published(c, seq)
    PROVE  WakeInv'
  <1> DEFINE r == [call[c] EXCEPT !.request_seq = seq]
  <1>1. /\ app \in [Keys -> AppLabels] /\ call \in [Keys -> Call] /\ app[c] = "sent"
        /\ closer' = closer /\ preparing' = preparing
    BY DEF SubInv, TypeOK, Published, shared
  <1>2. r \in Call /\ r.close = call[c].close
    <2>1. seq \in 0..(MaxSeq + 1) /\ call[c] \in Call
      BY <1>1, SubscriptionAssumption
    <2>2. QED
      BY <2>1 DEF Call
  <1> HIDE DEF r
  <1>3. Invalidated(r) \in Call /\ Invalidated(r).close = call[c].close
    BY <1>2, CallFields
  <1>4. \A d \in Keys : app[d] \in Preparing => app'[d] \in Preparing
    BY <1>1 DEF Published, Goto, Preparing
  <1>5. CASE NotifyAll /\ \E x \in {r, Invalidated(r)} : call' = [call EXCEPT ![c] = x]
    <2>1. \A d \in Keys : call'[d].close = call[d].close
      BY <1>1, <1>2, <1>3, <1>5
    <2>2. BusyInv'
      BY <1>1, <1>4, <2>1, BusyKept DEF WakeInv
    <2>3. QED
      BY <1>5, <2>2, Notified
  <1>6. CASE FailLocked([call EXCEPT ![c] = Invalidated(r)], active)
    <2> DEFINE cs == [call EXCEPT ![c] = Invalidated(r)]
    <2>1. \A d \in Keys : cs[d] \in Call /\ cs[d].close = call[d].close
      BY <1>1, <1>3
    <2>2. FailLocked(cs, active)
      BY <1>6
    <2> HIDE DEF cs
    <2>3. QED
      BY <1>1, <1>4, <2>1, <2>2, FailWakes
  <1>7. QED
    BY <1>5, <1>6 DEF Published, r

\* Every step of create() and of the iteration.
LEMMA AppWakes ==
    ASSUME SubInv, WakeInv, NEW c \in Keys, AppStep(c)
    PROVE  WakeInv'
  <1>1. app \in [Keys -> AppLabels] /\ call \in [Keys -> Call]
    BY DEF SubInv, TypeOK
  <1>2. CASE ReadStatus(c) \/ Begin(c) \/ Draw(c) \/ Register(c) \/ Gate(c) \/ NoAnswer(c) \/ Return(c)
    <2>1. /\ UNCHANGED <<asleep, preparing, ready, failed, call, closer>>
          /\ app[c] \notin {"prepare", "next"} /\ \A d \in Keys \ {c} : app'[d] = app[d]
          /\ app[c] \in Preparing => app'[c] \in Preparing
      BY <1>1, <1>2
      DEF ReadStatus, Begin, Draw, Register, Gate, NoAnswer, Return, Unless, Goto, Preparing,
          shared
    <2>2. QED
      BY <2>1, SleepersKept DEF WakeInv, CreateWaits, IterationWaits
  <1>3. CASE StartReader(c) \/ StartFails(c)
    <2>1. NotifyAll /\ ~preparing' /\ UNCHANGED <<call, closer>>
      BY <1>3 DEF StartReader, StartFails, Prepared
    <2>2. QED
      BY <2>1, BusyKept, Notified DEF WakeInv
  <1>4. CASE FailPrepare(c)
    BY <1>1, <1>4, FailWakes DEF FailPrepare
  <1>5. CASE Abandon(c)
    <2>1. /\ NotifyAll /\ closer' = closer /\ preparing' = preparing
          /\ call' = [call EXCEPT ![c] = [NewCall EXCEPT !.local_closed = TRUE]]
          /\ \A d \in Keys : app[d] \in Preparing => app'[d] \in Preparing
      BY <1>1, <1>5 DEF Abandon, Goto, Preparing
    <2>2. \A d \in Keys : call'[d].close = "started" => call[d].close = "started"
      BY <1>1, <2>1 DEF NewCall
    <2>3. QED
      BY <2>1, <2>2, BusyKept, Notified DEF WakeInv
  <1>6. CASE Prepare(c) \/ Answer(c) \/ NextMessage(c)
    BY <1>2, <1>6, PrepareWakes, PublishedWakes, NextMessageWakes DEF Answer
  <1>7. QED
    BY <1>2, <1>3, <1>4, <1>5, <1>6 DEF AppStep

\* Every step of close(): the thread with the claim ends with notify_all.
LEMMA CloserWakes ==
    ASSUME SubInv, WakeInv, NEW c \in Keys, NEW k \in Closers, Close(c, k) \/ CloserStep(c, k)
    PROVE  WakeInv'
  <1>1. /\ call \in [Keys -> Call] /\ closer \in [Keys \X Closers -> CloserLabels] /\ CallInv(c)
        /\ UNCHANGED <<app, preparing, ready, failed>>
    BY DEF SubInv, TypeOK, CloserStep, Close, CloseGate, CloseAnswer, CloseFinish, shared
  <1>2. CASE Close(c, k) /\ call[c].close = "started"
    <2>1. /\ UNCHANGED call /\ closer' = [closer EXCEPT ![<<c, k>>] = "waiting"]
          /\ closer[<<c, k>>] \in {"idle", "waiting"} /\ asleep' = asleep \cup {<<c, k>>}
      BY <1>2 DEF Close, CloseGoto, Sleep
    <2>2. closer'[<<c, k>>] = "waiting"
          /\ \A d \in Keys, j \in Closers : closer[<<d, j>>] # "idle" => closer'[<<d, j>>] = closer[<<d, j>>]
      BY <1>1, <2>1
    <2>3. BusyInv'
      BY <1>1, <2>1, <2>2 DEF WakeInv, BusyInv
    <2>4. \A d \in Keys : App(d) \in asleep' => CreateWaits(d)' \/ IterationWaits(d)'
      BY <1>1, <2>1, SubscriptionAssumption DEF WakeInv, CreateWaits, IterationWaits, App
    <2>5. \A d \in Keys, j \in Closers : <<d, j>> \in asleep' => CloseWaits(d, j)'
      BY <1>1, <1>2, <2>1, <2>2 DEF WakeInv, CloseWaits
    <2>6. QED
      BY <2>3, <2>4, <2>5 DEF WakeInv
  <1>3. CASE Close(c, k) /\ call[c].close = "no"
    <2>1. NotifyAll /\ call' = [call EXCEPT ![c] = Claimed(call[c])]
          /\ \E label \in {"gate", "finish"} : closer' = [closer EXCEPT ![<<c, k>>] = label]
      BY <1>3 DEF Close, CloseGoto
    <2>2. /\ closer'[<<c, k>>] \in {"gate", "finish"}
          /\ \A d \in Keys \ {c} : call'[d] = call[d]
                                  /\ \A j \in Closers : closer'[<<d, j>>] = closer[<<d, j>>]
      BY <1>1, <2>1
    <2>3. BusyInv'
      <3>1. preparing' => \E d \in Keys : app'[d] \in Preparing
        BY <1>1 DEF WakeInv, BusyInv
      <3>2. \A d \in Keys \ {c} : call'[d].close = "started" =>
                \E j \in Closers : closer'[<<d, j>>] \in {"gate", "sent", "finish"}
        BY <2>2 DEF WakeInv, BusyInv
      <3>3. QED
        BY <2>2, <3>1, <3>2 DEF BusyInv
    <2>4. QED
      BY <2>1, <2>3, Notified
  <1>4. CASE Close(c, k) /\ call[c].close = "done"
    <2>1. /\ UNCHANGED <<call, asleep>> /\ closer' = [closer EXCEPT ![<<c, k>>] = "closed"]
          /\ <<c, k>> \notin asleep
      BY <1>4 DEF Close, CloseGoto, Awake
    <2>2. \A d \in Keys, j \in Closers : <<d, j>> # <<c, k>> => closer'[<<d, j>>] = closer[<<d, j>>]
      BY <1>1, <2>1
    <2>3. BusyInv'
      BY <1>1, <1>4, <2>1, <2>2 DEF WakeInv, BusyInv
    <2>4. QED
      BY <1>1, <2>1, <2>2, <2>3 DEF WakeInv, CreateWaits, IterationWaits, CloseWaits
  <1>5. CASE CloseGate(c, k) \/ CloseAnswer(c, k)
    <2>1. /\ UNCHANGED <<call, asleep>>
          /\ \E label \in {"sent", "finish"} : closer' = [closer EXCEPT ![<<c, k>>] = label]
          /\ closer[<<c, k>>] \in {"gate", "sent"}
      BY <1>5 DEF CloseGate, CloseAnswer, CloseGoto
    <2>2. /\ closer'[<<c, k>>] \in {"sent", "finish"}
          /\ \A d \in Keys, j \in Closers : <<d, j>> # <<c, k>> => closer'[<<d, j>>] = closer[<<d, j>>]
      BY <1>1, <2>1
    <2>3. BusyInv'
      BY <1>1, <2>1, <2>2 DEF WakeInv, BusyInv
    <2>4. <<c, k>> \notin asleep
      BY <2>1 DEF WakeInv, CloseWaits
    <2>5. QED
      BY <1>1, <2>1, <2>2, <2>3, <2>4 DEF WakeInv, CreateWaits, IterationWaits, CloseWaits
  <1>6. CASE CloseFinish(c, k)
    <2>1. /\ NotifyAll /\ closer' = [closer EXCEPT ![<<c, k>>] = "closed"]
          /\ call' = [call EXCEPT ![c].close = "done"]
      BY <1>6 DEF CloseFinish, CloseGoto
    <2>2. /\ call'[c].close = "done"
          /\ \A d \in Keys \ {c} : call'[d] = call[d]
                                  /\ \A j \in Closers : closer'[<<d, j>>] = closer[<<d, j>>]
      <3>1. call[c] \in Call
        BY <1>1
      <3>2. QED
        BY <1>1, <2>1, <3>1 DEF Call
    <2>3. BusyInv'
      BY <1>1, <2>2 DEF WakeInv, BusyInv
    <2>4. QED
      BY <2>1, <2>3, Notified
  <1>7. call[c].close \in {"no", "started", "done"}
    BY <1>1 DEF Call
  <1>8. QED
    BY <1>2, <1>3, <1>4, <1>5, <1>6, <1>7 DEF CloserStep

\* The reader changes a call only with notify_all.
LEMMA ReaderWakes == ASSUME SubInv, WakeInv, ReaderStep PROVE WakeInv'
  <1>1. app \in [Keys -> AppLabels] /\ call \in [Keys -> Call] /\ app' = app /\ closer' = closer
    BY DEF SubInv, TypeOK, ReaderStep, Connect, Subscribed, Started, Lost, Read, StreamBroken,
           ReaderEnd, Receive, BadMessage, Accept, ReaderOnly
  <1>2. CASE asleep' \in {asleep, {}} /\ UNCHANGED <<preparing, ready, failed, call>>
    <2>1. BusyInv'
      BY <1>1, <1>2, BusyKept DEF WakeInv
    <2>2. QED
      BY <1>1, <1>2, <2>1, Notified, SleepersKept DEF NotifyAll
  <1>3. CASE preparing' = preparing /\ \E handle \in {active, FALSE} : FailLocked(call, handle)
    BY <1>1, <1>3, FailWakes
  <1>4. CASE Connect \/ Subscribed \/ Started \/ Read \/ ReaderEnd \/ Receive
    BY <1>2, <1>4
    DEF Connect, Subscribed, Started, Read, ReaderEnd, Receive, ReaderOnly, NotifyAll, shared
  <1>5. CASE Lost \/ StreamBroken \/ BadMessage
    BY <1>2, <1>3, <1>5 DEF Lost, StreamBroken, BadMessage, NotifyAll, shared
  <1>6. CASE Accept
    <2>1. cursor \in 1..MaxSeq /\ MaxSeq \in Nat
      BY <1>6, LogFacts, SubscriptionAssumption DEF SubInv, LogInv, Accept
    <2>2. CASE failed /\ UNCHANGED <<shared, call, asleep>>
      BY <1>2, <2>2 DEF shared
    <2>3. CASE /\ ~failed /\ NotifyAll /\ preparing' = preparing
               /\ IF IsRequest(log[cursor]) THEN AcceptRequest(cursor) ELSE AcceptOutput(cursor)
      <3>1. ASSUME NEW d \in Keys PROVE call'[d].close = call[d].close
        <4>1. call[d] \in Call /\ Queued(call[d], d, log[cursor], cursor).close = call[d].close
          BY <1>1, <2>1, QueuedFields
        <4>2. CASE AcceptRequest(cursor)
          <5>1. \/ call' = call
                \/ call' = [call EXCEPT ![log[cursor].key].receive = cursor,
                                       ![log[cursor].key].chain_seq = cursor]
            BY <4>2 DEF AcceptRequest
          <5>2. \/ call'[d] = call[d]
                \/ call'[d] = [call[d] EXCEPT !.receive = cursor, !.chain_seq = cursor]
            BY <1>1, <5>1
          <5>3. QED
            BY <4>1, <5>2 DEF Call
        <4>3. CASE AcceptOutput(cursor)
          <5>1. call'[d] \in {call[d], Queued(call[d], d, log[cursor], cursor)}
            BY <4>3 DEF AcceptOutput
          <5>2. QED
            BY <4>1, <5>1
        <4>4. QED
          BY <2>3, <4>2, <4>3
      <3>2. BusyInv'
        BY <1>1, <2>3, <3>1, BusyKept DEF WakeInv
      <3>3. QED
        BY <2>3, <3>2, Notified
    <2>4. CASE /\ Differs(cursor) /\ preparing' = preparing
               /\ FailLocked([call EXCEPT ![log[cursor].key] = Invalidated(@)], active)
      <3> DEFINE c == log[cursor].key
                 cs == [call EXCEPT ![c] = Invalidated(@)]
      <3>1. c \in Keys
        BY <2>4 DEF Differs, SubInv, TypeOK
      <3> HIDE DEF c
      <3>2. Invalidated(call[c]) \in Call /\ Invalidated(call[c]).close = call[c].close
        BY <1>1, <3>1, CallFields
      <3>3. \A d \in Keys : cs[d] \in Call /\ cs[d].close = call[d].close
        BY <1>1, <3>1, <3>2
      <3>4. FailLocked(cs, active)
        BY <2>4 DEF c
      <3> HIDE DEF cs
      <3>5. QED
        BY <1>1, <2>4, <3>3, <3>4, FailWakes
    <2>5. QED
      BY <1>6, <2>2, <2>3, <2>4 DEF Accept
  <1>7. QED
    BY <1>4, <1>5, <1>6 DEF ReaderStep

\* The thread that cleans up, and the other members of the channel.
LEMMA OthersWake ==
    ASSUME SubInv, WakeInv,
           \/ Finish \/ UNCHANGED vars
           \/ \E p \in sent : Commit(p)
           \/ \E c \in Keys : WriteOutput(c)
           \/ \E n \in Noise : WriteNoise(n)
    PROVE  WakeInv'
  <1>1. CASE Callback
    <2>1. UNCHANGED <<asleep, preparing, ready, failed, call, closer>>
      BY <1>1 DEF Callback, shared
    <2>2. \A d \in Keys : app[d] \notin {"failing", "disputed"} => app'[d] = app[d]
      BY <1>1 DEF Callback
    <2>3. \A d \in Keys : App(d) \in asleep => app'[d] = app[d]
      BY <2>2 DEF WakeInv, CreateWaits, IterationWaits
    <2>4. QED
      BY <2>1, <2>2, <2>3, SleepersKept DEF Preparing
  <1>2. CASE ~Callback
    <2>1. UNCHANGED <<asleep, preparing, ready, failed, call, closer, app>>
      BY <1>2 DEF Finish, CancelStream, Join, Commit, WriteOutput, WriteNoise, Write, vars, shared
    <2>2. QED
      BY <2>1, SleepersKept
  <1>3. QED
    BY <1>1, <1>2

\* Every step of the system.
LEMMA StepWakes == SubInv /\ WakeInv /\ [Next]_vars => WakeInv'
  BY PrepareWakes, AppWakes, CloserWakes, ReaderWakes, OthersWake DEF Next

\* Nobody sleeps at first, and there is nothing to wait for.
LEMMA InitWakes == Init => WakeInv
  BY DEF Init, WakeInv, BusyInv, NewCall

\* A thread asleep on the condition has a reason to be, and a thread to wait for:
\* no change that it waits for goes without its notify_all.
THEOREM NobodySleepsInVain == Spec => []NoLostWakeup
  <1>1. Spec => []WakeInv
    BY InitWakes, StepWakes, SubInvariance, PTL DEF Spec
  <1>2. QED
    BY <1>1, WakeImplied, PTL

-----------------------------------------------------------------------------
(* What there is to read of a call, and the outcome that it has. *)

\* The message at i is the next that an application may get of the call.
Joins(lg, s, i) ==
    \/ Hit(lg, s, i, "result") /\ FirstResult(lg, s, i - 1) = 0
    \/ lg[s].streaming /\ \E kind \in {"append", "end", "cancel"} : Hit(lg, s, i, kind)

\* The candidates among the first k messages, and what each one is.
LEMMA CandidatesAt ==
    ASSUME NEW lg, NEW s \in Nat, NEW n \in Nat
    PROVE  /\ Candidates(lg, s, n) \subseteq 1..n
           /\ \A k \in 0..n : Candidates(lg, s, k) = {j \in Candidates(lg, s, n) : j <= k}
           /\ \A j \in 1..n :
                 j \in Candidates(lg, s, n) <=>
                    \/ j = FirstResult(lg, s, n)
                    \/ /\ lg[s].streaming /\ j > s
                       /\ \E kind \in {"append", "end", "cancel"} : Hit(lg, s, j, kind)
  <1> DEFINE Control(k) ==
               IF lg[s].streaming
               THEN UNION {Matching(lg, s, k, kind) : kind \in {"append", "end", "cancel"}}
               ELSE {}
             first(k) == FirstResult(lg, s, k)
  <1>1. ASSUME NEW k \in Nat, NEW j
        PROVE  j \in Control(k) <=>
                  /\ lg[s].streaming /\ j \in (s + 1)..k
                  /\ \E kind \in {"append", "end", "cancel"} : Hit(lg, s, j, kind)
    BY DEF Matching, Hit
  <1>2. ASSUME NEW k \in Nat, NEW j
        PROVE  j \in Candidates(lg, s, k) <=> (j = first(k) /\ j # 0) \/ j \in Control(k)
    BY DEF Candidates
  <1>3. ASSUME NEW k \in 0..n
        PROVE  first(k) = IF first(n) # 0 /\ first(n) <= k THEN first(n) ELSE 0
    BY FirstAt
  <1>4. first(n) \in 0..n
    BY FirstAt
  <1> HIDE DEF Control, first
  <1>5. Candidates(lg, s, n) \subseteq 1..n
    BY <1>1, <1>2, <1>4
  <1>6. ASSUME NEW k \in 0..n
        PROVE  Candidates(lg, s, k) = {j \in Candidates(lg, s, n) : j <= k}
    <2>1. k \in Nat
      OBVIOUS
    <2>2. ASSUME NEW j PROVE j \in Candidates(lg, s, k) <=> j \in Candidates(lg, s, n) /\ j <= k
      <3>1. j \in Control(k) <=> j \in Control(n) /\ j <= k
        BY <1>1, <2>1
      <3>2. (j = first(k) /\ j # 0) <=> j = first(n) /\ j # 0 /\ j <= k
        BY <1>3, <1>4
      <3>3. QED
        BY <1>2, <2>1, <3>1, <3>2
    <2>3. QED
      BY <2>2
  <1>7. ASSUME NEW j \in 1..n
        PROVE  j \in Candidates(lg, s, n) <=>
                  \/ j = first(n)
                  \/ /\ lg[s].streaming /\ j > s
                     /\ \E kind \in {"append", "end", "cancel"} : Hit(lg, s, j, kind)
    BY <1>1, <1>2
  <1>8. QED
    BY <1>5, <1>6, <1>7 DEF first

\* One more message is a candidate or not.
LEMMA CandidatesNext ==
    ASSUME NEW lg, NEW s \in Nat, NEW n \in Nat, s <= n
    PROVE  /\ Candidates(lg, s, n + 1) =
                 IF Joins(lg, s, n + 1) THEN Candidates(lg, s, n) \cup {n + 1}
                 ELSE Candidates(lg, s, n)
           /\ Candidates(lg, s, s) = {}
  <1>1. /\ Candidates(lg, s, n + 1) \subseteq 1..(n + 1)
        /\ Candidates(lg, s, n) = {j \in Candidates(lg, s, n + 1) : j <= n}
        /\ n + 1 \in Candidates(lg, s, n + 1) <=>
              \/ n + 1 = FirstResult(lg, s, n + 1)
              \/ /\ lg[s].streaming /\ n + 1 > s
                 /\ \E kind \in {"append", "end", "cancel"} : Hit(lg, s, n + 1, kind)
    <2>1. n + 1 \in Nat /\ n \in 0..(n + 1) /\ n + 1 \in 1..(n + 1)
      OBVIOUS
    <2>2. Candidates(lg, s, n + 1) \subseteq 1..(n + 1)
      BY <2>1, CandidatesAt
    <2>3. Candidates(lg, s, n) = {j \in Candidates(lg, s, n + 1) : j <= n}
      <3> DEFINE m == n + 1
      <3>1. m \in Nat /\ n \in 0..m
        BY <2>1
      <3> HIDE DEF m
      <3>2. \A k \in 0..m : Candidates(lg, s, k) = {j \in Candidates(lg, s, m) : j <= k}
        BY <3>1, CandidatesAt
      <3>3. Candidates(lg, s, n) = {j \in Candidates(lg, s, m) : j <= n}
        BY <3>1, <3>2
      <3>4. QED
        BY <3>3 DEF m
    <2>4. n + 1 \in Candidates(lg, s, n + 1) <=>
              \/ n + 1 = FirstResult(lg, s, n + 1)
              \/ /\ lg[s].streaming /\ n + 1 > s
                 /\ \E kind \in {"append", "end", "cancel"} : Hit(lg, s, n + 1, kind)
      BY <2>1, CandidatesAt
    <2>5. QED
      BY <2>2, <2>3, <2>4
  <1>2. n + 1 = FirstResult(lg, s, n + 1) <=>
           Hit(lg, s, n + 1, "result") /\ FirstResult(lg, s, n) = 0
    <2>1. /\ FirstResult(lg, s, n) \in 0..n
          /\ FirstResult(lg, s, n + 1) =
                IF FirstResult(lg, s, n) = 0 /\ Hit(lg, s, n + 1, "result") THEN n + 1
                ELSE FirstResult(lg, s, n)
      BY FirstNext
    <2>2. QED
      BY <2>1
  <1>3. n + 1 \in Candidates(lg, s, n + 1) <=> Joins(lg, s, n + 1)
    <2>1. (n + 1) - 1 = n /\ n + 1 > s
      OBVIOUS
    <2>2. QED
      BY <1>1, <1>2, <2>1 DEF Joins
  <1>4. Candidates(lg, s, s) = {}
    <2>1. FirstResult(lg, s, s) = 0
      BY FirstNext
    <2>2. Candidates(lg, s, s) \subseteq 1..s
      BY CandidatesAt
    <2>3. ASSUME NEW j \in 1..s PROVE j \notin Candidates(lg, s, s)
      <3>1. j # 0 /\ ~(j > s)
        OBVIOUS
      <3>2. QED
        BY <2>1, <3>1, CandidatesAt
    <2>4. QED
      BY <2>2, <2>3
  <1>5. \A j \in 1..(n + 1) : j = n + 1 <=> ~(j <= n)
    OBVIOUS
  <1>6. QED
    BY <1>1, <1>3, <1>4, <1>5

\* A message that ends the call has been met.
Ended(lg, s, n) == \E j \in Candidates(lg, s, n) : EndsCall(lg, s, j)

\* What is to be read grows by each new candidate until one ends the call.
LEMMA ReadingNext ==
    ASSUME NEW lg, NEW s \in Nat, NEW n \in Nat, s <= n
    PROVE  /\ Reading(lg, s, n) \subseteq 1..n
           /\ Reading(lg, s, n + 1) =
                 IF Joins(lg, s, n + 1) /\ ~Ended(lg, s, n) THEN Reading(lg, s, n) \cup {n + 1}
                 ELSE Reading(lg, s, n)
           /\ Ended(lg, s, n + 1) <=>
                 Ended(lg, s, n) \/ (Joins(lg, s, n + 1) /\ EndsCall(lg, s, n + 1))
           /\ Reading(lg, s, s) = {} /\ ~Ended(lg, s, s)
  <1> DEFINE C == Candidates(lg, s, n)
             D == Candidates(lg, s, n + 1)
  <1>1. C \subseteq 1..n /\ D = (IF Joins(lg, s, n + 1) THEN C \cup {n + 1} ELSE C)
    <2>1. Candidates(lg, s, n) \subseteq 1..n
      BY CandidatesAt
    <2>2. QED
      BY <2>1, CandidatesNext
  <1>2. Candidates(lg, s, s) = {}
    BY CandidatesNext
  <1>3. /\ Reading(lg, s, n) = {i \in C : \A j \in C : j < i => ~EndsCall(lg, s, j)}
        /\ Reading(lg, s, n + 1) = {i \in D : \A j \in D : j < i => ~EndsCall(lg, s, j)}
        /\ Ended(lg, s, n) <=> \E j \in C : EndsCall(lg, s, j)
        /\ Ended(lg, s, n + 1) <=> \E j \in D : EndsCall(lg, s, j)
    BY DEF Reading, Ended
  <1>4. Reading(lg, s, s) = {} /\ ~Ended(lg, s, s)
    BY <1>2 DEF Reading, Ended
  <1> HIDE DEF C, D
  <1>5. \A i \in C : i \in 1..n /\ i < n + 1 /\ i # n + 1 /\ ~(n + 1 < i)
    BY <1>1
  <1>6. CASE ~Joins(lg, s, n + 1)
    BY <1>1, <1>3, <1>4, <1>6
  <1>7. CASE Joins(lg, s, n + 1)
    <2>1. D = C \cup {n + 1}
      BY <1>1, <1>7
    <2>2. Ended(lg, s, n + 1) <=> Ended(lg, s, n) \/ EndsCall(lg, s, n + 1)
      BY <1>3, <2>1
    <2>3. ASSUME NEW i \in C
          PROVE  (\A j \in D : j < i => ~EndsCall(lg, s, j))
                    <=> (\A j \in C : j < i => ~EndsCall(lg, s, j))
      BY <1>5, <2>1
    <2>4. (\A j \in D : j < n + 1 => ~EndsCall(lg, s, j)) <=> ~Ended(lg, s, n)
      <3>1. ~(n + 1 < n + 1)
        OBVIOUS
      <3>2. QED
        BY <1>3, <1>5, <2>1, <3>1
    <2>5. Reading(lg, s, n + 1) =
             Reading(lg, s, n) \cup (IF Ended(lg, s, n) THEN {} ELSE {n + 1})
      BY <1>3, <2>1, <2>3, <2>4
    <2>6. QED
      BY <1>1, <1>3, <1>4, <1>7, <2>2, <2>5
  <1>8. QED
    BY <1>6, <1>7

\* What has been read stays to be read.
LEMMA ReadingGrows ==
    ASSUME NEW lg, NEW s \in Nat, NEW n \in Nat, NEW k \in 0..n
    PROVE  Reading(lg, s, k) \subseteq Reading(lg, s, n)
  <1>1. Candidates(lg, s, k) = {j \in Candidates(lg, s, n) : j <= k}
    <2>1. \A m \in 0..n : Candidates(lg, s, m) = {j \in Candidates(lg, s, n) : j <= m}
      BY CandidatesAt, ZenonT(60)
    <2>2. QED
      BY <2>1
  <1>2. Candidates(lg, s, n) \subseteq 1..n
    BY CandidatesAt
  <1>3. ASSUME NEW i \in Candidates(lg, s, k), NEW j \in Candidates(lg, s, n), j < i
        PROVE  j \in Candidates(lg, s, k)
    <2>1. i <= k /\ i \in 1..n /\ j \in 1..n /\ k \in Nat
      BY <1>1, <1>2
    <2>2. j <= k
      BY <1>3, <2>1
    <2>3. QED
      BY <1>1, <2>2
  <1>4. QED
    BY <1>1, <1>3 DEF Reading

\* The rank of an element does not change when a set of seqs grows at its end.
LEMMA Ranks ==
    ASSUME NEW n \in Nat, NEW S, S \subseteq 1..n
    PROVE  /\ IsFiniteSet(S) /\ Cardinality(S) \in Nat
           /\ Cardinality(S \cup {n + 1}) = Cardinality(S) + 1
           /\ \A k \in S : {j \in S \cup {n + 1} : j <= k} = {j \in S : j <= k}
           /\ {j \in S \cup {n + 1} : j <= n + 1} = S \cup {n + 1}
  <1>1. IsFiniteSet(S)
    <2>1. IsFiniteSet(1..n)
      BY FS_Interval
    <2>2. QED
      BY <2>1, FS_Subset
  <1>2. Cardinality(S) \in Nat
    BY <1>1, FS_CardinalityType
  <1>3. n + 1 \notin S
    OBVIOUS
  <1>4. Cardinality(S \cup {n + 1}) = Cardinality(S) + 1
    BY <1>1, <1>3, FS_AddElement
  <1>5. n + 1 <= n + 1 /\ \A j \in S : j \in Nat /\ j < n + 1 /\ j <= n + 1
    OBVIOUS
  <1>6. \A k \in S : {j \in S \cup {n + 1} : j <= k} = {j \in S : j <= k}
    <2> TAKE k \in S
    <2>1. ~(n + 1 <= k)
      BY <1>5
    <2>2. QED
      BY <2>1
  <1>7. {j \in S \cup {n + 1} : j <= n + 1} = S \cup {n + 1}
    BY <1>5
  <1>8. QED
    BY <1>1, <1>2, <1>4, <1>6, <1>7

\* What is to be read of the first n messages does not depend on the later ones.
LEMMA ReadingPrefix ==
    ASSUME NEW lg, NEW lh, NEW n \in Nat, NEW s \in 1..n, \A i \in 1..n : lh[i] = lg[i]
    PROVE  /\ Reading(lh, s, n) = Reading(lg, s, n)
           /\ Ended(lh, s, n) <=> Ended(lg, s, n)
           /\ Before(lh, s, n + 1) = Before(lg, s, n + 1)
           /\ \A i \in Reading(lg, s, n) : Breaks(lh, s, i) <=> Breaks(lg, s, i)
  <1>1. ASSUME NEW k \in s..n
        PROVE  /\ FirstResult(lh, s, k) = FirstResult(lg, s, k)
               /\ Candidates(lh, s, k) = Candidates(lg, s, k)
               /\ Candidates(lg, s, k) \subseteq 1..k
               /\ \A j \in Candidates(lg, s, k) : j > s /\ lh[j] = lg[j]
    <2>1. k \in Nat /\ s \in Nat /\ s \in 1..k /\ \A i \in 1..k : lh[i] = lg[i]
      OBVIOUS
    <2>2. FirstResult(lh, s, k) = FirstResult(lg, s, k)
      BY <2>1, ReadPrefix
    <2>3. ASSUME NEW kind PROVE Matching(lh, s, k, kind) = Matching(lg, s, k, kind)
      BY <2>1 DEF Matching
    <2>4. Candidates(lh, s, k) = Candidates(lg, s, k)
      BY <2>1, <2>2, <2>3 DEF Candidates
    <2>5. Candidates(lg, s, k) \subseteq 1..k
      BY <2>1, CandidatesAt
    <2>6. \A j \in Candidates(lg, s, k) : j > s
      <3> TAKE j \in Candidates(lg, s, k)
      <3>1. FirstResult(lg, s, k) # 0 => FirstResult(lg, s, k) > s
        BY <2>1, FirstAt
      <3>2. j # 0
        BY <2>5
      <3>3. QED
        BY <2>1, <2>5, <3>1, <3>2, CandidatesAt
    <2>7. QED
      BY <2>1, <2>2, <2>4, <2>5, <2>6
  <1>2. ASSUME NEW i \in (s + 1)..(n + 1) PROVE Before(lh, s, i) = Before(lg, s, i)
    <2>1. i - 1 \in s..n
      OBVIOUS
    <2>2. {j \in Candidates(lh, s, i - 1) : lh[j].kind \in {"result", "append"}} =
          {j \in Candidates(lg, s, i - 1) : lg[j].kind \in {"result", "append"}}
      BY <1>1, <2>1
    <2>3. QED
      BY <2>2 DEF Before
  <1>3. n \in s..n /\ n + 1 \in (s + 1)..(n + 1) /\ s \in 1..n
    OBVIOUS
  <1>4. \A i \in Candidates(lg, s, n) : i \in s..n /\ i \in (s + 1)..(n + 1)
    <2> TAKE i \in Candidates(lg, s, n)
    <2>1. i \in 1..n /\ i > s
      BY <1>1, <1>3
    <2>2. QED
      BY <2>1
  <1>5. ASSUME NEW i \in Candidates(lg, s, n)
        PROVE  /\ Breaks(lh, s, i) <=> Breaks(lg, s, i)
               /\ EndsCall(lh, s, i) <=> EndsCall(lg, s, i)
    <2>1. /\ lh[i] = lg[i] /\ lh[s] = lg[s]
          /\ FirstResult(lh, s, i) = FirstResult(lg, s, i)
          /\ Before(lh, s, i) = Before(lg, s, i)
      BY <1>1, <1>2, <1>3, <1>4
    <2>2. Breaks(lh, s, i) <=> Breaks(lg, s, i)
      BY <2>1 DEF Breaks
    <2>3. QED
      BY <2>1, <2>2 DEF EndsCall
  <1>6. Candidates(lh, s, n) = Candidates(lg, s, n)
    BY <1>1, <1>3
  <1>7. Reading(lh, s, n) = Reading(lg, s, n) /\ (Ended(lh, s, n) <=> Ended(lg, s, n))
    BY <1>5, <1>6 DEF Reading, Ended
  <1>8. \A i \in Reading(lg, s, n) : i \in Candidates(lg, s, n)
    BY DEF Reading
  <1>9. QED
    BY <1>2, <1>3, <1>5, <1>7, <1>8

\* The first message that ends a call in the application is the winner of the
\* reference reading, or breaks the call there.
LEMMA OutcomeRead ==
    ASSUME NEW lg, NEW s \in Nat, NEW n \in Nat, NEW j \in Reading(lg, s, n),
           EndsCall(lg, s, j)
    PROVE  IF Breaks(lg, s, j) THEN Broken(lg, s, n)
           ELSE Winner(lg, s, n) = j /\ (lg[s].streaming => ~Broken(lg, s, n))
  <1> DEFINE C == Candidates(lg, s, n)
             f == FirstResult(lg, s, n)
             D == Deciding(lg, s, n)
             w == Winner(lg, s, n)
             last == IF w = 0 THEN n ELSE w
             nodes == ChainNodes(lg, s, n)
             A(k) == Matching(lg, s, k, "append")
             first(k) == FirstResult(lg, s, k)
             Linked(k) == {x \in Candidates(lg, s, k) : lg[x].kind \in {"result", "append"}}
  <1>1. C \subseteq 1..n /\ j \in C /\ \A i \in C : i < j => ~EndsCall(lg, s, i)
    BY CandidatesAt DEF Reading
  <1>2. /\ f \in 0..n
        /\ f # 0 => f > s /\ Hit(lg, s, f, "result")
        /\ \A k \in 0..n : first(k) = IF f # 0 /\ f <= k THEN f ELSE 0
    <2>1. f \in 0..n /\ (f # 0 => f > s /\ Hit(lg, s, f, "result"))
      BY FirstAt
    <2>2. \A k \in 0..n : FirstResult(lg, s, k) =
             IF FirstResult(lg, s, n) # 0 /\ FirstResult(lg, s, n) <= k
             THEN FirstResult(lg, s, n) ELSE 0
      BY FirstAt
    <2>3. QED
      BY <2>1, <2>2
  <1>3. \A i \in 1..n : i \in C <=>
           \/ i = f
           \/ /\ lg[s].streaming /\ i > s
              /\ \E kind \in {"append", "end", "cancel"} : Hit(lg, s, i, kind)
    BY CandidatesAt
  <1>4. \A k, i : i \in A(k) <=> i \in (s + 1)..k /\ Hit(lg, s, i, "append")
    BY DEF Matching, Hit
  <1>5. \A i : i \in D <=>
           \/ i = f /\ f # 0 /\ lg[f].body
           \/ /\ lg[s].streaming /\ i \in (s + 1)..n
              /\ Hit(lg, s, i, "end") \/ Hit(lg, s, i, "cancel")
    BY DEF Deciding, Matching, Hit
  <1>6. w = Earliest(D)
    BY DEF Winner, Deciding
  <1>7. /\ nodes = IF first(last) = 0 THEN {} ELSE {first(last)} \cup A(last)
        /\ Broken(lg, s, n) <=>
              \/ ~lg[s].streaming /\ first(last) # 0 /\ ~lg[first(last)].body
              \/ ~lg[s].streaming /\ A(last) # {}
              \/ \E i \in A(last) : lg[i].prev # Latest({x \in nodes : x < i}) \/ lg[i].prev = 0
    BY Zenon DEF Broken, ChainNodes
  <1>8. \A k \in 0..n : Candidates(lg, s, k) = {i \in C : i <= k}
    <2>1. \A k \in 0..n : Candidates(lg, s, k) = {i \in Candidates(lg, s, n) : i <= k}
      BY CandidatesAt, ZenonT(60)
    <2>2. QED
      BY <2>1
  <1>9. \A i : Breaks(lg, s, i) <=>
           \/ lg[i].kind = "append" /\ (first(i) = 0 \/ lg[i].prev # Latest(Linked(i - 1)))
           \/ lg[i].kind = "result" /\ ~lg[s].streaming /\ ~lg[i].body
    BY DEF Breaks, Before
  <1> HIDE DEF C, f, D, w, nodes, A, first
  <1>10. \A i \in D : i \in C /\ EndsCall(lg, s, i) /\ lg[i].kind \in {"result", "end", "cancel"}
    <2> SUFFICES ASSUME NEW i \in D
                 PROVE  i \in C /\ EndsCall(lg, s, i) /\ lg[i].kind \in {"result", "end", "cancel"}
      OBVIOUS
    <2>1. CASE i = f /\ f # 0 /\ lg[f].body
      <3>1. i \in 1..n /\ lg[i].kind = "result"
        BY <1>2, <2>1 DEF Hit
      <3>2. QED
        BY <1>3, <2>1, <3>1 DEF EndsCall
    <2>2. CASE /\ lg[s].streaming /\ i \in (s + 1)..n
               /\ Hit(lg, s, i, "end") \/ Hit(lg, s, i, "cancel")
      <3>1. i \in 1..n /\ i > s /\ lg[i].kind \in {"end", "cancel"}
        BY <2>2 DEF Hit
      <3>2. QED
        BY <1>3, <2>2, <3>1 DEF EndsCall
    <2>3. QED
      BY <1>5, <2>1, <2>2
  <1>11. /\ w = 0 \/ (w \in D /\ w \in 1..n /\ w >= j)
         /\ D = {} => w = 0
         /\ last \in j..n /\ last \in 0..n /\ j \in 1..n
    <2>1. D \subseteq 1..n
      BY <1>1, <1>10
    <2>2. (D # {} => w \in D) /\ (D = {} => w = 0)
      BY <1>6, <2>1, EarliestIs
    <2>3. ASSUME w \in D PROVE w >= j /\ w \in 1..n
      BY <1>1, <1>10, <2>1, <2>3
    <2>4. j \in 1..n
      BY <1>1
    <2>5. QED
      BY <2>2, <2>3, <2>4
  <1> HIDE DEF last
  <1>12. ASSUME NEW i \in A(last), lg[s].streaming, i <= j, first(i) # 0
         PROVE  {x \in nodes : x < i} = Linked(i - 1) /\ Latest(Linked(i - 1)) # 0
    <2>1. i \in 1..n /\ i > s /\ lg[i].kind = "append" /\ i <= last
      BY <1>4, <1>11 DEF Hit
    <2>2. f # 0 /\ f <= i /\ first(i) = f /\ lg[f].kind = "result"
      BY <1>2, <1>12, <2>1 DEF Hit
    <2>3. f < i /\ f \in 1..n /\ f <= last
      BY <1>2, <1>11, <2>1, <2>2
    <2>4. nodes = {f} \cup A(last)
      <3>1. first(last) = f
        BY <1>2, <1>11, <2>2, <2>3
      <3>2. QED
        BY <1>7, <2>2, <3>1
    <2>0. /\ i - 1 \in 0..n
          /\ Linked(i - 1) = {x \in {y \in C : y <= i - 1} : lg[x].kind \in {"result", "append"}}
      <3>1. i - 1 \in 0..n
        BY <2>1
      <3>2. Candidates(lg, s, i - 1) = {y \in C : y <= i - 1}
        BY <1>8, <3>1
      <3>3. QED
        BY <3>1, <3>2
    <2> HIDE DEF Linked
    <2>5. ASSUME NEW x \in Linked(i - 1) PROVE x \in nodes /\ x < i
      <3>1. x \in C /\ x <= i - 1 /\ x \in 1..n /\ lg[x].kind \in {"result", "append"}
        BY <1>1, <2>0
      <3>2. CASE x = f
        BY <2>3, <2>4, <3>2
      <3>3. CASE x # f
        <4>1. x > s /\ Hit(lg, s, x, "append")
          BY <1>3, <3>1, <3>3 DEF Hit
        <4>2. x \in A(last)
          BY <1>4, <1>11, <2>1, <3>1, <4>1
        <4>3. QED
          BY <2>1, <2>4, <3>1, <4>2
      <3>4. QED
        BY <3>2, <3>3
    <2>6. ASSUME NEW x \in nodes, x < i PROVE x \in Linked(i - 1)
      <3>2. CASE x = f
        <4>1. x \in C /\ x <= i - 1
          BY <1>3, <2>1, <2>3, <3>2
        <4>2. QED
          BY <2>0, <2>2, <3>2, <4>1
      <3>3. CASE x \in A(last)
        <4>1. x \in 1..n /\ x > s /\ Hit(lg, s, x, "append") /\ x <= i - 1
          BY <1>4, <1>11, <2>1, <2>6, <3>3
        <4>2. x \in C /\ lg[x].kind = "append"
          BY <1>3, <1>12, <4>1 DEF Hit
        <4>3. QED
          BY <2>0, <4>1, <4>2
      <3>4. QED
        BY <2>4, <2>6, <3>2, <3>3
    <2>7. {x \in nodes : x < i} = Linked(i - 1)
      BY <2>5, <2>6
    <2>8. Latest(Linked(i - 1)) # 0
      <3>1. Linked(i - 1) \subseteq 1..n
        BY <1>1, <2>0
      <3>2. f \in Linked(i - 1)
        BY <2>3, <2>4, <2>6
      <3>3. QED
        BY <3>1, <3>2, ExtremesNext
    <2>9. QED
      BY <2>7, <2>8
  <1> HIDE DEF Linked
  <1>13. CASE Breaks(lg, s, j) /\ lg[s].streaming
    <2>1. lg[j].kind = "append" /\ (first(j) = 0 \/ lg[j].prev # Latest(Linked(j - 1)))
      BY <1>9, <1>13
    <2>2. j \in A(last)
      <3>1. j > s /\ Hit(lg, s, j, "append")
        BY <1>1, <1>2, <1>3, <1>11, <2>1 DEF Hit
      <3>2. QED
        BY <1>4, <1>11, <3>1
    <2>3. CASE first(j) # 0
      <3>1. j <= j
        BY <1>11
      <3>2. {x \in nodes : x < j} = Linked(j - 1)
        BY <1>12, <1>13, <2>2, <2>3, <3>1
      <3>3. QED
        BY <1>7, <1>13, <2>1, <2>2, <2>3, <3>2
    <2>4. CASE first(j) = 0
      <3>1. f = 0 \/ f > j
        BY <1>2, <1>11, <2>4
      <3>2. {x \in nodes : x < j} = {}
        <4> SUFFICES ASSUME NEW x \in nodes, x < j PROVE FALSE
          OBVIOUS
        <4>1. first(last) # 0 /\ (x = first(last) \/ x \in A(last))
          BY <1>7
        <4>2. first(last) = f /\ f # 0
          BY <1>2, <1>11, <4>1
        <4>3. x # f
          BY <1>2, <1>11, <3>1, <4>2
        <4>4. x \in 1..n /\ x > s /\ Hit(lg, s, x, "append")
          BY <1>4, <1>11, <4>1, <4>2, <4>3
        <4>5. x \in C
          BY <1>3, <1>13, <4>4
        <4>6. first(x) = 0
          BY <1>2, <1>11, <3>1, <4>4
        <4>7. EndsCall(lg, s, x)
          BY <1>9, <4>4, <4>6 DEF EndsCall, Hit
        <4>8. QED
          BY <1>1, <4>5, <4>7
      <3>3. Latest({x \in nodes : x < j}) = 0
        BY <3>2 DEF Latest
      <3>4. QED
        BY <1>7, <1>13, <2>2, <3>3
    <2>5. QED
      BY <2>3, <2>4
  <1>14. CASE Breaks(lg, s, j) /\ ~lg[s].streaming
    <2>1. j = f /\ f # 0
      BY <1>1, <1>3, <1>11, <1>14
    <2>2. lg[f].kind = "result" /\ ~lg[f].body
      BY <1>2, <1>9, <1>14, <2>1 DEF Hit
    <2>3. D = {} /\ w = 0
      <3>1. \A i : i \notin D
        BY <1>5, <1>14, <2>2
      <3>2. D = {}
        BY <3>1
      <3>3. QED
        BY <1>11, <3>2
    <2>4. last = n /\ first(last) = f
      BY <2>3 DEF last, f, first
    <2>5. QED
      BY <1>7, <1>14, <2>1, <2>2, <2>4
  <1>15. CASE ~Breaks(lg, s, j)
    <2>1. lg[j].kind \in {"end", "cancel"} \/ (lg[j].kind = "result" /\ lg[j].body)
      BY <1>15 DEF EndsCall
    <2>2. j \in D
      <3>1. CASE j = f
        <4>1. lg[j].kind = "result" /\ f # 0
          BY <1>2, <1>11, <3>1 DEF Hit
        <4>2. lg[f].body
          BY <2>1, <3>1, <4>1
        <4>3. QED
          BY <1>5, <3>1, <4>1, <4>2
      <3>2. CASE j # f
        <4>1. /\ lg[s].streaming /\ j > s
              /\ \E kind \in {"append", "end", "cancel"} : Hit(lg, s, j, kind)
          BY <1>1, <1>3, <1>11, <3>2
        <4>2. Hit(lg, s, j, "end") \/ Hit(lg, s, j, "cancel")
          BY <2>1, <4>1 DEF Hit
        <4>3. j \in (s + 1)..n
          BY <1>11, <4>1
        <4>4. QED
          BY <1>5, <4>1, <4>2, <4>3
      <3>3. QED
        BY <3>1, <3>2
    <2>3. w = j
      <3>1. D \subseteq 1..n
        BY <1>1, <1>10
      <3>2. \A i \in D : j <= i
        BY <1>1, <1>10, <1>11, <3>1
      <3>3. QED
        BY <1>6, <2>2, <3>1, <3>2, EarliestIs
    <2>4. ASSUME lg[s].streaming PROVE ~Broken(lg, s, n)
      <3>1. last = j
        BY <1>11, <2>3 DEF last
      <3>2. ASSUME NEW i \in A(last)
            PROVE  lg[i].prev = Latest({x \in nodes : x < i}) /\ lg[i].prev # 0
        <4>1. i \in 1..n /\ i > s /\ i <= j /\ Hit(lg, s, i, "append")
          BY <1>4, <1>11, <3>1, <3>2
        <4>2. i # j
          BY <1>10, <2>2, <4>1 DEF Hit
        <4>3. i \in C /\ i < j
          BY <1>3, <1>11, <2>4, <4>1, <4>2
        <4>4. ~Breaks(lg, s, i)
          BY <1>1, <4>3 DEF EndsCall
        <4>5. first(i) # 0 /\ lg[i].prev = Latest(Linked(i - 1))
          BY <1>9, <4>1, <4>4 DEF Hit
        <4>6. {x \in nodes : x < i} = Linked(i - 1) /\ Latest(Linked(i - 1)) # 0
          BY <1>12, <2>4, <4>1, <4>5
        <4>7. QED
          BY <4>5, <4>6
      <3>3. QED
        BY <1>7, <2>4, <3>2
    <2>5. QED
      BY <1>15, <2>3, <2>4 DEF w
  <1>16. QED
    BY <1>13, <1>14, <1>15

-----------------------------------------------------------------------------
(* What has been heard of a call, against what there is to read. *)

\* A message that is put behind a queue is put behind what has been taken, and one
\* that moves from the queue to what has been taken changes nothing.
LEMMA HeardMoves ==
    ASSUME NEW S, NEW t \in Seq(S), NEW q \in Seq(S)
    PROVE  /\ \A e \in S : t \o Append(q, e) = Append(t \o q, e)
           /\ q # <<>> => Append(t, Head(q)) \o Tail(q) = t \o q
           /\ t \o <<>> = t
           /\ t \o q \in Seq(S)
           /\ (t = <<>> /\ q = <<>>) => t \o q = <<>>
  <1>1. t \o q \in Seq(S) /\ t \o <<>> = t
    BY ConcatProperties, ConcatEmptySeq
  <1>2. ASSUME NEW e \in S PROVE t \o Append(q, e) = Append(t \o q, e)
    <2>1. <<e>> \in Seq(S)
      OBVIOUS
    <2>2. Append(q, e) = q \o <<e>>
      BY AppendIsConcat
    <2>3. Append(t \o q, e) = (t \o q) \o <<e>>
      BY <1>1, AppendIsConcat
    <2>4. (t \o q) \o <<e>> = t \o (q \o <<e>>)
      BY <2>1, ConcatAssociative
    <2>5. QED
      BY <2>2, <2>3, <2>4
  <1>3. ASSUME q # <<>> PROVE Append(t, Head(q)) \o Tail(q) = t \o q
    <2>1. Head(q) \in S /\ Tail(q) \in Seq(S) /\ Len(q) \in Nat \ {0}
      BY <1>3, HeadTailProperties, EmptySeq
    <2>2. <<Head(q)>> \in Seq(S)
      BY <2>1
    <2>3. Append(t, Head(q)) = t \o <<Head(q)>>
      BY <2>1, AppendIsConcat
    <2>4. <<Head(q)>> \o Tail(q) = q
      <3>1. <<Head(q)>> \o Tail(q) \in Seq(S)
            /\ Len(<<Head(q)>> \o Tail(q)) = Len(q)
        <4>1. Len(<<Head(q)>>) = 1 /\ Len(Tail(q)) = Len(q) - 1
          BY <1>3, HeadTailProperties
        <4>2. <<Head(q)>> \o Tail(q) \in Seq(S)
              /\ Len(<<Head(q)>> \o Tail(q)) = Len(<<Head(q)>>) + Len(Tail(q))
          BY <2>1, <2>2, ConcatProperties
        <4>3. QED
          BY <2>1, <4>1, <4>2
      <3>2. ASSUME NEW i \in 1..Len(q) PROVE (<<Head(q)>> \o Tail(q))[i] = q[i]
        <4>1. Len(<<Head(q)>>) = 1 /\ <<Head(q)>>[1] = q[1] /\ Len(Tail(q)) = Len(q) - 1
          BY <1>3, HeadTailProperties
        <4>2. (<<Head(q)>> \o Tail(q))[i] = IF i <= 1 THEN <<Head(q)>>[i] ELSE Tail(q)[i - 1]
          BY <2>1, <2>2, <4>1, ConcatProperties
        <4>3. i > 1 => Tail(q)[i - 1] = q[(i - 1) + 1]
          BY <1>3, <2>1, <4>1, HeadTailProperties
        <4>4. QED
          BY <2>1, <4>1, <4>2, <4>3
      <3>3. QED
        BY <3>1, <3>2, SeqEqual
    <2>5. (t \o <<Head(q)>>) \o Tail(q) = t \o (<<Head(q)>> \o Tail(q))
      BY <2>1, <2>2, ConcatAssociative
    <2>6. QED
      BY <2>3, <2>4, <2>5
  <1>4. (t = <<>> /\ q = <<>>) => t \o q = <<>>
    BY <1>1
  <1>5. QED
    BY <1>1, <1>2, <1>3, <1>4

\* What has been heard of a call is the beginning of what is to be read, with the
\* right verdicts.
Right(lg, s, n, h) ==
    \A i \in DOMAIN h :
       /\ h[i].seq \in Reading(lg, s, n)
       /\ Cardinality({j \in Reading(lg, s, n) : j <= h[i].seq}) = i
       /\ h[i].fault = Breaks(lg, s, h[i].seq)

\* All of it has been heard, and the Call object knows how far the call has got.
Whole(lg, s, n, h, r) ==
    /\ Len(h) = Cardinality(Reading(lg, s, n))
    /\ r.terminal <=> Ended(lg, s, n)
    /\ ~r.terminal => /\ r.head_seen <=> FirstResult(lg, s, n) # 0
                      /\ r.head_seen => r.chain_seq = Before(lg, s, n + 1)

\* What was right stays right.
LEMMA RightNext ==
    ASSUME NEW lg, NEW s \in Nat, NEW n \in Nat, s <= n, NEW h, Right(lg, s, n, h)
    PROVE  Right(lg, s, n + 1, h)
  <1> DEFINE R == Reading(lg, s, n)
  <1>1. /\ R \subseteq 1..n
        /\ Reading(lg, s, n + 1) = R \cup {n + 1} \/ Reading(lg, s, n + 1) = R
    BY ReadingNext, ZenonT(60)
  <1>2. \A k \in R : {j \in R \cup {n + 1} : j <= k} = {j \in R : j <= k}
    BY <1>1, Ranks
  <1>3. \A k \in R : /\ k \in Reading(lg, s, n + 1)
                     /\ {j \in Reading(lg, s, n + 1) : j <= k} = {j \in R : j <= k}
    <2> HIDE DEF R
    <2> QED BY <1>1, <1>2
  <1>4. QED
    BY <1>3 DEF Right

\* A message that the application does not get leaves the rest as it is.
LEMMA WholeIdle ==
    ASSUME NEW lg, NEW s \in Nat, NEW n \in Nat, s <= n, NEW h, NEW r,
           Whole(lg, s, n, h, r), ~Joins(lg, s, n + 1) \/ r.terminal
    PROVE  Whole(lg, s, n + 1, h, r)
  <1>1. /\ Reading(lg, s, n + 1) = Reading(lg, s, n)
        /\ Ended(lg, s, n + 1) <=> Ended(lg, s, n)
    <2>1. r.terminal => Ended(lg, s, n)
      BY DEF Whole
    <2>2. QED
      BY <2>1, ReadingNext, ZenonT(60)
  <1>2. ASSUME ~Joins(lg, s, n + 1)
        PROVE  /\ FirstResult(lg, s, n + 1) = FirstResult(lg, s, n)
               /\ Before(lg, s, n + 1 + 1) = Before(lg, s, n + 1)
    <2>0. (n + 1) - 1 = n /\ (n + 1 + 1) - 1 = n + 1
      OBVIOUS
    <2>1. FirstResult(lg, s, n + 1) = FirstResult(lg, s, n)
      <3>1. FirstResult(lg, s, n + 1) =
               IF FirstResult(lg, s, n) = 0 /\ Hit(lg, s, n + 1, "result") THEN n + 1
               ELSE FirstResult(lg, s, n)
        BY FirstNext
      <3>2. QED
        BY <1>2, <2>0, <3>1 DEF Joins
    <2>2. Candidates(lg, s, n + 1) = Candidates(lg, s, n)
      BY <1>2, CandidatesNext
    <2>3. QED
      BY <2>0, <2>1, <2>2 DEF Before
  <1>3. QED
    BY <1>1, <1>2 DEF Whole

\* What _accept_output_locked does to the fields that the reading depends on.
LEMMA QueuedReads ==
    ASSUME NEW r \in Call, NEW c, NEW m, NEW i \in 1..MaxSeq
    PROVE  LET x == Queued(r, c, m, i)
               fault == Faulty(r, c, m)
               entry == [seq |-> i, fault |-> fault]
           IN  /\ entry \in Entries
               /\ x.queue = Append(r.queue, entry)
               /\ x.head_seen <=> r.head_seen \/ (m.kind = "result" /\ ~fault)
               /\ (m.kind = "append" \/ (m.kind = "result" /\ ~m.body)) /\ ~fault
                     => x.chain_seq = i
               /\ x.terminal <=> \/ fault \/ m.kind \in {"end", "cancel"}
                                 \/ m.kind = "result" /\ m.body
  <1> DEFINE fault == Faulty(r, c, m)
             entry == [seq |-> i, fault |-> fault]
             head == r.head_seen \/ (m.kind = "result" /\ ~fault)
             linked == m.kind = "append" \/ (m.kind = "result" /\ ~m.body)
             chain == IF linked /\ ~fault THEN i ELSE r.chain_seq
             last == \/ fault \/ m.kind \in {"end", "cancel"}
                     \/ m.kind = "result" /\ m.body
             x == [r EXCEPT !.queue = Append(@, entry), !.head_seen = head,
                            !.chain_seq = chain, !.terminal = last]
  <1>1. fault \in BOOLEAN
    BY DEF Faulty
  <1>2. entry \in Entries
    BY <1>1 DEF Entries
  <1>3. Queued(r, c, m, i) = x
    BY DEF Queued
  <1>4. linked /\ ~fault => chain = i
    OBVIOUS
  <1> HIDE DEF fault, entry, head, chain, last, linked
  <1>5. x.queue = Append(r.queue, entry) /\ x.head_seen = head /\ x.chain_seq = chain
        /\ x.terminal = last
    BY DEF Call
  <1> HIDE DEF x
  <1>6. /\ x.head_seen <=> r.head_seen \/ (m.kind = "result" /\ ~fault)
        /\ x.terminal <=> \/ fault \/ m.kind \in {"end", "cancel"}
                          \/ m.kind = "result" /\ m.body
    BY <1>5, Zenon DEF head, last
  <1>7. (m.kind = "append" \/ (m.kind = "result" /\ ~m.body)) /\ ~fault => x.chain_seq = i
    BY <1>4, <1>5 DEF linked
  <1>8. QED
    BY <1>2, <1>3, <1>5, <1>6, <1>7 DEF fault, entry

\* A message that the application gets is put into the queue with the right verdict,
\* and the Call object knows what the reference reading knows.
LEMMA WholeNext ==
    ASSUME NEW lg, NEW s \in Nat, NEW n \in Nat, s <= n, n + 1 \in 1..MaxSeq,
           NEW c, lg[s].streaming <=> c \in StreamingKeys,
           NEW r \in Call, NEW h \in Seq(Entries),
           Right(lg, s, n, h), Whole(lg, s, n, h, r), ~r.terminal, Joins(lg, s, n + 1)
    PROVE  LET x == Queued(r, c, lg[n + 1], n + 1)
               k == Append(h, [seq |-> n + 1, fault |-> Faulty(r, c, lg[n + 1])])
           IN  Right(lg, s, n + 1, k) /\ Whole(lg, s, n + 1, k, x)
  <1> DEFINE i == n + 1
             m == lg[i]
             fault == Faulty(r, c, m)
             entry == [seq |-> i, fault |-> fault]
             x == Queued(r, c, m, i)
             k == Append(h, entry)
             R == Reading(lg, s, n)
  <1>1. i - 1 = n /\ (i + 1) - 1 = i /\ i \in Nat /\ i # 0
    OBVIOUS
  <1>2. ~Ended(lg, s, n) /\ Len(h) = Cardinality(R) /\ (r.head_seen <=> FirstResult(lg, s, n) # 0)
        /\ (r.head_seen => r.chain_seq = Before(lg, s, i))
    BY DEF Whole
  <1>3. /\ R \subseteq 1..n /\ Reading(lg, s, i) = R \cup {i}
        /\ Ended(lg, s, i) <=> EndsCall(lg, s, i)
    BY <1>2, ReadingNext
  <1>4. /\ Cardinality(R \cup {i}) = Len(h) + 1 /\ {j \in R \cup {i} : j <= i} = R \cup {i}
    BY <1>2, <1>3, Ranks
  <1>5. FirstResult(lg, s, i) =
           IF FirstResult(lg, s, n) = 0 /\ Hit(lg, s, i, "result") THEN i ELSE FirstResult(lg, s, n)
    BY FirstNext
  <1>6. /\ m.kind \in {"result", "append", "end", "cancel"}
        /\ m.kind = "result" => FirstResult(lg, s, n) = 0 /\ FirstResult(lg, s, i) # 0
        /\ m.kind # "result" => FirstResult(lg, s, i) = FirstResult(lg, s, n)
    BY <1>1, <1>5 DEF Joins, Hit
  <1>7. fault = Breaks(lg, s, i)
    BY <1>2, <1>6 DEF Breaks, Faulty
  <1>8. /\ entry \in Entries
        /\ x.head_seen <=> r.head_seen \/ (m.kind = "result" /\ ~fault)
        /\ (m.kind = "append" \/ (m.kind = "result" /\ ~m.body)) /\ ~fault => x.chain_seq = i
        /\ x.terminal <=> \/ fault \/ m.kind \in {"end", "cancel"}
                          \/ m.kind = "result" /\ m.body
    <2>1. i \in 1..MaxSeq
      OBVIOUS
    <2> HIDE DEF i, m
    <2>2. entry \in Entries /\ (x.head_seen <=> r.head_seen \/ (m.kind = "result" /\ ~fault))
      BY <2>1, QueuedReads
    <2>3. ASSUME m.kind = "append" \/ (m.kind = "result" /\ ~m.body), ~fault
          PROVE  x.chain_seq = i
      <3>1. (m.kind = "append" \/ (m.kind = "result" /\ ~m.body)) /\ ~Faulty(r, c, m)
              => Queued(r, c, m, i).chain_seq = i
        BY <2>1, QueuedReads, ZenonT(60)
      <3>2. QED
        BY <2>3, <3>1
    <2>4. x.terminal <=> \/ fault \/ m.kind \in {"end", "cancel"}
                         \/ m.kind = "result" /\ m.body
      BY <2>1, QueuedReads
    <2>5. QED
      BY <2>2, <2>3, <2>4
  <1>9. Latest({j \in Candidates(lg, s, i) : lg[j].kind \in {"result", "append"}}) = i
           \/ m.kind \notin {"result", "append"}
    <2> DEFINE S == {j \in Candidates(lg, s, n) : lg[j].kind \in {"result", "append"}}
    <2>1. Candidates(lg, s, i) = Candidates(lg, s, n) \cup {i}
      BY CandidatesNext
    <2>2. S \subseteq 1..n
      BY CandidatesAt
    <2>3. m.kind \in {"result", "append"}
             => {j \in Candidates(lg, s, i) : lg[j].kind \in {"result", "append"}} = S \cup {i}
      BY <2>1
    <2> HIDE DEF S
    <2>4. Latest(S \cup {i}) = i
      BY <2>2, ExtremesNext
    <2>5. QED
      BY <2>3, <2>4
  <1>10. Right(lg, s, i, h)
    BY RightNext
  <1>11. /\ Len(h) \in Nat /\ DOMAIN h = 1..Len(h) /\ DOMAIN k = 1..(Len(h) + 1)
         /\ Len(k) = Len(h) + 1
         /\ \A j \in 1..Len(h) : k[j] = h[j]
         /\ k[Len(h) + 1] = entry
    <2>1. Len(h) \in Nat /\ DOMAIN h = 1..Len(h)
      BY LenProperties
    <2>2. /\ k \in Seq(Entries) /\ Len(k) = Len(h) + 1
          /\ \A j \in 1..Len(h) : k[j] = h[j]
          /\ k[Len(h) + 1] = entry
      BY <1>8, AppendProperties
    <2>3. DOMAIN k = 1..Len(k)
      BY <2>2, LenProperties
    <2>4. QED
      BY <2>1, <2>2, <2>3
  <1>12. Right(lg, s, i, k)
    <2>1. ASSUME NEW j \in DOMAIN k
          PROVE  /\ k[j].seq \in Reading(lg, s, i)
                 /\ Cardinality({l \in Reading(lg, s, i) : l <= k[j].seq}) = j
                 /\ k[j].fault = Breaks(lg, s, k[j].seq)
      <3>1. CASE j \in 1..Len(h)
        <4>1. k[j] = h[j] /\ j \in DOMAIN h
          BY <1>11, <3>1
        <4> HIDE DEF k, i
        <4>2. QED
          BY <1>10, <4>1 DEF Right
      <3>2. CASE j = Len(h) + 1
        <4>1. k[j].seq = i /\ k[j].fault = fault
          BY <1>11, <3>2
        <4> HIDE DEF k, i, fault
        <4>2. QED
          BY <1>3, <1>4, <1>7, <3>2, <4>1
      <3>3. j \in 1..Len(h) \/ j = Len(h) + 1
        <4> HIDE DEF k
        <4> QED BY <1>11, <2>1
      <3> HIDE DEF k, i
      <3>4. QED
        BY <3>1, <3>2, <3>3
    <2> HIDE DEF k, i
    <2>2. QED
      BY <2>1 DEF Right
  <1>13. Whole(lg, s, i, k, x)
    <2>1. Len(k) = Cardinality(Reading(lg, s, i))
      BY <1>3, <1>4, <1>11
    <2>2. x.terminal <=> Ended(lg, s, i)
      BY <1>3, <1>7, <1>8 DEF EndsCall
    <2>3. ASSUME ~x.terminal
          PROVE  /\ x.head_seen <=> FirstResult(lg, s, i) # 0
                 /\ x.head_seen => x.chain_seq = Before(lg, s, i + 1)
      <3>1. /\ ~fault /\ m.kind \in {"result", "append"}
            /\ m.kind = "result" => ~m.body
        BY <1>6, <1>8, <2>3
      <3>2. x.chain_seq = i /\ Before(lg, s, i + 1) = i
        BY <1>1, <1>8, <1>9, <3>1 DEF Before
      <3>3. m.kind = "append" => r.head_seen
        BY <3>1 DEF Faulty
      <3> HIDE DEF fault, x, m, i
      <3>4. QED
        BY <1>2, <1>6, <1>8, <3>1, <3>2, <3>3
    <2> HIDE DEF x, k, i
    <2>4. QED
      BY <2>1, <2>2, <2>3 DEF Whole
  <1>14. QED
    BY <1>12, <1>13

-----------------------------------------------------------------------------
(* A Call object and the messages read so far. *)

\* The n messages read so far and a Call object that has heard h of them agree: the
\* call follows its own request, h is right, and complete unless the call is closed.
Tracks(lg, n, c, r, h) ==
    IF r.receive = 0 THEN ~r.head_seen
    ELSE /\ r.receive \in 1..n /\ IsRequest(lg[r.receive]) /\ lg[r.receive].key = c
         /\ Right(lg, r.receive, n, h)
         /\ ~r.local_closed => Whole(lg, r.receive, n, h, r)

\* Nothing is said of a call that has heard nothing and is closed, and what concerns
\* neither its reading nor its queue does not matter.
LEMMA TracksKept ==
    ASSUME NEW lg, NEW n \in Nat, NEW c, NEW r, NEW h, NEW x, NEW g,
           Tracks(lg, n, c, r, h),
           \/ x.receive = 0 /\ ~x.head_seen
           \/ /\ x.receive = r.receive /\ x.chain_seq = r.chain_seq
              /\ x.head_seen <=> r.head_seen
              /\ x.terminal <=> r.terminal
              /\ \/ g = h /\ (r.local_closed => x.local_closed)
                 \/ g = <<>> /\ x.local_closed
    PROVE  Tracks(lg, n, c, x, g)
  <1>1. CASE x.receive = 0 /\ ~x.head_seen
    BY <1>1 DEF Tracks
  <1>2. CASE r.receive = 0 /\ x.receive = r.receive /\ (x.head_seen <=> r.head_seen)
    BY <1>2 DEF Tracks
  <1>3. CASE /\ r.receive # 0
             /\ x.receive = r.receive /\ x.chain_seq = r.chain_seq
             /\ x.head_seen <=> r.head_seen
             /\ x.terminal <=> r.terminal
             /\ \/ g = h /\ (r.local_closed => x.local_closed)
                \/ g = <<>> /\ x.local_closed
    <2>1. /\ x.receive \in 1..n /\ IsRequest(lg[x.receive]) /\ lg[x.receive].key = c
          /\ Right(lg, x.receive, n, h) /\ (~r.local_closed => Whole(lg, x.receive, n, h, r))
      BY <1>3 DEF Tracks
    <2>2. Right(lg, x.receive, n, g)
      <3>1. DOMAIN <<>> = {}
        OBVIOUS
      <3>2. g = <<>> => Right(lg, x.receive, n, g)
        BY <3>1 DEF Right
      <3>3. QED
        BY <1>3, <2>1, <3>2
    <2>3. ASSUME ~x.local_closed PROVE Whole(lg, x.receive, n, g, x)
      <3>1. g = h /\ Whole(lg, x.receive, n, h, r)
        BY <1>3, <2>1, <2>3
      <3>2. QED
        BY <1>3, <3>1 DEF Whole
    <2>4. x.receive # 0
      BY <1>3
    <2>5. QED
      BY <2>1, <2>2, <2>3, <2>4 DEF Tracks
  <1>4. QED
    BY <1>1, <1>2, <1>3

\* A longer log changes nothing for those who have not read on.
LEMMA TracksPrefix ==
    ASSUME NEW lg, NEW lh, NEW n \in Nat, \A i \in 1..n : lh[i] = lg[i],
           NEW c, NEW r, NEW h, Tracks(lg, n, c, r, h)
    PROVE  Tracks(lh, n, c, r, h)
  <1>1. CASE r.receive = 0
    BY <1>1 DEF Tracks
  <1>2. CASE r.receive # 0
    <2>1. PICK s \in 1..n : s = r.receive
      BY <1>2 DEF Tracks
    <2>2. /\ lh[s] = lg[s] /\ IsRequest(lg[s]) /\ lg[s].key = c /\ Right(lg, s, n, h)
          /\ ~r.local_closed => Whole(lg, s, n, h, r)
      BY <1>2, <2>1 DEF Tracks
    <2>3. Reading(lh, s, n) = Reading(lg, s, n) /\ (Ended(lh, s, n) <=> Ended(lg, s, n))
      BY ReadingPrefix
    <2>4. /\ Before(lh, s, n + 1) = Before(lg, s, n + 1)
          /\ \A i \in Reading(lg, s, n) : Breaks(lh, s, i) <=> Breaks(lg, s, i)
      BY ReadingPrefix
    <2>5. FirstResult(lh, s, n) = FirstResult(lg, s, n)
      BY ReadPrefix
    <2>6. \A i : Breaks(lh, s, i) \in BOOLEAN /\ Breaks(lg, s, i) \in BOOLEAN
      BY DEF Breaks
    <2>7. Right(lh, s, n, h)
      <3>1. \A i \in Reading(lg, s, n) : Breaks(lh, s, i) = Breaks(lg, s, i)
        BY <2>4, <2>6
      <3>2. QED
        BY <2>2, <2>3, <3>1 DEF Right
    <2>8. ~r.local_closed => Whole(lh, s, n, h, r)
      BY <2>2, <2>3, <2>4, <2>5 DEF Whole
    <2>9. QED
      BY <1>2, <2>1, <2>2, <2>7, <2>8 DEF Tracks
  <1>3. QED
    BY <1>1, <1>2

\* A message that the call does not take leaves it as it is.
LEMMA TracksIdle ==
    ASSUME NEW lg, NEW n \in Nat, NEW c, NEW r, NEW h, Tracks(lg, n, c, r, h),
           r.receive = 0 \/ ~Joins(lg, r.receive, n + 1) \/ r.terminal \/ r.local_closed
    PROVE  Tracks(lg, n + 1, c, r, h)
  <1>1. CASE r.receive = 0
    BY <1>1 DEF Tracks
  <1>2. CASE r.receive # 0
    <2>1. PICK s \in 1..n : s = r.receive
      BY <1>2 DEF Tracks
    <2>2. /\ IsRequest(lg[s]) /\ lg[s].key = c /\ Right(lg, s, n, h)
          /\ ~r.local_closed => Whole(lg, s, n, h, r)
      BY <1>2, <2>1 DEF Tracks
    <2>3. s \in Nat /\ s <= n /\ s \in 1..(n + 1)
      BY <2>1
    <2>4. Right(lg, s, n + 1, h)
      BY <2>2, <2>3, RightNext
    <2>5. ~r.local_closed => Whole(lg, s, n + 1, h, r)
      BY <1>2, <2>1, <2>2, <2>3, WholeIdle
    <2>6. QED
      BY <1>2, <2>1, <2>2, <2>3, <2>4, <2>5 DEF Tracks
  <1>3. QED
    BY <1>1, <1>2

\* A message that the call takes is queued with the right verdict.
LEMMA TracksNext ==
    ASSUME NEW lg, NEW n \in Nat, n + 1 \in 1..MaxSeq, NEW c, NEW r \in Call,
           NEW h \in Seq(Entries), Tracks(lg, n, c, r, h), r.receive # 0,
           lg[r.receive].streaming <=> c \in StreamingKeys,
           ~r.terminal, ~r.local_closed, Joins(lg, r.receive, n + 1)
    PROVE  Tracks(lg, n + 1, c, Queued(r, c, lg[n + 1], n + 1),
                  Append(h, [seq |-> n + 1, fault |-> Faulty(r, c, lg[n + 1])]))
  <1> DEFINE x == Queued(r, c, lg[n + 1], n + 1)
             k == Append(h, [seq |-> n + 1, fault |-> Faulty(r, c, lg[n + 1])])
  <1>1. PICK s \in 1..n : s = r.receive
    BY DEF Tracks
  <1>2. /\ IsRequest(lg[s]) /\ lg[s].key = c /\ Right(lg, s, n, h) /\ Whole(lg, s, n, h, r)
    BY <1>1 DEF Tracks
  <1>3. s \in Nat /\ s <= n /\ s \in 1..(n + 1)
    BY <1>1
  <1>4. Right(lg, s, n + 1, k) /\ Whole(lg, s, n + 1, k, x)
    BY <1>1, <1>2, <1>3, WholeNext
  <1>5. x.receive = r.receive
    BY QueuedFields
  <1> HIDE DEF x, k
  <1>6. Tracks(lg, n + 1, c, x, k)
    BY <1>1, <1>2, <1>3, <1>4, <1>5 DEF Tracks
  <1>7. QED
    BY <1>6 DEF x, k

\* A call that meets its request has nothing to read yet.
LEMMA TracksFirst ==
    ASSUME NEW lg, NEW n \in Nat, NEW c, NEW r, IsRequest(lg[n + 1]), lg[n + 1].key = c,
           r.receive = n + 1, ~r.head_seen, ~r.terminal
    PROVE  Tracks(lg, n + 1, c, r, <<>>)
  <1> DEFINE s == n + 1
  <1>1. s \in Nat /\ s \in 1..s /\ s <= s /\ s # 0
    OBVIOUS
  <1>2. Right(lg, s, s, <<>>)
    BY DEF Right
  <1> HIDE DEF s
  <1>3. Reading(lg, s, s) = {} /\ ~Ended(lg, s, s) /\ FirstResult(lg, s, s) = 0
    <2>1. Reading(lg, s, s) = {} /\ ~Ended(lg, s, s)
      BY <1>1, ReadingNext
    <2>2. FirstResult(lg, s, s) = 0
      BY <1>1, FirstNext
    <2>3. QED
      BY <2>1, <2>2
  <1>4. Whole(lg, s, s, <<>>, r)
    <2>1. Len(<<>>) = 0 /\ Cardinality({}) = 0
      BY FS_EmptySet
    <2>2. QED
      BY <1>3, <2>1 DEF Whole
  <1>5. QED
    BY <1>1, <1>2, <1>4 DEF Tracks, s

\* What _accept_output_locked takes is what the reference reading reads next.
LEMMA TakesWhatJoins ==
    ASSUME NEW lg, NEW n \in Nat, NEW c, NEW r, NEW h, Tracks(lg, n, c, r, h),
           r.receive # 0, lg[r.receive].streaming <=> c \in StreamingKeys,
           ~r.terminal, ~r.local_closed
    PROVE  Joins(lg, r.receive, n + 1) <=>
              LET m == lg[n + 1]
              IN  /\ IsOutput(m)
                  /\ m.ref = r.receive /\ m.key = c /\ ~Ignored(r, c, m)
  <1>1. lg[r.receive].key = c /\ Whole(lg, r.receive, n, h, r)
    BY DEF Tracks
  <1>2. r.head_seen <=> FirstResult(lg, r.receive, n) # 0
    BY <1>1 DEF Whole
  <1>3. (n + 1) - 1 = n
    OBVIOUS
  <1>4. QED
    BY <1>1, <1>2, <1>3 DEF Joins, Hit, Ignored, IsOutput

-----------------------------------------------------------------------------
(* The invariant of the reading. *)

\* Where the reader is in the log, and that a request says whether it streams.
PosInv ==
    /\ anchor <= Len(log) /\ lastSeen <= Len(log)
    /\ reader \in {"subscribed", "starting", "reading", "waiting"}
          => cursor \in {lastSeen, lastSeen + 1}
    /\ reader = "parsed" => cursor = lastSeen + 1 /\ log[cursor] \notin {System, Invalid}
    /\ \A i \in DOMAIN log :
          IsRequest(log[i]) => (log[i].streaming <=> log[i].key \in StreamingKeys)

TracksInv(c) == Tracks(log, lastSeen, c, call[c], Heard(c))

\* The inductive invariant of the reading.
ReadInv == PosInv /\ \A c \in Keys : TracksInv(c)

\* Nothing has been heard of a call that has not met its request.
LEMMA HeardFacts ==
    ASSUME SubInv, NEW c \in Keys
    PROVE  /\ call[c] \in Call /\ taken[c] \in Seq(Entries) /\ call[c].queue \in Seq(Entries)
           /\ Heard(c) \in Seq(Entries)
           /\ call[c].receive = 0 => Heard(c) = <<>>
  <1>1. call[c] \in Call /\ taken[c] \in Seq(Entries) /\ call[c].queue \in Seq(Entries)
    BY DEF SubInv, TypeOK, Call
  <1>2. Heard(c) \in Seq(Entries)
    BY <1>1, HeardMoves DEF Heard
  <1>3. ASSUME call[c].receive = 0 PROVE Heard(c) = <<>>
    <2>1. CallInv(c)
      BY DEF SubInv
    <2>2. call[c].queue = <<>> /\ taken[c] = <<>>
      BY <1>3, <2>1 DEF CallInv, StageInv, AgreeInv
    <2>3. QED
      BY <1>1, <2>2, HeardMoves DEF Heard
  <1>4. QED
    BY <1>1, <1>2, <1>3

\* A call is not affected by the steps of others.
LEMMA SameTracks ==
    ASSUME NEW d \in Keys, TracksInv(d), UNCHANGED <<log, lastSeen>>,
           call'[d] = call[d], taken'[d] = taken[d]
    PROVE  TracksInv(d)'
  BY DEF TracksInv, Heard

\* The seq of publishing, the error and the close are no part of the reading.
LEMMA AsideTracks ==
    ASSUME NEW d \in Keys, TracksInv(d), lastSeen \in Nat, UNCHANGED <<log, lastSeen>>,
           /\ call'[d].receive = call[d].receive /\ call'[d].chain_seq = call[d].chain_seq
           /\ call'[d].head_seen = call[d].head_seen /\ call'[d].terminal = call[d].terminal,
           \/ Heard(d)' = Heard(d) /\ (call[d].local_closed => call'[d].local_closed)
           \/ Heard(d)' = <<>> /\ call'[d].local_closed
    PROVE  TracksInv(d)'
  <1>1. Tracks(log, lastSeen, d, call[d], Heard(d))
    BY DEF TracksInv
  <1>2. Tracks(log, lastSeen, d, call'[d], Heard(d)')
    BY <1>1, TracksKept
  <1>3. QED
    BY <1>2 DEF TracksInv

\* Nothing is expected of a call that has not met its request.
LEMMA BlankTracks ==
    ASSUME NEW d \in Keys, call'[d].receive = 0, ~call'[d].head_seen
    PROVE  TracksInv(d)'
  BY DEF TracksInv, Tracks

\* _fail_locked empties no queue but that of the call at fault, which nobody reads.
LEMMA FailTracks ==
    ASSUME SubInv, NEW cs, NEW handle, FailLocked(cs, handle), UNCHANGED <<log, taken>>,
           NEW d \in Keys, TracksInv(d), Treated(d, cs[d])
    PROVE  TracksInv(d)'
  <1>1. /\ call[d] \in Call /\ CallInv(d) /\ lastSeen' = lastSeen /\ lastSeen \in Nat
        /\ call'[d] = IF d \in Begun THEN Failed(cs[d]) ELSE cs[d]
    BY HeardFacts DEF FailLocked, SubInv, TypeOK
  <1>2. CASE cs[d] = call[d]
    <2>1. /\ call'[d].receive = call[d].receive /\ call'[d].chain_seq = call[d].chain_seq
          /\ call'[d].head_seen = call[d].head_seen /\ call'[d].terminal = call[d].terminal
          /\ call'[d].queue = call[d].queue /\ call'[d].local_closed = call[d].local_closed
      BY <1>1, <1>2, CallFields
    <2>2. Heard(d)' = Heard(d)
      BY <2>1 DEF Heard
    <2>3. QED
      BY <1>1, <2>1, <2>2, AsideTracks
  <1>3. ASSUME NEW r \in Call, cs[d] = Invalidated(r),
               /\ r.receive = call[d].receive /\ r.chain_seq = call[d].chain_seq
               /\ r.head_seen = call[d].head_seen /\ r.terminal = call[d].terminal,
               call[d].receive = 0 \/ taken[d] = <<>>
        PROVE  TracksInv(d)'
    <2>1. call'[d] = Invalidated(r)
      BY <1>1, <1>3, CallFields
    <2>2. /\ call'[d].receive = r.receive /\ call'[d].chain_seq = r.chain_seq
          /\ call'[d].head_seen = r.head_seen /\ call'[d].terminal = r.terminal
          /\ call'[d].queue = <<>> /\ call'[d].local_closed
      BY <2>1, CallFields
    <2>3. CASE call[d].receive = 0
      <3>1. ~call[d].head_seen
        BY <2>3 DEF TracksInv, Tracks
      <3>2. QED
        BY <1>3, <2>2, <2>3, <3>1, BlankTracks
    <2>4. CASE taken[d] = <<>>
      <3>1. Heard(d)' = <<>>
        <4>1. taken'[d] = <<>> /\ <<>> \in Seq(Entries)
          BY <2>4, EmptySeq
        <4>2. taken'[d] \o call'[d].queue = <<>>
          BY <2>2, <4>1, HeardMoves
        <4>3. QED
          BY <4>2 DEF Heard
      <3>2. QED
        BY <1>1, <1>3, <2>2, <3>1, AsideTracks
    <2>5. QED
      BY <1>3, <2>3, <2>4
  <1>4. CASE cs[d] = Invalidated(call[d]) /\ d \in byUuid
    <2>1. call[d].receive = 0
      BY <1>1, <1>4 DEF CallInv, RouteInv
    <2>2. QED
      BY <1>1, <1>3, <1>4, <2>1
  <1>5. CASE /\ \E seq \in 1..(MaxSeq + 1) :
                   cs[d] = Invalidated([call[d] EXCEPT !.request_seq = seq])
             /\ app[d] = "sent"
    <2>1. PICK seq \in 1..(MaxSeq + 1) : cs[d] = Invalidated([call[d] EXCEPT !.request_seq = seq])
      BY <1>5
    <2> DEFINE r == [call[d] EXCEPT !.request_seq = seq]
    <2>2. seq \in 0..(MaxSeq + 1)
      BY SubscriptionAssumption
    <2>3. /\ r \in Call /\ r.receive = call[d].receive /\ r.chain_seq = call[d].chain_seq
          /\ r.head_seen = call[d].head_seen /\ r.terminal = call[d].terminal
      BY <1>1, <2>2 DEF Call
    <2>4. taken[d] = <<>>
      BY <1>1, <1>5 DEF CallInv, StageInv, HandedOut
    <2> HIDE DEF r
    <2>5. cs[d] = Invalidated(r)
      BY <2>1 DEF r
    <2>6. QED
      BY <1>3, <2>3, <2>4, <2>5
  <1>6. QED
    BY <1>2, <1>4, <1>5 DEF Treated

-----------------------------------------------------------------------------
(* Every step keeps it. *)

\* Who leaves the log and the reader alone loses nothing of its position.
LEMMA PosKept ==
    ASSUME SubInv, PosInv, UNCHANGED <<log, lastSeen, cursor>>, anchor' \in {anchor, Len(log)},
           \/ reader' = reader
           \/ reader' \notin {"subscribed", "starting", "reading", "waiting", "parsed"}
    PROVE  PosInv'
  <1>1. Len(log) \in Nat
    BY LogFacts DEF SubInv
  <1>2. QED
    BY <1>1 DEF PosInv

\* The reader starts at the status that prepare() has read, and no call is there yet.
LEMMA StartReads ==
    ASSUME SubInv, ReadInv, NEW c \in Keys, StartReader(c)
    PROVE  ReadInv'
  <1>1. /\ log' = log /\ call' = call /\ lastSeen' = anchor /\ anchor' = anchor
        /\ reader' = "connect" /\ cursor' = cursor
    BY DEF StartReader, server
  <1>2. \A d \in Keys : call[d] = NewCall
    BY DEF StartReader, SubInv, PrepInv, Preparing, CallInv, StageInv, Opening
  <1>3. ASSUME NEW d \in Keys PROVE TracksInv(d)'
    <2>1. call'[d].receive = 0 /\ ~call'[d].head_seen
      BY <1>1, <1>2 DEF NewCall
    <2>2. QED
      BY <2>1, BlankTracks
  <1>4. PosInv'
    BY <1>1 DEF ReadInv, PosInv
  <1>5. QED
    BY <1>3, <1>4 DEF ReadInv

\* published() changes the seq of publishing, or empties a queue that nobody reads.
LEMMA PublishedReads ==
    ASSUME SubInv, ReadInv, NEW c \in Keys, NEW seq \in 1..(MaxSeq + 1), Published(c, seq)
    PROVE  ReadInv'
  <1> DEFINE r == [call[c] EXCEPT !.request_seq = seq]
  <1>1. /\ call \in [Keys -> Call] /\ CallInv(c) /\ app[c] = "sent" /\ lastSeen \in Nat
        /\ app \in [Keys -> AppLabels]
        /\ UNCHANGED <<server, closer, connection, taken, cancels, callbacks>>
    BY DEF SubInv, TypeOK, Published
  <1>2. /\ r \in Call /\ r.receive = call[c].receive /\ r.chain_seq = call[c].chain_seq
        /\ r.head_seen = call[c].head_seen /\ r.terminal = call[c].terminal
        /\ r.queue = call[c].queue /\ r.local_closed = call[c].local_closed
    <2>1. seq \in 0..(MaxSeq + 1) /\ call[c] \in Call
      BY <1>1, SubscriptionAssumption
    <2>2. QED
      BY <2>1 DEF Call
  <1>3. taken[c] = <<>>
    BY <1>1 DEF CallInv, StageInv, HandedOut
  <1>4. /\ UNCHANGED <<log, cursor, reader, taken>> /\ lastSeen' = lastSeen /\ anchor' = anchor
    BY <1>1 DEF Published, FailLocked, server, shared, connection
  <1>5. PosInv'
    BY <1>4, PosKept DEF ReadInv
  <1>6. ASSUME NEW x, call' = [call EXCEPT ![c] = x], x = r \/ x = Invalidated(r)
        PROVE  \A d \in Keys : TracksInv(d)'
    <2>1. call'[c] = x /\ \A d \in Keys \ {c} : call'[d] = call[d]
      BY <1>1, <1>6
    <2>2. \A d \in Keys \ {c} : TracksInv(d)'
      BY <1>4, <2>1, SameTracks DEF ReadInv
    <2> HIDE DEF r
    <2>3. CASE x = r
      <3>1. Heard(c)' = Heard(c)
        BY <1>2, <1>4, <2>1, <2>3 DEF Heard
      <3>2. TracksInv(c)'
        BY <1>1, <1>2, <1>4, <2>1, <2>3, <3>1, AsideTracks DEF ReadInv
      <3>3. QED
        BY <2>2, <3>2
    <2>4. CASE x = Invalidated(r)
      <3>1. /\ x.receive = r.receive /\ x.chain_seq = r.chain_seq /\ x.head_seen = r.head_seen
            /\ x.terminal = r.terminal /\ x.queue = <<>> /\ x.local_closed
        BY <1>2, <2>4, CallFields
      <3>2. Heard(c)' = <<>>
        <4>1. <<>> \in Seq(Entries)
          BY EmptySeq
        <4>2. taken'[c] \o call'[c].queue = <<>>
          BY <1>3, <1>4, <2>1, <3>1, <4>1, HeardMoves
        <4>3. QED
          BY <4>2 DEF Heard
      <3>3. TracksInv(c)'
        BY <1>1, <1>2, <1>4, <2>1, <3>1, <3>2, AsideTracks DEF ReadInv
      <3>4. QED
        BY <2>2, <3>3
    <2>5. QED
      BY <1>6, <2>3, <2>4
  <1>7. ASSUME FailLocked([call EXCEPT ![c] = Invalidated(r)], active), Goto(c, "disputed")
        PROVE  \A d \in Keys : TracksInv(d)'
    <2> DEFINE cs == [call EXCEPT ![c] = Invalidated(r)]
    <2>1. cs[c] = Invalidated(r) /\ \A d \in Keys \ {c} : cs[d] = call[d]
      BY <1>1
    <2>2. app' = [app EXCEPT ![c] = "disputed"]
      BY <1>7 DEF Goto
    <2>3. \A d \in Keys : Treated(d, cs[d])
      BY <1>1, <2>1, <2>2 DEF Treated
    <2> HIDE DEF cs
    <2>4. FailLocked(cs, active)
      BY <1>7 DEF cs
    <2>5. QED
      BY <1>4, <2>3, <2>4, FailTracks DEF ReadInv
  <1>8. \A d \in Keys : TracksInv(d)'
    <2>1. CASE Disagrees(r) /\ call' = [call EXCEPT ![c] = Invalidated(r)]
      <3> HIDE DEF r
      <3> QED BY <1>6, <2>1
    <2>2. CASE call' = [call EXCEPT ![c] = r]
      <3> HIDE DEF r
      <3> QED BY <1>6, <2>2
    <2>3. QED
      BY <1>7, <2>1, <2>2 DEF Published
  <1>9. QED
    BY <1>5, <1>8 DEF ReadInv

\* What next_message hands out has been heard before.
LEMMA NextMessageReads ==
    ASSUME SubInv, ReadInv, NEW c \in Keys, NextMessage(c)
    PROVE  ReadInv'
  <1>1. /\ call \in [Keys -> Call] /\ taken \in [Keys -> Seq(Entries)] /\ lastSeen \in Nat
        /\ UNCHANGED <<log, lastSeen, anchor, cursor, reader>>
    BY DEF SubInv, TypeOK, NextMessage, server, shared, connection
  <1>2. PosInv'
    BY <1>1, PosKept DEF ReadInv
  <1>3. CASE call[c].queue # <<>>
    <2> DEFINE q == call[c].queue
    <2>1. /\ call' = [call EXCEPT ![c].queue = Tail(@)]
          /\ taken' = [taken EXCEPT ![c] = Append(@, Head(q))]
      BY <1>3 DEF NextMessage
    <2>2. \A d \in Keys \ {c} : call'[d] = call[d] /\ taken'[d] = taken[d]
      BY <1>1, <2>1
    <2>3. \A d \in Keys \ {c} : TracksInv(d)'
      BY <1>1, <2>2, SameTracks DEF ReadInv
    <2>4. /\ call'[c] = [call[c] EXCEPT !.queue = Tail(q)]
          /\ taken'[c] = Append(taken[c], Head(q)) /\ call[c] \in Call
      BY <1>1, <2>1
    <2>5. /\ call'[c].receive = call[c].receive /\ call'[c].chain_seq = call[c].chain_seq
          /\ call'[c].head_seen = call[c].head_seen /\ call'[c].terminal = call[c].terminal
          /\ call'[c].local_closed = call[c].local_closed /\ call'[c].queue = Tail(q)
      BY <2>4 DEF Call
    <2>6. Heard(c)' = Heard(c)
      <3>1. taken[c] \in Seq(Entries) /\ q \in Seq(Entries) /\ q # <<>>
        BY <1>3, HeardFacts
      <3>2. Heard(c) = taken[c] \o q
        BY DEF Heard
      <3> HIDE DEF q
      <3>3. Append(taken[c], Head(q)) \o Tail(q) = taken[c] \o q
        BY <3>1, HeardMoves
      <3>4. QED
        BY <2>4, <2>5, <3>2, <3>3 DEF Heard
    <2>7. TracksInv(c)'
      BY <1>1, <2>5, <2>6, AsideTracks DEF ReadInv
    <2>8. QED
      BY <1>2, <2>3, <2>7 DEF ReadInv
  <1>4. CASE call[c].queue = <<>>
    <2>1. UNCHANGED <<call, taken>>
      BY <1>4 DEF NextMessage
    <2>2. QED
      BY <1>1, <1>2, <2>1, SameTracks DEF ReadInv
  <1>5. QED
    BY <1>3, <1>4

\* Every step of create() and of the iteration.
LEMMA AppReads ==
    ASSUME SubInv, ReadInv, NEW c \in Keys, Prepare(c) \/ AppStep(c)
    PROVE  ReadInv'
  <1>1. app \in [Keys -> AppLabels] /\ call \in [Keys -> Call]
    BY DEF SubInv, TypeOK
  <1>2. CASE \/ Prepare(c) \/ ReadStatus(c) \/ Begin(c) \/ Draw(c) \/ Register(c) \/ Gate(c)
             \/ NoAnswer(c) \/ Return(c) \/ StartFails(c)
    <2>1. /\ UNCHANGED <<log, lastSeen, call, taken, cursor, reader>>
          /\ anchor' \in {anchor, Len(log)}
      BY <1>2
      DEF Prepare, ReadStatus, Begin, Draw, Register, Gate, NoAnswer, Return, StartFails, Unless,
          server, shared, connection, history
    <2>2. QED
      BY <2>1, PosKept, SameTracks DEF ReadInv
  <1>3. CASE FailPrepare(c)
    <2>1. /\ FailLocked(call, active) /\ app' = [app EXCEPT ![c] = "failing"]
          /\ app[c] = "unprepared"
          /\ UNCHANGED <<log, taken, cursor, reader>> /\ anchor' = anchor /\ lastSeen' = lastSeen
      BY <1>3 DEF FailPrepare, FailLocked, Goto, server, connection, history
    <2>2. \A d \in Keys : Treated(d, call[d])
      BY <1>1, <2>1 DEF Treated, Opening
    <2>3. QED
      BY <2>1, <2>2, PosKept, FailTracks DEF ReadInv
  <1>4. CASE Abandon(c)
    <2>1. /\ call' = [call EXCEPT ![c] = [NewCall EXCEPT !.local_closed = TRUE]]
          /\ UNCHANGED <<log, taken, cursor, reader, anchor, lastSeen>>
      BY <1>4 DEF Abandon, server, connection, history
    <2>2. \A d \in Keys \ {c} : call'[d] = call[d] /\ taken'[d] = taken[d]
      BY <1>1, <2>1
    <2>3. \A d \in Keys \ {c} : TracksInv(d)'
      BY <2>1, <2>2, SameTracks DEF ReadInv
    <2>4. call'[c].receive = 0 /\ ~call'[c].head_seen
      BY <1>1, <2>1 DEF NewCall
    <2>5. TracksInv(c)'
      BY <2>4, BlankTracks
    <2>6. QED
      BY <2>1, <2>3, <2>5, PosKept DEF ReadInv
  <1>5. QED
    BY <1>2, <1>3, <1>4, StartReads, PublishedReads, NextMessageReads DEF AppStep, Answer

\* Every step of close().
LEMMA CloserReads ==
    ASSUME SubInv, ReadInv, NEW c \in Keys, NEW k \in Closers, Close(c, k) \/ CloserStep(c, k)
    PROVE  ReadInv'
  <1>1. /\ call \in [Keys -> Call] /\ lastSeen \in Nat
        /\ UNCHANGED <<log, lastSeen, anchor, cursor, reader, taken>>
    BY DEF SubInv, TypeOK, CloserStep, Close, CloseGate, CloseAnswer, CloseFinish, server, shared,
           connection, history
  <1>2. \/ call' = call
        \/ call' = [call EXCEPT ![c] = Claimed(call[c])]
        \/ call' = [call EXCEPT ![c].close = "done"]
    BY DEF CloserStep, Close, CloseGate, CloseAnswer, CloseFinish
  <1>3. \A d \in Keys \ {c} : call'[d] = call[d]
    BY <1>1, <1>2
  <1>4. /\ call'[c].receive = call[c].receive /\ call'[c].chain_seq = call[c].chain_seq
        /\ call'[c].head_seen = call[c].head_seen /\ call'[c].terminal = call[c].terminal
        /\ call'[c].queue = call[c].queue /\ (call[c].local_closed => call'[c].local_closed)
    <2>1. call[c] \in Call
      BY <1>1
    <2>2. \/ call'[c] = call[c]
          \/ call'[c] = [call[c] EXCEPT !.close = "started", !.local_closed = TRUE]
          \/ call'[c] = [call[c] EXCEPT !.close = "done"]
      BY <1>1, <1>2 DEF Claimed
    <2>3. QED
      BY <2>1, <2>2 DEF Call
  <1>5. Heard(c)' = Heard(c)
    BY <1>1, <1>4 DEF Heard
  <1>6. TracksInv(c)'
    BY <1>1, <1>4, <1>5, AsideTracks DEF ReadInv
  <1>7. QED
    BY <1>1, <1>3, <1>6, PosKept, SameTracks DEF ReadInv

\* What the lemmas about the reader need to know of the log.
LEMMA ReadFacts ==
    ASSUME SubInv, PosInv
    PROVE  /\ Len(log) \in Nat /\ DOMAIN log = 1..Len(log) /\ Len(log) <= MaxSeq
           /\ \A i \in DOMAIN log : log[i] \in Messages
           /\ lastSeen \in Nat /\ lastSeen <= Len(log) /\ cursor \in Nat
           /\ reader = "parsed" => cursor \in DOMAIN log
  BY LogFacts DEF SubInv, TypeOK, LogInv, PosInv

\* What a message that is taken is.
LEMMA Kinds ==
    ASSUME NEW m \in Messages
    PROVE  /\ IsOutput(m) <=> ~IsRequest(m) /\ m \notin {System, Invalid}
           /\ m \in {System, Invalid} => ~IsOutput(m) /\ ~IsRequest(m)
           /\ IsRequest(m) => ~IsOutput(m) /\ m.key \in Keys
  <1>1. System.kind = "system" /\ Invalid.kind = "invalid"
    BY DEF System, Invalid
  <1>2. CASE m \in Requests
    <2>1. m.kind = "request" /\ m.key \in Keys
      BY <1>2 DEF Requests
    <2>2. QED
      BY <1>1, <2>1 DEF IsOutput, IsRequest
  <1>3. CASE m \in Outputs \cup Cancels
    <2>1. m \in Results => m.kind = "result"
      BY DEF Results
    <2>2. m \in Appends => m.kind = "append"
      BY DEF Appends
    <2>3. m \in Ends => m.kind = "end"
      BY DEF Ends
    <2>4. m \in Cancels => m.kind = "cancel"
      BY DEF Cancels
    <2>5. m.kind \in {"result", "append", "end", "cancel"}
      BY <1>3, <2>1, <2>2, <2>3, <2>4 DEF Outputs
    <2>6. QED
      BY <1>1, <2>5 DEF IsOutput, IsRequest
  <1>4. CASE m \in {System, Invalid}
    BY <1>1, <1>4 DEF IsOutput, IsRequest
  <1>5. QED
    BY <1>2, <1>3, <1>4 DEF Messages

\* A message that is no output is taken by no call.
LEMMA JoinsOutput ==
    ASSUME NEW lg, NEW s, NEW i, ~IsOutput(lg[i])
    PROVE  ~Joins(lg, s, i)
  BY DEF Joins, Hit, IsOutput

\* A call knows whether its request streams.
LEMMA TrackedStreams ==
    ASSUME SubInv, ReadInv, NEW d \in Keys, call[d].receive # 0
    PROVE  lastSeen \in Nat /\ Tracks(log, lastSeen, d, call[d], Heard(d))
           /\ (log[call[d].receive].streaming <=> d \in StreamingKeys)
  <1>1. Tracks(log, lastSeen, d, call[d], Heard(d))
    BY DEF ReadInv, TracksInv
  <1>2. /\ call[d].receive \in 1..lastSeen /\ IsRequest(log[call[d].receive])
        /\ log[call[d].receive].key = d
    BY <1>1 DEF Tracks
  <1>3. lastSeen \in Nat /\ lastSeen <= Len(log) /\ DOMAIN log = 1..Len(log) /\ Len(log) \in Nat
    BY ReadFacts DEF ReadInv
  <1>4. call[d].receive \in DOMAIN log
    BY <1>2, <1>3
  <1>5. QED
    BY <1>1, <1>2, <1>3, <1>4 DEF ReadInv, PosInv

\* The connection of the reader comes and goes; where it reads on does not change.
LEMMA ConnectionReads ==
    ASSUME SubInv, ReadInv, Connect \/ Subscribed \/ Started \/ Read \/ ReaderEnd PROVE ReadInv'
  <1>1. UNCHANGED <<log, anchor, lastSeen, call, taken>>
    BY DEF Connect, Subscribed, Started, Read, ReaderEnd, ReaderOnly, server, shared
  <1>2. PosInv'
    <2>1. CASE Connect
      BY <1>1, <2>1 DEF ReadInv, PosInv, Connect, FirstDelivered, Leave, Unconnected
    <2>2. CASE Subscribed \/ Started \/ Read \/ ReaderEnd
      BY <1>1, <2>2 DEF ReadInv, PosInv, Subscribed, Started, Read, ReaderEnd, Leave, Unconnected
    <2>3. QED
      BY <2>1, <2>2
  <1>3. QED
    BY <1>1, <1>2, SameTracks DEF ReadInv

\* A failure empties no queue.
LEMMA FaultReads ==
    ASSUME SubInv, ReadInv, Lost \/ StreamBroken \/ BadMessage PROVE ReadInv'
  <1>1. /\ UNCHANGED <<log, app, taken, cursor>> /\ lastSeen' = lastSeen /\ anchor' = anchor
        /\ reader' \in {"final", "failing", "connect"}
    BY DEF Lost, StreamBroken, BadMessage, FailLocked, server, shared, connection, history
  <1>2. PosInv'
    BY <1>1, PosKept DEF ReadInv
  <1>3. CASE UNCHANGED call
    BY <1>1, <1>2, <1>3, SameTracks DEF ReadInv
  <1>4. ASSUME NEW handle, FailLocked(call, handle) PROVE ReadInv'
    <2>1. \A d \in Keys : Treated(d, call[d])
      BY <1>1 DEF Treated
    <2>2. QED
      BY <1>1, <1>2, <1>4, <2>1, FailTracks DEF ReadInv
  <1>5. QED
    BY <1>3, <1>4 DEF Lost, StreamBroken, BadMessage

\* A repeated message changes nothing, and one of OpenEvent itself is no output.
LEMMA ReceiveReads == ASSUME SubInv, ReadInv, Receive PROVE ReadInv'
  <1>1. /\ UNCHANGED <<log, anchor, call, taken>> /\ reader = "waiting" /\ cursor \in DOMAIN log
        /\ cursor \in {lastSeen, lastSeen + 1}
    BY DEF Receive, server, history, ReadInv, PosInv
  <1>2. /\ Len(log) \in Nat /\ DOMAIN log = 1..Len(log) /\ log[cursor] \in Messages
        /\ lastSeen \in Nat /\ lastSeen <= Len(log) /\ cursor \in Nat /\ cursor <= Len(log)
    BY <1>1, ReadFacts DEF ReadInv
  <1>3. CASE lastSeen' = lastSeen
    <2>1. PosInv'
      <3>1. CASE reader' = "final"
        BY <1>1, <1>3, <3>1 DEF ReadInv, PosInv
      <3>2. CASE ~failed /\ Repeated(cursor) /\ reader' = "reading" /\ cursor' = cursor + 1
        BY <1>1, <1>2, <1>3, <3>2 DEF ReadInv, PosInv, Repeated
      <3>3. CASE /\ ~Repeated(cursor) /\ log[cursor] # System /\ cursor' = cursor
                 /\ reader' = IF log[cursor] = Invalid THEN "bad" ELSE "parsed"
        BY <1>1, <1>2, <1>3, <3>3 DEF ReadInv, PosInv, Repeated
      <3>4. CASE ~Repeated(cursor) /\ lastSeen' = cursor
        BY <1>2, <1>3, <3>4 DEF Repeated
      <3>5. QED
        BY <3>1, <3>2, <3>3, <3>4 DEF Receive
    <2>2. QED
      BY <1>1, <1>3, <2>1, SameTracks DEF ReadInv
  <1>4. CASE lastSeen' # lastSeen
    <2>1. /\ cursor = lastSeen + 1 /\ log[cursor] = System /\ lastSeen' = cursor
          /\ cursor' = cursor + 1 /\ reader' = "reading"
      BY <1>1, <1>2, <1>4 DEF Receive, Repeated
    <2>2. PosInv'
      BY <1>1, <1>2, <2>1 DEF ReadInv, PosInv
    <2>3. ASSUME NEW d \in Keys PROVE TracksInv(d)'
      <3>1. ~Joins(log, call[d].receive, lastSeen + 1)
        BY <1>2, <2>1, Kinds, JoinsOutput
      <3>2. Tracks(log, lastSeen, d, call[d], Heard(d))
        BY DEF ReadInv, TracksInv
      <3>3. Tracks(log, lastSeen + 1, d, call[d], Heard(d))
        BY <1>2, <3>1, <3>2, TracksIdle
      <3>4. QED
        BY <1>1, <2>1, <3>3 DEF TracksInv, Heard
    <2>4. QED
      BY <2>2, <2>3 DEF ReadInv
  <1>5. QED
    BY <1>3, <1>4

\* The request of a call that waits for it is where its reading begins.
LEMMA RequestReads ==
    ASSUME SubInv, ReadInv, reader = "parsed", IsRequest(log[cursor]), AcceptRequest(cursor),
           lastSeen' = cursor, UNCHANGED <<log, taken>>
    PROVE  \A d \in Keys : TracksInv(d)'
  <1>1. /\ cursor = lastSeen + 1 /\ lastSeen \in Nat /\ log[cursor] \in Messages
        /\ call \in [Keys -> Call]
    BY ReadFacts DEF ReadInv, PosInv, SubInv, TypeOK
  <1>2. ASSUME NEW d \in Keys, call'[d] = call[d] PROVE TracksInv(d)'
    <2>1. ~Joins(log, call[d].receive, lastSeen + 1)
      BY <1>1, Kinds, JoinsOutput
    <2>2. Tracks(log, lastSeen, d, call[d], Heard(d))
      BY DEF ReadInv, TracksInv
    <2>3. Tracks(log, lastSeen + 1, d, call[d], Heard(d))
      BY <1>1, <2>1, <2>2, TracksIdle
    <2>4. QED
      BY <1>1, <1>2, <2>3 DEF TracksInv, Heard
  <1>3. CASE log[cursor].key \in byUuid
    <2>1. PICK c \in Keys : c = log[cursor].key
      BY <1>1, Kinds
    <2>2. call' = [call EXCEPT ![c].receive = cursor, ![c].chain_seq = cursor]
      BY <1>3, <2>1 DEF AcceptRequest
    <2>3. \A d \in Keys \ {c} : call'[d] = call[d]
      BY <1>1, <2>2
    <2>4. /\ call[c] \in Call
          /\ call'[c] = [call[c] EXCEPT !.receive = cursor, !.chain_seq = cursor]
      BY <1>1, <2>2
    <2>5. /\ call'[c].receive = cursor /\ call'[c].head_seen = call[c].head_seen
          /\ call'[c].terminal = call[c].terminal /\ call'[c].queue = call[c].queue
      BY <2>4 DEF Call
    <2>6. call[c].receive = 0 /\ ~call[c].terminal
      BY <1>3, <2>1 DEF SubInv, CallInv, RouteInv, StageInv
    <2>7. ~call[c].head_seen
      BY <2>6 DEF ReadInv, TracksInv, Tracks
    <2>8. Heard(c)' = <<>>
      BY <2>5, <2>6, HeardFacts DEF Heard
    <2>9. Tracks(log, lastSeen + 1, c, call'[c], <<>>)
      BY <1>1, <2>1, <2>5, <2>6, <2>7, TracksFirst
    <2>10. TracksInv(c)'
      BY <1>1, <2>8, <2>9 DEF TracksInv
    <2>11. QED
      BY <1>2, <2>3, <2>10
  <1>4. CASE log[cursor].key \notin byUuid
    BY <1>2, <1>4 DEF AcceptRequest
  <1>5. QED
    BY <1>3, <1>4

\* An output is queued for the call that it is for, and taken by no other.
LEMMA OutputReads ==
    ASSUME SubInv, ReadInv, reader = "parsed", ~failed, ~IsRequest(log[cursor]),
           AcceptOutput(cursor), lastSeen' = cursor, UNCHANGED <<log, taken>>
    PROVE  \A d \in Keys : TracksInv(d)'
  <1> DEFINE m == log[cursor]
             mine == {d \in bySeq : call[d].receive = m.ref /\ d = m.key}
             news == {d \in mine : ~Ignored(call[d], d, m)}
             r == [d \in mine |-> Queued(call[d], d, m, cursor)]
  <1>1. /\ cursor = lastSeen + 1 /\ lastSeen \in Nat /\ m \in Messages /\ IsOutput(m)
        /\ call \in [Keys -> Call] /\ bySeq \subseteq Keys /\ cursor \in 1..MaxSeq
    <2>1. /\ cursor = lastSeen + 1 /\ lastSeen \in Nat /\ m \in Messages
          /\ m \notin {System, Invalid} /\ cursor \in DOMAIN log
      BY ReadFacts DEF ReadInv, PosInv
    <2>2. cursor \in 1..MaxSeq
      BY <2>1, ReadFacts, SubscriptionAssumption DEF ReadInv
    <2>3. IsOutput(m)
      BY <2>1, Kinds
    <2>4. QED
      BY <2>1, <2>2, <2>3 DEF SubInv, TypeOK
  <1>2. call' = [d \in Keys |-> IF d \in news THEN r[d] ELSE call[d]]
    BY DEF AcceptOutput
  <1>3. \A d \in Keys : call'[d] = IF d \in news THEN Queued(call[d], d, m, cursor) ELSE call[d]
    BY <1>2
  <1> HIDE DEF r
  <1>4. ASSUME NEW d \in Keys
        PROVE  /\ d \in news => /\ call[d].receive # 0 /\ ~call[d].terminal
                                /\ ~call[d].local_closed
                                /\ Joins(log, call[d].receive, lastSeen + 1)
               /\ d \notin news => \/ call[d].receive = 0 \/ call[d].terminal
                                   \/ call[d].local_closed
                                   \/ ~Joins(log, call[d].receive, lastSeen + 1)
    <2>1. CallInv(d)
      BY DEF SubInv
    <2>2. call[d].receive # 0 => d \in Begun
      BY <2>1 DEF CallInv, StageInv, NewCall, Begun
    <2>3. d \in bySeq <=> /\ call[d].receive # 0 /\ ~call[d].terminal
                          /\ ~call[d].local_closed
      BY <2>1, <2>2 DEF CallInv, RouteInv, Open
    <2>4. d \in bySeq =>
             (Joins(log, call[d].receive, lastSeen + 1) <=>
                 /\ IsOutput(m) /\ m.ref = call[d].receive /\ m.key = d
                 /\ ~Ignored(call[d], d, m))
      BY <1>1, <2>3, TrackedStreams, TakesWhatJoins
    <2>5. QED
      BY <1>1, <2>3, <2>4
  <1>5. ASSUME NEW d \in Keys, d \notin news PROVE TracksInv(d)'
    <2>1. call'[d] = call[d]
      BY <1>3, <1>5
    <2>2. Tracks(log, lastSeen, d, call[d], Heard(d))
      BY DEF ReadInv, TracksInv
    <2>3. Tracks(log, lastSeen + 1, d, call[d], Heard(d))
      BY <1>1, <1>4, <1>5, <2>2, TracksIdle
    <2>4. QED
      BY <1>1, <2>1, <2>3 DEF TracksInv, Heard
  <1>6. ASSUME NEW d \in Keys, d \in news PROVE TracksInv(d)'
    <2> DEFINE entry == [seq |-> cursor, fault |-> Faulty(call[d], d, m)]
    <2>1. call'[d] = Queued(call[d], d, m, cursor)
      BY <1>3, <1>6
    <2>2. /\ call[d].receive # 0 /\ ~call[d].terminal /\ ~call[d].local_closed
          /\ Joins(log, call[d].receive, lastSeen + 1)
      BY <1>4, <1>6
    <2>3. /\ call[d] \in Call /\ Heard(d) \in Seq(Entries)
          /\ taken[d] \in Seq(Entries) /\ call[d].queue \in Seq(Entries)
      BY HeardFacts
    <2>4. /\ Tracks(log, lastSeen, d, call[d], Heard(d))
          /\ log[call[d].receive].streaming <=> d \in StreamingKeys
      BY <2>2, TrackedStreams
    <2>5. Tracks(log, cursor, d, call'[d], Append(Heard(d), entry))
      BY <1>1, <2>1, <2>2, <2>3, <2>4, TracksNext
    <2>6. Heard(d)' = Append(Heard(d), entry)
      <3>1. entry \in Entries /\ call'[d].queue = Append(call[d].queue, entry)
        BY <1>1, <2>1, <2>3, QueuedReads
      <3> HIDE DEF entry
      <3>2. PICK t \in Seq(Entries), q \in Seq(Entries) : t = taken[d] /\ q = call[d].queue
        BY <2>3
      <3>3. t \o Append(q, entry) = Append(t \o q, entry)
        BY <3>1, HeardMoves
      <3>4. QED
        BY <3>1, <3>2, <3>3 DEF Heard
    <2>7. QED
      BY <2>5, <2>6 DEF TracksInv
  <1>7. QED
    BY <1>5, <1>6

\* _accept reads one message for all calls, or fails and reads none.
LEMMA AcceptReads == ASSUME SubInv, ReadInv, Accept PROVE ReadInv'
  <1>1. /\ UNCHANGED <<log, taken, app>> /\ reader = "parsed"
        /\ call \in [Keys -> Call] /\ byUuid \subseteq Keys
    BY DEF Accept, server, history, SubInv, TypeOK
  <1>2. CASE failed /\ reader' = "final" /\ UNCHANGED <<shared, call, cursor>>
    <2>1. UNCHANGED <<anchor, lastSeen>>
      BY <1>2 DEF shared
    <2>2. QED
      BY <1>1, <1>2, <2>1, PosKept, SameTracks DEF ReadInv
  <1>3. CASE /\ ~failed
             /\ IF IsRequest(log[cursor]) THEN AcceptRequest(cursor) ELSE AcceptOutput(cursor)
             /\ lastSeen' = cursor /\ cursor' = cursor + 1
             /\ reader' = "reading" /\ anchor' = anchor
    <2>1. \A d \in Keys : TracksInv(d)'
      BY <1>1, <1>3, RequestReads, OutputReads
    <2>2. PosInv'
      BY <1>1, <1>3, ReadFacts DEF ReadInv, PosInv
    <2>3. QED
      BY <2>1, <2>2 DEF ReadInv
  <1>4. CASE /\ Differs(cursor) /\ reader' = "failing" /\ cursor' = cursor
             /\ FailLocked([call EXCEPT ![log[cursor].key] = Invalidated(@)], active)
    <2> DEFINE c == log[cursor].key
               cs == [call EXCEPT ![c] = Invalidated(@)]
    <2>1. c \in byUuid /\ c \in Keys
      BY <1>1, <1>4 DEF Differs
    <2>2. cs[c] = Invalidated(call[c]) /\ \A d \in Keys \ {c} : cs[d] = call[d]
      <3> HIDE DEF c
      <3> QED BY <1>1, <2>1
    <2>3. \A d \in Keys : Treated(d, cs[d])
      <3> HIDE DEF cs, c
      <3> QED BY <1>1, <2>1, <2>2 DEF Treated
    <2>4. FailLocked(cs, active)
      BY <1>4
    <2> HIDE DEF cs, c
    <2>5. anchor' = anchor /\ lastSeen' = lastSeen
      BY <2>4 DEF FailLocked
    <2>6. QED
      BY <1>1, <1>4, <2>3, <2>4, <2>5, PosKept, FailTracks DEF ReadInv
  <1>5. QED
    BY <1>2, <1>3, <1>4 DEF Accept

\* _finish_failure touches no call.
LEMMA FinishReads == ASSUME SubInv, ReadInv, Finish PROVE ReadInv'
  <1>1. /\ UNCHANGED <<log, lastSeen, anchor, cursor, call, taken>>
        /\ reader' = reader \/ reader' = "final"
    BY DEF Finish, CancelStream, Join, Callback, server, shared, connection, history
  <1>2. QED
    BY <1>1, PosKept, SameTracks DEF ReadInv

\* A new message of the log is behind everything that has been read.
LEMMA WriteReads ==
    ASSUME SubInv, ReadInv, NEW m \in Messages, Write(m),
           IsRequest(m) => (m.streaming <=> m.key \in StreamingKeys)
    PROVE  ReadInv'
  <1>1. /\ log \in Seq(Messages) /\ Len(log) \in Nat /\ DOMAIN log = 1..Len(log)
        /\ log' = Append(log, m) /\ lastSeen \in Nat /\ lastSeen <= Len(log)
        /\ reader = "parsed" => cursor \in DOMAIN log
        /\ UNCHANGED <<anchor, lastSeen, cursor, reader, call, taken>>
    BY ReadFacts DEF SubInv, TypeOK, ReadInv, Write, shared, connection, history
  <1>2. /\ Len(log') = Len(log) + 1 /\ DOMAIN log' = 1..(Len(log) + 1)
        /\ \A i \in 1..Len(log) : log'[i] = log[i]
        /\ log'[Len(log) + 1] = m
    <2>1. log' \in Seq(Messages) /\ Len(log') = Len(log) + 1
      BY <1>1, AppendProperties
    <2>2. DOMAIN log' = 1..Len(log')
      BY <2>1, LenProperties
    <2>3. QED
      BY <1>1, <2>1, <2>2, AppendProperties
  <1>3. PosInv'
    <2>1. PosInv
      BY DEF ReadInv
    <2>2. ASSUME NEW i \in DOMAIN log', IsRequest(log'[i])
          PROVE  log'[i].streaming <=> log'[i].key \in StreamingKeys
      <3>1. CASE i \in DOMAIN log
        <4>1. log'[i] = log[i]
          BY <1>1, <1>2, <3>1
        <4>2. QED
          BY <2>1, <2>2, <3>1, <4>1 DEF PosInv
      <3>2. CASE i = Len(log) + 1
        BY <1>2, <2>2, <3>2
      <3>3. QED
        BY <1>1, <1>2, <3>1, <3>2
    <2>3. reader = "parsed" => log'[cursor] = log[cursor]
      BY <1>1, <1>2
    <2>4. anchor <= Len(log') /\ lastSeen <= Len(log')
      <3>1. anchor <= Len(log) /\ anchor \in Nat
        BY <2>1 DEF PosInv, SubInv, TypeOK
      <3>2. QED
        BY <1>1, <1>2, <3>1
    <2>5. QED
      BY <1>1, <2>1, <2>2, <2>3, <2>4 DEF PosInv
  <1>4. ASSUME NEW d \in Keys PROVE TracksInv(d)'
    <2>1. \A i \in 1..lastSeen : log'[i] = log[i]
      BY <1>1, <1>2
    <2>2. Tracks(log, lastSeen, d, call[d], Heard(d))
      BY DEF ReadInv, TracksInv
    <2>3. Tracks(log', lastSeen, d, call[d], Heard(d))
      BY <1>1, <2>1, <2>2, TracksPrefix
    <2>4. QED
      BY <1>1, <2>3 DEF TracksInv, Heard
  <1>5. QED
    BY <1>3, <1>4 DEF ReadInv

\* Commits, the outputs of any member and other messages.
LEMMA EnvironmentReads ==
    ASSUME SubInv, ReadInv,
           \/ \E p \in sent : Commit(p)
           \/ \E c \in Keys : WriteOutput(c)
           \/ \E n \in Noise : WriteNoise(n)
    PROVE  ReadInv'
  <1>1. /\ sent \subseteq Keys \X {"request", "cancel"} /\ call \in [Keys -> Call]
        /\ Len(log) \in Nat /\ \A c \in Keys : SeqOf(c) \in Nat
    BY LogFacts DEF SubInv, TypeOK
  <1>2. PICK m \in Messages :
            Write(m) /\ (IsRequest(m) => (m.streaming <=> m.key \in StreamingKeys))
    <2>1. ASSUME NEW p \in sent, Commit(p)
          PROVE  \E m \in Messages :
                    Write(m) /\ (IsRequest(m) => (m.streaming <=> m.key \in StreamingKeys))
      <3>1. p[1] \in Keys /\ call[p[1]].request_seq \in Nat /\ (p[1] \in StreamingKeys) \in BOOLEAN
        BY <1>1, SubscriptionAssumption DEF Call
      <3>2. /\ Request(p[1], p[1] \in StreamingKeys, "ok") \in Messages
            /\ Cancel(p[1], call[p[1]].request_seq) \in Messages
        BY <3>1, MessageTypes
      <3>3. /\ ~IsRequest(Cancel(p[1], call[p[1]].request_seq))
            /\ LET q == Request(p[1], p[1] \in StreamingKeys, "ok")
               IN  q.streaming = (p[1] \in StreamingKeys) /\ q.key = p[1]
        BY DEF Request, Cancel, IsRequest
      <3>4. QED
        BY <2>1, <3>2, <3>3 DEF Commit
    <2>2. ASSUME NEW c \in Keys, WriteOutput(c)
          PROVE  \E m \in Messages : Write(m) /\ ~IsRequest(m)
      <3>1. SeqOf(c) \in Nat /\ ChainTail(log, SeqOf(c), Len(log)) \in Nat
        BY <1>1, TailType
      <3>2. \A seq \in Nat, prev \in Nat, body \in BOOLEAN :
               /\ ~IsRequest(Result(c, seq, body, Http)) /\ ~IsRequest(AppendEvent(c, seq, prev))
               /\ ~IsRequest(End(c, seq, Http)) /\ ~IsRequest(Cancel(c, seq))
        BY DEF Result, AppendEvent, End, Cancel, IsRequest
      <3>3. QED
        BY <2>2, <3>1, <3>2, MessageTypes DEF WriteOutput
    <2>3. ASSUME NEW n \in Noise, WriteNoise(n)
          PROVE  \E m \in Messages : Write(m) /\ ~IsRequest(m)
      <3>1. System \in Messages /\ Invalid \in Messages /\ ~IsRequest(System) /\ ~IsRequest(Invalid)
        BY DEF Messages, System, Invalid, IsRequest
      <3>2. \A c \in Keys, seq \in Nat : ~IsRequest(Result(c, seq, TRUE, Http))
        BY DEF Result, IsRequest
      <3>3. QED
        BY <1>1, <2>3, <3>1, <3>2, MessageTypes DEF WriteNoise
    <2>4. QED
      BY <2>1, <2>2, <2>3
  <1>3. QED
    BY <1>2, WriteReads

\* Every step of the system.
LEMMA StepReads == SubInv /\ ReadInv /\ [Next]_vars => ReadInv'
  <1> SUFFICES ASSUME SubInv, ReadInv, [Next]_vars PROVE ReadInv'
    OBVIOUS
  <1>1. ASSUME ReaderStep PROVE ReadInv'
    BY <1>1, ConnectionReads, FaultReads, ReceiveReads, AcceptReads DEF ReaderStep
  <1>2. ASSUME UNCHANGED vars PROVE ReadInv'
    <2>1. UNCHANGED <<log, lastSeen, anchor, cursor, reader, call, taken>>
      BY <1>2 DEF vars, server, shared, connection, history
    <2>2. QED
      BY <2>1, PosKept, SameTracks DEF ReadInv
  <1>3. QED
    BY <1>1, <1>2, AppReads, CloserReads, FinishReads, EnvironmentReads DEF Next

\* Nothing has been read.
LEMMA InitReads == Init => ReadInv
  <1> SUFFICES ASSUME Init PROVE ReadInv
    OBVIOUS
  <1>1. PosInv
    BY DEF Init, PosInv
  <1>2. ASSUME NEW c \in Keys PROVE TracksInv(c)
    BY DEF Init, TracksInv, Tracks, NewCall
  <1>3. QED
    BY <1>1, <1>2 DEF ReadInv

-----------------------------------------------------------------------------
(* What follows. *)

\* An application gets the messages of its call, in the order of the log.
LEMMA ReadsImplied == ASSUME SubInv, ReadInv PROVE ReadsLog
  <1> SUFFICES ASSUME NEW c \in Keys, Following(c)
               PROVE  LET due == Reading(log, call[c].receive, lastSeen)
                      IN  /\ \A i \in DOMAIN Heard(c) :
                                /\ Heard(c)[i].seq \in due
                                /\ Cardinality({j \in due : j <= Heard(c)[i].seq}) = i
                                /\ Heard(c)[i].fault = Breaks(log, call[c].receive, Heard(c)[i].seq)
                          /\ ~call[c].local_closed => Len(Heard(c)) = Cardinality(due)
    BY DEF ReadsLog
  <1>1. /\ Right(log, call[c].receive, lastSeen, Heard(c))
        /\ ~call[c].local_closed => Whole(log, call[c].receive, lastSeen, Heard(c), call[c])
    BY DEF Following, ReadInv, TracksInv, Tracks
  <1>2. QED
    BY <1>1 DEF Right, Whole

\* What ends a call in the application ends it in the reference reading.
LEMMA OutcomeImplied == ASSUME SubInv, ReadInv PROVE OneOutcome
  <1> SUFFICES ASSUME NEW c \in Keys, NEW i \in DOMAIN Heard(c), Ending(c, Heard(c)[i])
               PROVE  IF Heard(c)[i].fault THEN Broken(log, call[c].receive, Len(log))
                      ELSE /\ Heard(c)[i].seq = Winner(log, call[c].receive, Len(log))
                           /\ c \in StreamingKeys => ~Broken(log, call[c].receive, Len(log))
    BY DEF OneOutcome
  <1> DEFINE s == call[c].receive
             e == Heard(c)[i]
             n == Len(log)
             j == e.seq
  <1>1. s # 0
    <2>1. DOMAIN <<>> = {}
      OBVIOUS
    <2>2. QED
      BY <2>1, HeardFacts
  <1>2. /\ s \in 1..lastSeen /\ lastSeen \in Nat /\ lastSeen \in 0..n /\ n \in Nat /\ s \in Nat
        /\ log[s].streaming <=> c \in StreamingKeys
        /\ Right(log, s, lastSeen, Heard(c))
    BY <1>1, TrackedStreams, ReadFacts DEF Tracks, ReadInv
  <1>3. j \in Reading(log, s, lastSeen) /\ e.fault = Breaks(log, s, j)
    BY <1>2 DEF Right
  <1> HIDE DEF s, n, e, j
  <1>4. j \in Reading(log, s, n) /\ j \in Candidates(log, s, n) /\ j \in 1..n
    <2>1. j \in Reading(log, s, n)
      BY <1>2, <1>3, ReadingGrows
    <2>2. j \in Candidates(log, s, n)
      BY <2>1 DEF Reading
    <2>3. Candidates(log, s, n) \subseteq 1..n
      BY <1>2, CandidatesAt
    <2>4. QED
      BY <2>1, <2>2, <2>3
  <1>5. EndsCall(log, s, j)
    <2>1. CASE e.fault
      BY <1>3, <2>1 DEF EndsCall
    <2>2. CASE log[j].kind \in {"end", "cancel"} \/ (log[j].kind = "result" /\ log[j].body)
      BY <2>2 DEF EndsCall
    <2>3. CASE c \notin StreamingKeys
      <3>1. j = FirstResult(log, s, n)
        BY <1>2, <1>4, <2>3, CandidatesAt
      <3>2. log[j].kind = "result"
        <4>1. j # 0
          BY <1>4
        <4>2. FirstResult(log, s, n) # 0 => Hit(log, s, FirstResult(log, s, n), "result")
          BY <1>2, FirstAt
        <4>3. QED
          BY <3>1, <4>1, <4>2 DEF Hit
      <3>3. QED
        BY <1>2, <2>3, <3>2 DEF EndsCall, Breaks
    <2>4. QED
      BY <2>1, <2>2, <2>3 DEF Ending, e, j
  <1>6. IF Breaks(log, s, j) THEN Broken(log, s, n)
        ELSE Winner(log, s, n) = j /\ (log[s].streaming => ~Broken(log, s, n))
    BY <1>2, <1>4, <1>5, OutcomeRead
  <1>7. QED
    BY <1>2, <1>3, <1>6 DEF s, n, e, j

\* The position of the reader, and what every call has heard, agree with the log.
THEOREM ReadInvariance == Spec => []ReadInv
  BY InitReads, StepReads, SubInvariance, PTL DEF Spec

\* Whatever is lost or repeated, an application gets exactly the messages of its call.
THEOREM AlwaysReadsLog == Spec => []ReadsLog
  BY ReadsImplied, SubInvariance, ReadInvariance, PTL

\* The consumer and the Worker agree on what decided a call.
THEOREM AlwaysOneOutcome == Spec => []OneOutcome
  BY OutcomeImplied, SubInvariance, ReadInvariance, PTL
=============================================================================
