---------------------------- MODULE OutcomesProofs ----------------------------
(***************************************************************************)
(* An application is told the truth about its call, for any set of the     *)
(* statuses that a Provider may answer with.                               *)
(***************************************************************************)
EXTENDS Outcomes, TLAPS, SequenceTheorems

Kinds == {"headers", "append", "result", "completed", "failed"}
Final == {"result", "completed", "failed"}

Events == [kind : Kinds, status : Statuses, body : BOOLEAN]

\* The messages that llm.v1 admits, as far as an outcome depends on them.
Messages ==
    [kind : {"result", "append", "end", "cancel"}, status : Int, body : BOOLEAN,
     ends : {"none", "completed", "failed", "interrupted"}]

Causes == {"none", "success", "http", "failed", "timeout", "connection", "proxy",
           "unknown", "cancelled"}

\* What the SDK makes of a message that decides the call.
Outcome(m) ==
    IF m.kind = "cancel" THEN "StreamCancelledError" ELSE MakeApiError(m.status, m.ends)

TypeInv ==
    /\ call.streaming \in BOOLEAN /\ call.fails \in Early \cup {Never}
    /\ todo \in Seq(Events)
    /\ log \in Seq([message : Messages, why : Causes])
    /\ read \in 0..Len(log)

\* What is still to come of a call: only the last event may end it, and one does if
\* the call does not fail; a stream has no result, and an ordinary call only that.
Coming(e) ==
    /\ e.kind \in {"headers", "append"} => call.streaming /\ (e.kind = "headers" => ~e.body)
    /\ e.kind = "result" => ~call.streaming /\ e.body
    /\ e.kind \in {"completed", "failed"} => call.streaming
    /\ e.kind = "failed" => e.body

TodoInv ==
    /\ \A i \in DOMAIN todo : Coming(todo[i])
    /\ \A i \in DOMAIN todo : todo[i].kind \in Final => i = Len(todo) /\ call.fails = Never
    /\ call.fails = Never /\ todo # <<>> => todo[Len(todo)].kind \in Final

\* A message that decides the call tells its cause, and a success is the last event
\* of an answer that does not fail.
Honest(l) ==
    Decides(l.message) =>
        /\ Outcome(l.message) \in Truth[l.why]
        /\ Outcome(l.message) = "success" => call.fails = Never /\ todo = <<>>

LogInv == \A i \in DOMAIN log : Honest(log[i])

DoneInv ==
    /\ work \in {"new", "provider", "done"}
    /\ work = "done" => Decided
    /\ call.fails = Never /\ todo = <<>> => Decided

\* What was told is the outcome of the message read last.
ToldInv ==
    told # "nothing" => /\ read \in DOMAIN log
                        /\ Decides(log[read].message)
                        /\ told = Outcome(log[read].message)

OInv == TypeInv /\ TodoInv /\ LogInv /\ DoneInv /\ ToldInv

-----------------------------------------------------------------------------
(* The calls. *)

\* A call as TodoInv has it, before its first event.
LEMMA CallShape ==
    ASSUME NEW c \in Calls
    PROVE  /\ c.streaming \in BOOLEAN /\ c.fails \in Early \cup {Never}
           /\ c.events \in Seq(Events)
           /\ \A i \in DOMAIN c.events :
                 LET e == c.events[i] IN
                 /\ e.kind \in {"headers", "append"} =>
                       c.streaming /\ (e.kind = "headers" => ~e.body)
                 /\ e.kind = "result" => ~c.streaming /\ e.body
                 /\ e.kind \in {"completed", "failed"} => c.streaming
                 /\ e.kind = "failed" => e.body
                 /\ e.kind \in Final => i = Len(c.events) /\ c.fails = Never
           /\ c.fails = Never => c.events # <<>> /\ c.events[Len(c.events)].kind \in Final
  <1>1. CASE \E str \in BOOLEAN, code \in Early :
                c = [streaming |-> str, events |-> <<>>, fails |-> code]
    BY <1>1 DEF Early, Late, Never, Other
  <1>2. CASE \E s \in Statuses :
                c = [streaming |-> FALSE, events |-> <<Event("result", s, TRUE)>>, fails |-> Never]
    BY <1>2 DEF Event, Events, Kinds, Final
  <1>3. ASSUME NEW s \in Statuses, NEW a \in Answers(s),
               c = [streaming |-> TRUE, events |-> a[1], fails |-> a[2]]
        PROVE  /\ c.events \in Seq(Events) /\ c.fails \in Early \cup {Never}
               /\ \A i \in DOMAIN c.events :
                     /\ c.events[i].kind \in Kinds \ {"result"}
                     /\ c.events[i].kind = "headers" => ~c.events[i].body
                     /\ c.events[i].kind = "failed" => c.events[i].body
                     /\ c.events[i].kind \in Final => i = Len(c.events) /\ c.fails = Never
               /\ c.fails = Never => c.events # <<>> /\ c.events[Len(c.events)].kind \in Final
    <2> DEFINE begun == {<<Event("headers", s, FALSE)>>,
                         <<Event("headers", s, FALSE), Event("append", s, TRUE)>>}
               ends == {Event("completed", s, TRUE), Event("completed", s, FALSE),
                        Event("failed", s, TRUE)}
    <2>1. ASSUME NEW b \in begun
          PROVE  /\ b \in Seq(Events)
                 /\ \A i \in DOMAIN b : /\ b[i].kind \in {"headers", "append"}
                                        /\ b[i].kind = "headers" => ~b[i].body
      <3> DEFINE h == Event("headers", s, FALSE)
                 p == Event("append", s, TRUE)
      <3>1. /\ h \in Events /\ h.kind = "headers" /\ ~h.body
            /\ p \in Events /\ p.kind = "append"
        BY DEF Event, Events, Kinds
      <3>5. b \in {<<h>>, <<h, p>>}
        OBVIOUS
      <3> HIDE DEF h, p, begun, ends
      <3>2. CASE b = <<h>>
        BY <3>1, <3>2
      <3>3. CASE b = <<h, p>>
        BY <3>1, <3>3
      <3>4. QED
        BY <3>2, <3>3, <3>5
    <2>2. CASE a \in begun \X Late
      <3>1. c.events \in begun /\ c.fails \in Late
        BY <1>3, <2>2
      <3>2. c.fails \in Early /\ c.fails # Never
        BY <3>1 DEF Early, Late, Never, Other
      <3>3. QED
        BY <2>1, <3>1, <3>2 DEF Final, Kinds
    <2>3. ASSUME NEW b \in begun, NEW e \in ends, a = <<Append(b, e), Never>>
          PROVE  /\ c.events \in Seq(Events) /\ c.fails = Never
                 /\ \A i \in DOMAIN c.events :
                       /\ c.events[i].kind \in Kinds \ {"result"}
                       /\ c.events[i].kind = "headers" => ~c.events[i].body
                       /\ c.events[i].kind = "failed" => c.events[i].body
                       /\ c.events[i].kind \in Final => i = Len(c.events)
                 /\ c.events # <<>> /\ c.events[Len(c.events)].kind \in Final
      <3>1. e \in Events /\ e.kind \in {"completed", "failed"} /\ (e.kind = "failed" => e.body)
        <4>1. \E k \in {"completed", "failed"}, y \in BOOLEAN :
                 e = [kind |-> k, status |-> s, body |-> y] /\ (k = "failed" => y)
          BY DEF Event
        <4> HIDE DEF begun, ends
        <4>2. QED
          BY <4>1 DEF Events, Kinds
      <3>2. c.events = Append(b, e) /\ c.fails = Never
        BY <1>3, <2>3
      <3>3. /\ Append(b, e) \in Seq(Events) /\ Len(Append(b, e)) = Len(b) + 1
            /\ DOMAIN Append(b, e) = 1..(Len(b) + 1) /\ DOMAIN b = 1..Len(b) /\ Len(b) \in Nat
            /\ \A i \in 1..Len(b) : Append(b, e)[i] = b[i]
            /\ Append(b, e)[Len(b) + 1] = e
        <4> HIDE DEF begun, ends
        <4>1. b \in Seq(Events)
          BY <2>1
        <4>2. QED
          BY <3>1, <4>1, AppendProperties, LenProperties
      <3>4. Append(b, e) # <<>>
        BY <3>3
      <3>5. ASSUME NEW i \in DOMAIN c.events
            PROVE  \/ i \in DOMAIN b /\ c.events[i] = b[i]
                   \/ i = Len(c.events) /\ c.events[i] = e
        BY <3>2, <3>3
      <3>6. ASSUME NEW i \in DOMAIN c.events
            PROVE  /\ c.events[i].kind \in Kinds \ {"result"}
                   /\ c.events[i].kind = "headers" => ~c.events[i].body
                   /\ c.events[i].kind = "failed" => c.events[i].body
                   /\ c.events[i].kind \in Final => i = Len(c.events)
        BY <2>1, <3>1, <3>5 DEF Final, Kinds
      <3>7. Len(c.events) = Len(b) + 1 /\ c.events[Len(c.events)] = e
        BY <3>2, <3>3
      <3> HIDE DEF begun, ends
      <3>8. QED
        BY <3>1, <3>2, <3>3, <3>4, <3>6, <3>7 DEF Final
    <2>4. \/ a \in begun \X Late
          \/ \E b \in begun, e \in ends : a = <<Append(b, e), Never>>
      <3>1. Answers(s) = (begun \X Late) \cup {<<Append(b, e), Never>> : b \in begun, e \in ends}
        BY DEF Answers
      <3> HIDE DEF begun, ends
      <3>2. QED
        BY <3>1
    <2>5. QED
      BY <2>2, <2>3, <2>4
  <1>4. \/ \E str \in BOOLEAN, code \in Early :
              c = [streaming |-> str, events |-> <<>>, fails |-> code]
        \/ \E s \in Statuses :
              c = [streaming |-> FALSE, events |-> <<Event("result", s, TRUE)>>, fails |-> Never]
        \/ \E s \in Statuses : \E a \in Answers(s) :
              c = [streaming |-> TRUE, events |-> a[1], fails |-> a[2]]
    <2> DEFINE Call(str, a) == [streaming |-> str, events |-> a[1], fails |-> a[2]]
           plain == {Call(str, <<<<>>, code>>) : str \in BOOLEAN, code \in Early}
           ordinary == {Call(FALSE, <<<<Event("result", s, TRUE)>>, Never>>) : s \in Statuses}
           streams == UNION {{Call(TRUE, a) : a \in Answers(s)} : s \in Statuses}
    <2>1. Calls = plain \cup ordinary \cup streams
      BY DEF Calls
    <2>2. CASE c \in plain
      <3>1. PICK str \in BOOLEAN, code \in Early : c = Call(str, <<<<>>, code>>)
        <4>1. plain = {Call(str, <<<<>>, code>>) : str \in BOOLEAN, code \in Early}
          OBVIOUS
        <4> HIDE DEF plain, ordinary, streams, Call
        <4>2. QED
          BY <2>2, <4>1
      <3>2. c = [streaming |-> str, events |-> <<>>, fails |-> code]
        BY <3>1
      <3>3. QED
        BY <3>2
    <2>3. CASE c \in ordinary
      BY <2>3
    <2>4. CASE c \in streams
      <3>1. PICK s \in Statuses : c \in {Call(TRUE, a) : a \in Answers(s)}
        BY <2>4, Zenon
      <3>2. QED
        BY <3>1
    <2> HIDE DEF plain, ordinary, streams
    <2>5. QED
      BY <2>1, <2>2, <2>3, <2>4
  <1>5. CASE \E s \in Statuses : \E a \in Answers(s) :
                c = [streaming |-> TRUE, events |-> a[1], fails |-> a[2]]
    <2>1. c.streaming
      BY <1>5
    <2>2. QED
      BY <1>3, <1>5, <2>1 DEF Final, Kinds
  <1>6. QED
    BY <1>1, <1>2, <1>4, <1>5

LEMMA OInitInv == OInit => OInv
  <1> SUFFICES ASSUME OInit PROVE OInv
    OBVIOUS
  <1>1. call \in Calls /\ todo = call.events /\ work = "new" /\ log = <<>> /\ read = 0 /\ told = "nothing"
    BY DEF OInit
  <1>2. TypeInv
    BY <1>1, CallShape DEF TypeInv
  <1>3. TodoInv
    BY <1>1, CallShape DEF TodoInv, Coming
  <1>4. LogInv /\ ToldInv
    BY <1>1 DEF LogInv, ToldInv
  <1>5. DoneInv
    BY <1>1, CallShape DEF DoneInv
  <1>6. QED
    BY <1>2, <1>3, <1>4, <1>5 DEF OInv

-----------------------------------------------------------------------------
(* One message more. *)

\* What a message in the log is does not change, and a decided call stays decided.
LEMMA Written ==
    ASSUME OInv, NEW m \in Messages, NEW why \in Causes, Write(m, why),
           Decides(m) => /\ Outcome(m) \in Truth[why]
                         /\ Outcome(m) = "success" => call.fails = Never /\ todo' = <<>>,
           todo = <<>> => todo' = <<>>
    PROVE  /\ log' \in Seq([message : Messages, why : Causes]) /\ read' \in 0..Len(log')
           /\ LogInv' /\ ToldInv'
           /\ Decided \/ Decides(m) => Decided'
  <1> DEFINE entry == [message |-> m, why |-> why]
  <1>1. /\ log' = Append(log, entry) /\ UNCHANGED <<call, read, told>>
    BY DEF Write
  <1>2. log \in Seq([message : Messages, why : Causes]) /\ entry \in [message : Messages, why : Causes]
        /\ read \in 0..Len(log)
    BY DEF OInv, TypeInv
  <1>3. /\ log' \in Seq([message : Messages, why : Causes])
        /\ Len(log') = Len(log) + 1 /\ Len(log) \in Nat
        /\ DOMAIN log' = 1..(Len(log) + 1) /\ DOMAIN log = 1..Len(log)
        /\ \A i \in 1..Len(log) : log'[i] = log[i]
        /\ log'[Len(log) + 1] = entry
    BY <1>1, <1>2, AppendProperties, LenProperties
  <1>4. /\ read' \in 0..Len(log')
        /\ \A i \in DOMAIN log : log'[i] = log[i] /\ log[i].message \in Messages
    <2>1. \A i \in DOMAIN log : log[i] \in [message : Messages, why : Causes]
      BY <1>2, <1>3, ElementOfSeq
    <2>2. QED
      BY <1>1, <1>2, <1>3, <2>1
  <1>5. \A x \in Messages : (Decides(x) <=> Decides(x)') /\ Outcome(x)' = Outcome(x)
    <2>1. \A x \in Messages : Decides(x) <=> Decides(x)'
      BY <1>1 DEF Decides
    <2>2. \A x \in Messages : Outcome(x)' = Outcome(x)
      BY DEF Outcome
    <2>3. QED
      BY <2>1, <2>2
  <1>6. LogInv'
    <2> SUFFICES ASSUME NEW i \in DOMAIN log' PROVE Honest(log[i])'
      BY DEF LogInv
    <2>1. CASE i \in DOMAIN log
      <3>1. Honest(log[i]) /\ log'[i] = log[i] /\ log[i].message \in Messages
        BY <1>3, <1>4, <2>1 DEF OInv, LogInv
      <3>2. QED
        BY <1>1, <1>5, <3>1 DEF Honest
    <2>2. CASE i = Len(log) + 1
      <3>1. log'[i] = entry /\ entry.message = m /\ entry.why = why
        BY <1>3, <2>2
      <3>2. QED
        BY <1>1, <1>5, <3>1 DEF Honest
    <2>3. QED
      BY <1>3, <2>1, <2>2
  <1>7. ToldInv'
    <2> SUFFICES ASSUME told # "nothing"
                 PROVE  /\ read \in DOMAIN log'
                        /\ Decides(log[read].message)'
                        /\ told = Outcome(log'[read].message)
      BY <1>1 DEF ToldInv, Outcome
    <2>1. read \in DOMAIN log /\ Decides(log[read].message) /\ told = Outcome(log[read].message)
      BY DEF OInv, ToldInv
    <2>2. read \in DOMAIN log' /\ log'[read] = log[read] /\ log[read].message \in Messages
      BY <1>3, <1>4, <2>1
    <2>3. Decides(log[read].message)'
      BY <1>1, <2>1, <2>2 DEF Decides
    <2>4. QED
      BY <2>1, <2>2, <2>3
  <1>8. ASSUME Decided \/ Decides(m) PROVE Decided'
    <2>1. CASE Decided
      <3>1. PICK i \in DOMAIN log : Decides(log[i].message)
        BY <2>1 DEF Decided
      <3>2. i \in DOMAIN log' /\ Decides(log[i].message)'
        BY <1>1, <1>3, <1>4, <3>1 DEF Decides
      <3>3. QED
        BY <3>2 DEF Decided, Decides
    <2>2. CASE Decides(m)
      <3>1. Len(log) + 1 \in DOMAIN log' /\ log'[Len(log) + 1].message = m
        BY <1>3
      <3>2. QED
        BY <1>1, <2>2, <3>1 DEF Decided, Decides
    <2>3. QED
      BY <1>8, <2>1, <2>2
  <1>9. QED
    BY <1>3, <1>4, <1>6, <1>7, <1>8

-----------------------------------------------------------------------------
(* The steps. *)

\* The Provider's events are left alone, or the first of them is taken.
LEMMA TodoKeeps ==
    ASSUME OInv, call' = call, todo' = todo \/ (todo # <<>> /\ todo' = Tail(todo))
    PROVE  todo' \in Seq(Events) /\ TodoInv' /\ (todo = <<>> => todo' = <<>>)
  <1>1. todo \in Seq(Events) /\ TodoInv
    BY DEF OInv, TypeInv
  <1>2. CASE todo' = todo
    BY <1>1, <1>2 DEF TodoInv, Coming
  <1>3. CASE todo # <<>> /\ todo' = Tail(todo)
    <2>1. /\ todo' \in Seq(Events) /\ Len(todo') = Len(todo) - 1 /\ Len(todo) \in Nat
          /\ DOMAIN todo' = 1..(Len(todo) - 1) /\ DOMAIN todo = 1..Len(todo)
          /\ \A i \in 1..(Len(todo) - 1) : todo'[i] = todo[i + 1]
      BY <1>1, <1>3, HeadTailProperties, LenProperties
    <2>2. \A i \in DOMAIN todo' :
             /\ Coming(todo[i])'
             /\ todo'[i].kind \in Final => i = Len(todo') /\ call.fails = Never
      <3> SUFFICES ASSUME NEW i \in DOMAIN todo'
                   PROVE  /\ Coming(todo[i])'
                          /\ todo'[i].kind \in Final => i = Len(todo') /\ call.fails = Never
        OBVIOUS
      <3>1. i + 1 \in DOMAIN todo /\ todo'[i] = todo[i + 1]
        BY <2>1
      <3>2. Coming(todo[i + 1]) /\ (todo[i + 1].kind \in Final => i + 1 = Len(todo) /\ call.fails = Never)
        BY <1>1, <3>1 DEF TodoInv
      <3>3. QED
        BY <2>1, <3>1, <3>2 DEF Coming
    <2>3. call.fails = Never /\ todo' # <<>> => todo'[Len(todo')].kind \in Final
      <3>1. todo' # <<>> => Len(todo') \in 1..(Len(todo) - 1) /\ Len(todo') + 1 = Len(todo)
        BY <2>1, EmptySeq
      <3>2. QED
        BY <1>1, <1>3, <2>1, <3>1 DEF TodoInv
    <2>4. TodoInv'
      BY <2>2, <2>3 DEF TodoInv, Coming
    <2>5. QED
      BY <1>3, <2>1, <2>4
  <1>4. QED
    BY <1>2, <1>3

\* The Worker's own errors decide the call, and are what the SDK takes them for.
ErrorCodes == {60000, 60001, 60002, 60003, 60005, 60007, 60008, 60009}

LEMMA Closes ==
    ASSUME OInv, NEW code \in ErrorCodes, NEW plain \in BOOLEAN, NEW why \in Causes,
           StatusError(code) \in Truth[why], StatusError(code) # "success",
           Write(ErrorOutput(code, plain), why), work' = "done", UNCHANGED todo
    PROVE  OInv'
  <1> DEFINE m == ErrorOutput(code, plain)
  <1>1. call' = call /\ call.streaming \in BOOLEAN /\ call.fails \in Early \cup {Never}
    BY DEF Write, OInv, TypeInv
  <1>2. m \in Messages /\ Decides(m) /\ Outcome(m) = StatusError(code)
    BY <1>1 DEF ErrorOutput, Messages, Decides, Outcome, MakeApiError, ErrorCodes
  <1> HIDE DEF m
  <1>3. Write(m, why)
    BY DEF m
  <1>4. /\ log' \in Seq([message : Messages, why : Causes]) /\ read' \in 0..Len(log')
        /\ LogInv' /\ ToldInv' /\ Decided'
    BY <1>2, <1>3, Written
  <1>5. todo' \in Seq(Events) /\ TodoInv'
    BY <1>1, TodoKeeps
  <1>6. TypeInv' /\ DoneInv'
    BY <1>1, <1>4, <1>5 DEF TypeInv, DoneInv
  <1>7. QED
    BY <1>4, <1>5, <1>6 DEF OInv

\* Each of the Worker's error codes has a cause, which the SDK's exception says.
LEMMA CauseKnown ==
    ASSUME NEW code \in ErrorCodes
    PROVE  /\ Cause(code) \in Causes
           /\ StatusError(code) \in Truth[Cause(code)] /\ StatusError(code) # "success"
  <1>1. CASE code = 60000
    BY <1>1 DEF Cause, Causes, StatusError, Truth
  <1>2. CASE code \in {60001, 60002, 60003}
    BY <1>2 DEF Cause, Causes, StatusError, Truth
  <1>3. CASE code \in {60005, 60007, 60008}
    BY <1>3 DEF Cause, Causes, StatusError, Truth
  <1>4. CASE code = 60009
    BY <1>4 DEF Cause, Causes, StatusError, Truth
  <1>5. QED
    BY <1>1, <1>2, <1>3, <1>4 DEF ErrorCodes

\* The codes of a ProviderError and the Worker's for an event.
LEMMA FailsKeeps ==
    ASSUME OInv, NEW code \in (Early \ {Other}), Fails(code)
    PROVE  OInv'
  <1>1. code \in ErrorCodes
    BY DEF Early, Late, Other, ErrorCodes
  <1>2. QED
    BY <1>1, CauseKnown, Closes DEF Fails

LEMMA BeginKeeps == OInv /\ Begin => OInv'
  <1> SUFFICES ASSUME OInv, Begin PROVE OInv'
    OBVIOUS
  <1>1. CASE work' = "provider" /\ UNCHANGED <<call, todo, log, read, told>>
    BY <1>1 DEF OInv, TypeInv, TodoInv, Coming, LogInv, Honest, Decides, DoneInv, Decided, ToldInv
  <1>2. ASSUME NEW code \in Rejections,
               Write(ErrorOutput(code, TRUE), Cause(code)), work' = "done", UNCHANGED todo
        PROVE  OInv'
    <2>1. code \in ErrorCodes
      BY DEF Rejections, ErrorCodes
    <2>2. QED
      BY <1>2, <2>1, CauseKnown, Closes
  <1>3. QED
    BY <1>1, <1>2 DEF Begin

LEMMA RestartKeeps == OInv /\ Restart => OInv'
  <1> SUFFICES ASSUME OInv, Restart PROVE OInv'
    OBVIOUS
  <1>1. PICK duplicate \in BOOLEAN : Write(ErrorOutput(60007, duplicate), "proxy")
    BY DEF Restart
  <1>2. work' = "done" /\ UNCHANGED todo
    BY DEF Restart
  <1>3. /\ "proxy" \in Causes /\ 60007 \in ErrorCodes
        /\ StatusError(60007) \in Truth["proxy"] /\ StatusError(60007) # "success"
    BY DEF Causes, ErrorCodes, StatusError, Truth
  <1>4. QED
    BY <1>1, <1>2, <1>3, Closes

\* An answer of the Provider that llm.v1 admits: the status says if it was a success.
LEMMA AnswerTold ==
    ASSUME NEW status \in Int, status \in HttpStatus, NEW ends, ends # "failed",
           NEW why, why = IF status \in 200..299 THEN "success" ELSE "http"
    PROVE  MakeApiError(status, ends) \in Truth[why] /\ why \in Causes
  <1>1. MakeApiError(status, ends) = StatusError(status)
    BY DEF MakeApiError
  <1>2. CASE status \in 200..299
    BY <1>1, <1>2 DEF StatusError, Truth, Causes
  <1>3. CASE status \notin 200..299
    <2>1. status \notin {60000, 60001, 60002, 60003, 60004, 60005, 60007, 60008, 60009}
      BY DEF HttpStatus
    <2>2. StatusError(status) \in StatusErrors
      BY <1>3, <2>1 DEF StatusError, StatusErrors
    <2>3. QED
      BY <1>1, <1>3, <2>2 DEF Truth, Causes
  <1>4. QED
    BY <1>2, <1>3

\* A status of the Provider is none of the codes.
LEMMA StatusKnown == \A status \in Statuses : status \in Int /\ status \notin ResultCodes
  <1> SUFFICES ASSUME NEW status \in Statuses PROVE status \in Int /\ status \notin ResultCodes
    OBVIOUS
  <1>1. status \in {101} \cup 200..999
    BY StatusesAssumption
  <1>2. QED
    BY <1>1 DEF ResultCodes

\* A message for an event, if llm.v1 admits it, tells what the event means.
LEMMA EmitKeeps == OInv /\ Emit => OInv'
  <1> SUFFICES ASSUME OInv, Emit PROVE OInv'
    OBVIOUS
  <1> DEFINE e == Head(todo)
             m == Output(e)
  <1>1. /\ todo # <<>> /\ todo \in Seq(Events) /\ call.streaming \in BOOLEAN
        /\ call.fails \in Early \cup {Never} /\ work = "provider"
    BY DEF Emit, OInv, TypeInv
  <1>2. /\ e \in Events /\ e = todo[1] /\ 1 \in DOMAIN todo /\ Len(todo) \in Nat
        /\ Tail(todo) \in Seq(Events) /\ Len(Tail(todo)) = Len(todo) - 1
    BY <1>1, HeadTailProperties, EmptySeq, LenProperties
  <1>3. Coming(e) /\ (e.kind \in Final => Len(todo) = 1 /\ call.fails = Never)
    BY <1>2 DEF OInv, TodoInv
  <1> HIDE DEF e
  <1>4. /\ e.kind \in Kinds /\ e.body \in BOOLEAN
        /\ e.status \in Int /\ e.status \notin ResultCodes
    <2>1. e.kind \in Kinds /\ e.status \in Statuses /\ e.body \in BOOLEAN
      BY <1>2 DEF Events
    <2>2. QED
      BY <2>1, StatusKnown
  <1>5. /\ m \in Messages /\ m.status = e.status /\ m.body = e.body
        /\ e.kind \in {"headers", "result"} => m.kind = "result" /\ m.ends = "none"
        /\ e.kind = "append" => m.kind = "append"
        /\ e.kind \in {"completed", "failed"} => m.kind = "end" /\ m.ends = e.kind
    BY <1>4 DEF Output, Kinds, Messages
  <1>6. Meaning(e) \in Causes
    BY <1>4 DEF Meaning, Kinds, Causes
  <1>7. CASE Write(m, Meaning(e)) /\ todo' = Tail(todo) /\ UNCHANGED work
    <2>1. Admitted(m) /\ call' = call
      BY <1>7 DEF Write
    <2> HIDE DEF m
    <2>2. Decides(m) <=> e.kind \in Final
      BY <1>1, <1>3, <1>4, <1>5 DEF Decides, Coming, Kinds, Final
    <2>3. e.kind \in Final => todo' = <<>> /\ call.fails = Never
      BY <1>1, <1>2, <1>3, <1>7, EmptySeq
    <2>4. e.kind \in Final => Outcome(m) \in Truth[Meaning(e)]
      <3>1. CASE e.kind = "result"
        <4>1. e.status \in HttpStatus
          <5>1. m.kind = "result" /\ m.status = e.status
            BY <1>5, <3>1
          <5>2. e.status \in HttpStatus \/ e.status \in ResultCodes
            BY <2>1, <5>1 DEF Admitted
          <5>3. QED
            BY <1>4, <5>2
        <4>2. Meaning(e) = IF e.status \in 200..299 THEN "success" ELSE "http"
          BY <3>1 DEF Meaning
        <4>3. Outcome(m) = MakeApiError(e.status, "none")
          BY <1>5, <3>1 DEF Outcome
        <4>4. QED
          BY <1>4, <4>1, <4>2, <4>3, AnswerTold
      <3>2. CASE e.kind = "completed"
        <4>1. e.status \in HttpStatus
          BY <1>5, <2>1, <3>2 DEF Admitted
        <4>2. Meaning(e) = IF e.status \in 200..299 THEN "success" ELSE "http"
          BY <3>2 DEF Meaning
        <4>3. Outcome(m) = MakeApiError(e.status, "completed")
          BY <1>5, <3>2 DEF Outcome
        <4>4. QED
          BY <1>4, <4>1, <4>2, <4>3, AnswerTold
      <3>3. CASE e.kind = "failed"
        <4>1. Meaning(e) = "failed"
          BY <3>3 DEF Meaning
        <4>2. Outcome(m) = "APIError"
          BY <1>5, <3>3 DEF Outcome, MakeApiError
        <4>3. QED
          BY <4>1, <4>2 DEF Truth
      <3>4. QED
        BY <3>1, <3>2, <3>3 DEF Final
    <2>5. todo' \in Seq(Events) /\ TodoInv' /\ (todo = <<>> => todo' = <<>>)
      BY <1>1, <1>7, <2>1, TodoKeeps
    <2>6. /\ log' \in Seq([message : Messages, why : Causes]) /\ read' \in 0..Len(log')
          /\ LogInv' /\ ToldInv' /\ (Decided \/ Decides(m) => Decided')
      <3>1. m \in Messages /\ Write(m, Meaning(e))
        BY <1>5, <1>7 DEF m
      <3>2. QED
        BY <1>6, <2>2, <2>3, <2>4, <2>5, <3>1, Written
    <2>7. DoneInv'
      <3>1. work' = "provider"
        BY <1>1, <1>7
      <3>2. ASSUME call.fails = Never, todo' = <<>> PROVE Decided'
        <4>1. Len(todo) = 1
          <5>1. Tail(todo) = <<>>
            BY <1>7, <3>2
          <5>2. QED
            BY <1>2, <5>1, EmptySeq
        <4>2. e.kind \in Final
          BY <1>1, <1>2, <3>2, <4>1 DEF OInv, TodoInv
        <4>3. QED
          BY <2>2, <2>6, <4>2
      <3>3. QED
        BY <2>1, <3>1, <3>2 DEF DoneInv
    <2>8. TypeInv'
      BY <1>1, <2>1, <2>5, <2>6 DEF TypeInv
    <2>9. QED
      BY <2>5, <2>6, <2>7, <2>8 DEF OInv
  <1>8. CASE Fails(60007) \/ Fails(60008)
    BY <1>8, FailsKeeps DEF Early, Late, Other
  <1>9. QED
    BY <1>7, <1>8 DEF Emit, e

LEMMA FinishKeeps == OInv /\ Finish => OInv'
  <1> SUFFICES ASSUME OInv, Finish PROVE OInv'
    OBVIOUS
  <1>1. CASE /\ call.fails = Never /\ todo = <<>> /\ work' = "done"
             /\ UNCHANGED <<call, todo, log, read, told>>
    <2>1. Decided
      BY <1>1 DEF OInv, DoneInv
    <2>2. QED
      BY <1>1, <2>1 DEF OInv, TypeInv, TodoInv, Coming, LogInv, Honest, Decides, DoneInv, Decided, ToldInv
  <1>2. CASE Fails(60007)
    BY <1>2, FailsKeeps DEF Early, Late, Other
  <1>3. CASE call.fails \in Early \ {Other} /\ Fails(call.fails)
    BY <1>3, FailsKeeps
  <1>4. QED
    BY <1>1, <1>2, <1>3 DEF Finish

LEMMA CancelKeeps == OInv /\ Cancel => OInv'
  <1> SUFFICES ASSUME OInv, Cancel PROVE OInv'
    OBVIOUS
  <1> DEFINE m == [kind |-> "cancel", status |-> 60004, body |-> FALSE, ends |-> "none"]
  <1>1. /\ Write(m, "cancelled") /\ UNCHANGED <<todo, work>>
    BY DEF Cancel
  <1>2. call' = call /\ call.streaming \in BOOLEAN /\ call.fails \in Early \cup {Never}
    BY DEF Cancel, Write, OInv, TypeInv
  <1>3. /\ m \in Messages /\ "cancelled" \in Causes
        /\ Outcome(m) = "StreamCancelledError"
    BY DEF Messages, Causes, Outcome
  <1>4. Outcome(m) \in Truth["cancelled"] /\ Outcome(m) # "success"
    BY <1>3 DEF Truth
  <1> HIDE DEF m
  <1>5. /\ log' \in Seq([message : Messages, why : Causes]) /\ read' \in 0..Len(log')
        /\ LogInv' /\ ToldInv' /\ (Decided => Decided')
    BY <1>1, <1>3, <1>4, Written
  <1>6. todo' \in Seq(Events) /\ TodoInv'
    BY <1>1, <1>2, TodoKeeps
  <1>7. TypeInv' /\ DoneInv'
    BY <1>1, <1>2, <1>5, <1>6 DEF TypeInv, DoneInv, OInv
  <1>8. QED
    BY <1>5, <1>6, <1>7 DEF OInv

LEMMA CancelledKeeps == OInv /\ Cancelled => OInv'
  BY DEF Cancelled, OInv, TypeInv, TodoInv, Coming, LogInv, Honest, Decides, DoneInv, Decided, ToldInv

LEMMA TellKeeps == OInv /\ Tell => OInv'
  <1> SUFFICES ASSUME OInv, Tell PROVE OInv'
    OBVIOUS
  <1> DEFINE m == log[read + 1].message
  <1>1. /\ UNCHANGED <<call, todo, work, log>> /\ read < Len(log) /\ read' = read + 1
    BY DEF Tell
  <1>2. log \in Seq([message : Messages, why : Causes]) /\ read \in 0..Len(log) /\ Len(log) \in Nat
    BY LenProperties DEF OInv, TypeInv
  <1>3. read' \in 0..Len(log) /\ read + 1 \in DOMAIN log
    BY <1>1, <1>2
  <1>4. told' # "nothing" => Decides(m) /\ told' = Outcome(m)
    <2>1. told' = CASE ~Decides(m) -> "nothing"
                    [] Decides(m) /\ m.kind = "cancel" -> "StreamCancelledError"
                    [] Decides(m) /\ m.kind # "cancel" -> MakeApiError(m.status, m.ends)
      BY DEF Tell
    <2> HIDE DEF m
    <2>2. CASE ~Decides(m)
      BY <2>1, <2>2
    <2>3. CASE Decides(m) /\ m.kind = "cancel"
      BY <2>1, <2>3 DEF Outcome
    <2>4. CASE Decides(m) /\ m.kind # "cancel"
      BY <2>1, <2>4 DEF Outcome
    <2>5. QED
      BY <2>2, <2>3, <2>4
  <1>5. ToldInv'
    <2>1. told' # "nothing" => Decides(log[read + 1].message) /\ told' = Outcome(log[read + 1].message)
      BY <1>4
    <2>2. QED
      BY <1>1, <1>3, <2>1 DEF ToldInv, Decides, Outcome
  <1>6. TypeInv' /\ TodoInv' /\ LogInv' /\ DoneInv'
    BY <1>1, <1>3 DEF OInv, TypeInv, TodoInv, Coming, LogInv, Honest, Decides, DoneInv, Decided
  <1>7. QED
    BY <1>5, <1>6 DEF OInv

\* The invariant implies the property: the message read last is an entry of the log.
LEMMA InvTells == OInv => OutcomeTold
  <1> SUFFICES ASSUME OInv PROVE OutcomeTold
    OBVIOUS
  <1>1. ASSUME told # "nothing"
        PROVE  told \in Truth[log[read].why] /\ (told = "success" => call.fails = Never /\ todo = <<>>)
    <2>1. read \in DOMAIN log /\ Decides(log[read].message) /\ told = Outcome(log[read].message)
      BY <1>1 DEF OInv, ToldInv
    <2>2. Honest(log[read])
      BY <2>1 DEF OInv, LogInv
    <2>3. QED
      BY <2>1, <2>2 DEF Honest
  <1>2. QED
    BY <1>1 DEF OutcomeTold, OInv, DoneInv

\* The application is told the cause that the first deciding message stands for, and
\* a success only of a whole answer; the Worker is never done with an undecided call.
THEOREM TheTruthIsTold == OSpec => []OutcomeTold
  <1>1. OInit => OInv
    BY OInitInv
  <1>2. OInv /\ [ONext]_ovars => OInv'
    <2> SUFFICES ASSUME OInv, [ONext]_ovars PROVE OInv'
      OBVIOUS
    <2>1. CASE UNCHANGED ovars
      BY <2>1 DEF ovars, OInv, TypeInv, TodoInv, Coming, LogInv, Honest, Decides, DoneInv, Decided, ToldInv
    <2>2. CASE Over
      BY <2>1, <2>2 DEF Over
    <2>3. QED
      BY <2>1, <2>2, BeginKeeps, EmitKeeps, FinishKeeps, RestartKeeps, CancelKeeps, CancelledKeeps,
         TellKeeps DEF ONext
  <1>3. OInv => OutcomeTold
    BY InvTells
  <1>4. QED
    BY <1>1, <1>2, <1>3, PTL DEF OSpec
=============================================================================
