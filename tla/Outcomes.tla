------------------------------- MODULE Outcomes -------------------------------
(***************************************************************************)
(* What an application is told of its call.  The cause of an outcome       *)
(* crosses four tables: the Provider's events and codes, the outputs the   *)
(* Worker makes of them, the status codes llm.v1 admits for each shape of  *)
(* a message, and the exceptions of the SDK.  The other modules leave the  *)
(* status codes out that matter here, and model the rest in detail.        *)
(*                                                                         *)
(* X_... is X with a plausible bug; only the README's table refers to it.  *)
(***************************************************************************)
EXTENDS Integers, Sequences

CONSTANT Statuses     \* the HTTP statuses that a Provider may answer with

\* http.client accepts three digits; the Worker skips informational responses.
ASSUME StatusesAssumption == Statuses \subseteq {101} \cup 200..999

VARIABLES
    call,     \* what is asked and what the Provider will do; never changes
    todo,     \* the ProviderEvents still to come
    work,     \* the Worker: new, provider, done, or none without a call
    log,      \* the messages about the request; why is history
    read,     \* how many of them the SDK has read
    told      \* what the application was told, "nothing" yet

ovars == <<call, todo, work, log, read, told>>

-----------------------------------------------------------------------------
(* The Provider. *)

\* The codes of a ProviderError before and after the headers; Other is any other
\* exception.
Other == 0
Late == {60000, 60003, 60007, 60008, Other}
Early == Late \cup {60001, 60002}
Never == -1

Event(kind, status, body) == [kind |-> kind, status |-> status, body |-> body]

\* The events of a streaming call up to its end, and the code it fails with.
Answers(s) ==
    LET begun == {<<Event("headers", s, FALSE)>>,
                  <<Event("headers", s, FALSE), Event("append", s, TRUE)>>}
        ends == {Event("completed", s, TRUE), Event("completed", s, FALSE), Event("failed", s, TRUE)}
    IN  (begun \X Late) \cup {<<Append(b, e), Never>> : b \in begun, e \in ends}

Calls ==
    LET Call(str, a) == [streaming |-> str, events |-> a[1], fails |-> a[2]]
    IN  {Call(str, <<<<>>, c>>) : str \in BOOLEAN, c \in Early}
        \cup {Call(FALSE, <<<<Event("result", s, TRUE)>>, Never>>) : s \in Statuses}
        \cup UNION {{Call(TRUE, a) : a \in Answers(s)} : s \in Statuses}

-----------------------------------------------------------------------------
(* The Worker's outputs. *)

\* _provider_task: the message for an event; ends is an end_status.
Output(e) ==
    [kind |-> CASE e.kind \in {"headers", "result"} -> "result"
                [] e.kind = "append" -> "append"
                [] e.kind \in {"completed", "failed"} -> "end",
     status |-> e.status, body |-> e.body,
     ends |-> IF e.kind \in {"completed", "failed"} THEN e.kind ELSE "none"]

\* The status codes _validate admits for the shape of a message.
HttpStatus == 100..599
ResultCodes == {60000, 60001, 60002, 60003, 60005, 60007, 60008, 60009}
InterruptedCodes == {60000, 60001, 60002, 60003, 60007, 60008}

Admitted(m) ==
    /\ m.kind = "result" => m.status \in HttpStatus \/ (m.body /\ m.status \in ResultCodes)
    /\ m.kind = "end" =>
          /\ m.ends # "completed" => m.body
          /\ m.status \in IF m.ends = "interrupted" THEN InterruptedCodes ELSE HttpStatus

\* A result for an ordinary call, a rejection and a recovered duplicate.
ErrorOutput(code, plain) ==
    IF call.streaming /\ ~plain
    THEN [kind |-> "end", status |-> code, body |-> TRUE, ends |-> "interrupted"]
    ELSE [kind |-> "result", status |-> code, body |-> TRUE, ends |-> "none"]

Write(m, why) ==
    /\ Admitted(m)
    /\ log' = Append(log, [message |-> m, why |-> why])
    /\ UNCHANGED <<call, read, told>>

Cause(code) == CASE code = 60000 -> "timeout"
                 [] code \in {60001, 60002, 60003} -> "connection"
                 [] code \in {60005, 60007, 60008} -> "proxy"
                 [] code = 60009 -> "unknown"

\* What an event means, if it is the last one.
Meaning(e) == CASE e.kind \in {"headers", "append"} -> "none"
                [] e.kind = "failed" -> "failed"
                [] e.kind \in {"result", "completed"} ->
                      IF e.status \in 200..299 THEN "success" ELSE "http"

Fails(code) ==
    Write(ErrorOutput(code, FALSE), Cause(code)) /\ work' = "done" /\ UNCHANGED todo

\* _schedule takes the request, or _control_outputs rejects it.
Rejections == {60005, 60008, 60009}

Begin ==
    /\ work = "new"
    /\ \/ work' = "provider" /\ UNCHANGED <<call, todo, log, read, told>>
       \/ \E code \in Rejections :
             /\ Write(ErrorOutput(code, TRUE), Cause(code))
             /\ work' = "done" /\ UNCHANGED todo

\* The next event is published, or it cannot be said in llm.v1, or it is too large.
Emit ==
    /\ work = "provider" /\ todo # <<>>
    /\ LET e == Head(todo)
           m == Output(e)
       IN  \/ Write(m, Meaning(e)) /\ todo' = Tail(todo) /\ UNCHANGED work
           \/ ~Admitted(m) /\ Fails(60007)
           \/ Admitted(m) /\ Fails(60008)

\* The iteration has ended.
Finish ==
    /\ work = "provider" /\ todo = <<>>
    /\ \/ call.fails = Never /\ work' = "done" /\ UNCHANGED <<call, todo, log, read, told>>
       \/ call.fails = Other /\ Fails(60007)
       \/ call.fails \in Early \ {Other} /\ Fails(call.fails)

-----------------------------------------------------------------------------
(* The messages that decide a call, the SDK, and what else may happen. *)

Decides(m) ==
    \/ m.kind = "result" /\ m.body
    \/ call.streaming /\ m.kind \in {"end", "cancel"}

Decided == \E i \in DOMAIN log : Decides(log[i].message)

\* A restart before the outcome: recover() closes the request, which may have been
\* a duplicate if it was not begun.
Restart ==
    /\ work # "done" /\ ~Decided
    /\ \E duplicate \in BOOLEAN :
          /\ duplicate => work = "new"
          /\ Write(ErrorOutput(60007, duplicate), "proxy")
    /\ work' = "done" /\ UNCHANGED todo

\* The application closes its stream, and the Worker learns of it before or after
\* its next output.
Cancel ==
    /\ call.streaming /\ \A i \in DOMAIN log : log[i].message.kind # "cancel"
    /\ Write([kind |-> "cancel", status |-> 60004, body |-> FALSE, ends |-> "none"], "cancelled")
    /\ UNCHANGED <<todo, work>>

Cancelled == work # "done" /\ Decided /\ work' = "done" /\ UNCHANGED <<call, todo, log, read, told>>

StatusError(status) ==
    CASE status = 60000 -> "APITimeoutError"
      [] status \in {60001, 60002, 60003} -> "APIConnectionError"
      [] status = 60004 -> "StreamCancelledError"
      [] status \in {60005, 60007, 60008} -> "APIError"
      [] status \in {400, 60009} -> "BadRequestError"
      [] status \in 200..299 -> "success"
      [] status \in 500..599 -> "InternalServerError"
      [] status = 401 -> "AuthenticationError"  [] status = 403 -> "PermissionDeniedError"
      [] status = 404 -> "NotFoundError"        [] status = 409 -> "ConflictError"
      [] status = 422 -> "UnprocessableEntityError"
      [] status = 429 -> "RateLimitError"
      [] OTHER -> "APIStatusError"

\* make_api_error: the end_status comes before the status.
MakeApiError_StatusOnly(status, ends) == StatusError(status)
MakeApiError(status, ends) == IF ends = "failed" THEN "APIError" ELSE StatusError(status)

\* next_message, and what create() and __next__ make of the message.
Tell ==
    /\ told = "nothing" /\ read < Len(log)
    /\ read' = read + 1
    /\ LET m == log[read + 1].message IN
       told' = CASE ~Decides(m) -> "nothing"
                 [] Decides(m) /\ m.kind = "cancel" -> "StreamCancelledError"
                 [] Decides(m) /\ m.kind # "cancel" -> MakeApiError(m.status, m.ends)
    /\ UNCHANGED <<call, todo, work, log>>

OInit ==
    /\ call \in Calls /\ todo = call.events /\ work = "new"
    /\ log = <<>> /\ read = 0 /\ told = "nothing"

Over == work = "done" /\ told # "nothing" /\ UNCHANGED ovars

ONext == Begin \/ Emit \/ Finish \/ Restart \/ Cancel \/ Cancelled \/ Tell \/ Over

OSpec == OInit /\ [][ONext]_ovars

-----------------------------------------------------------------------------
(* The meaning of what an application is told. *)

StatusErrors == {"BadRequestError", "AuthenticationError", "PermissionDeniedError",
                 "NotFoundError", "ConflictError", "UnprocessableEntityError",
                 "RateLimitError", "InternalServerError", "APIStatusError"}

Truth ==
    [success |-> {"success"}, http |-> StatusErrors, failed |-> {"APIError"},
     timeout |-> {"APITimeoutError"}, connection |-> {"APIConnectionError"},
     proxy |-> {"APIError"}, unknown |-> {"BadRequestError"},
     cancelled |-> {"StreamCancelledError"}]

\* The application is told the cause that the first deciding message stands for: a
\* success only of an answer that the Provider completed with a status 2xx, never
\* of one that failed, was cut off or could not be said.  Whenever the Worker is
\* done with a call there is such a message.
OutcomeTold ==
    /\ told # "nothing" => told \in Truth[log[read].why]
    /\ work = "done" => Decided
    /\ told = "success" => call.fails = Never /\ todo = <<>>
=============================================================================
