----------------------- MODULE SubscriptionProperties -----------------------
(***************************************************************************)
(* What the SDK promises to the application, as predicates on its state    *)
(* and on the log.                                                         *)
(***************************************************************************)
EXTENDS Subscription

(***************************************************************************)
(* The reference reading of the log for the call whose request is at seq   *)
(* s: its first result and, for a stream, every append, end and cancel, up *)
(* to the first one that ends the call or breaks its chain.                *)
(***************************************************************************)
Candidates(lg, s, n) ==
    ({FirstResult(lg, s, n)} \ {0}) \cup
    (IF lg[s].streaming THEN UNION {Matching(lg, s, n, kind) : kind \in {"append", "end", "cancel"}}
     ELSE {})

\* What the output at i has to continue.
Before(lg, s, i) == Latest({j \in Candidates(lg, s, i - 1) : lg[j].kind \in {"result", "append"}})

Breaks(lg, s, i) ==
    \/ /\ lg[i].kind = "append"
       /\ FirstResult(lg, s, i) = 0 \/ lg[i].prev # Before(lg, s, i)
    \/ lg[i].kind = "result" /\ ~lg[s].streaming /\ ~lg[i].body

EndsCall(lg, s, i) ==
    \/ Breaks(lg, s, i) \/ lg[i].kind \in {"end", "cancel"}
    \/ lg[i].kind = "result" /\ lg[i].body

Reading(lg, s, n) ==
    {i \in Candidates(lg, s, n) : \A j \in Candidates(lg, s, n) : j < i => ~EndsCall(lg, s, j)}

\* The call has seen its request in the log, and publishing did not report
\* another seq.
Following(c) ==
    /\ call[c].receive # 0
    /\ call[c].request_seq \in {0, call[c].receive}

\* All that next_message has returned or will return.
Heard(c) == taken[c] \o call[c].queue

\* An application gets exactly the messages of its call, in log order, each
\* once and with the right verdict on its link, whatever was lost, replayed or
\* read before the publication returned (_accept, _accept_output_locked, the
\* cursor of _connect); a closed call keeps a prefix of them.
ReadsLog ==
    \A c \in Keys : Following(c) =>
        LET due == Reading(log, call[c].receive, lastSeen)
        IN  /\ \A i \in DOMAIN Heard(c) :
                  /\ Heard(c)[i].seq \in due
                  /\ Cardinality({j \in due : j <= Heard(c)[i].seq}) = i
                  /\ Heard(c)[i].fault = Breaks(log, call[c].receive, Heard(c)[i].seq)
            /\ ~call[c].local_closed => Len(Heard(c)) = Cardinality(due)

\* The consumer and the Worker agree on what decided a call: the last message
\* that an application gets is the winner of the Worker's reading, or a message
\* that breaks the call there as well (an ordinary call is not broken by appends
\* in the SDK, which ignores them).
OneOutcome ==
    \A c \in Keys : \A i \in DOMAIN Heard(c) :
        Ending(c, Heard(c)[i]) =>
            IF Heard(c)[i].fault THEN Broken(log, call[c].receive, Len(log))
            ELSE /\ Heard(c)[i].seq = Winner(log, call[c].receive, Len(log))
                 /\ c \in StreamingKeys => ~Broken(log, call[c].receive, Len(log))

\* The maps route to exactly the calls that still expect something: a request
\* that is being published, an open call that waits for outputs (register,
\* _accept, _detach_locked from five places, _fail_locked).
Routed ==
    LET open == {c \in Begun : ~failed /\ ~call[c].local_closed}
        unseen == {c \in open : call[c].receive = 0}
    IN  /\ byUuid \subseteq unseen
        /\ {c \in unseen : app[c] \in {"gate", "sent", "return"} \cup HandedOut} \subseteq byUuid
        /\ bySeq = {c \in open \ unseen : ~call[c].terminal}

\* No application reads outputs of a request under a seq that publishing did
\* not report, and a disagreement fails the subscription, whichever of reply
\* and log comes first.
SeqsAgree ==
    \A c \in Keys :
        /\ taken[c] # <<>> => call[c].receive = call[c].request_seq
        /\ call[c].receive # 0 /\ call[c].request_seq \notin {0, call[c].receive}
              => failed /\ call[c].queue = <<>>

\* A failure of the subscription is an error of every open call that is not
\* complete, and never of a call whose outcome has been read from the log.
FailureReaches ==
    \A c \in Begun :
        /\ failed /\ ~call[c].local_closed /\ ~call[c].terminal => call[c].error
        /\ call[c].error => failed /\ (call[c].terminal => call[c].local_closed)

\* However many threads close a stream, at most one cancel is published for it,
\* by the one that took the close upon itself, and none for a call that this
\* thread found complete: its terminal message had been read.
OneCancel ==
    \A c \in Keys :
        /\ cancels[c] <= 1
        /\ cancels[c] = 1 => call[c].close # "no" /\ ~call[c].terminal

\* Nobody sleeps on the condition without a reason: a create() waits for a thread
\* that is preparing, an application for a message, a close() for the thread that
\* is closing the same stream.  So no change that one of them waits for goes
\* without its notify_all (prepare, next_message, _close_call).
NoLostWakeup ==
    \A c \in Keys :
        /\ App(c) \in asleep =>
              \/ /\ app[c] = "prepare" /\ preparing /\ ~ready /\ ~failed
                 /\ \E d \in Keys : app[d] \in {"status", "start", "unprepared"}
              \/ /\ app[c] = "next" /\ call[c].queue = <<>>
                 /\ ~call[c].error /\ ~call[c].local_closed
        /\ \A k \in Closers : <<c, k>> \in asleep =>
              /\ closer[<<c, k>>] = "waiting" /\ call[c].close = "started"
              /\ \E j \in Closers : closer[<<c, j>>] \in {"gate", "sent", "finish"}

\* on_error is called once, and only when the reader is past its last message.
CallbackLast ==
    /\ callbacks <= 1
    /\ callbacks = 1 => failed /\ reader \in {"off", "final", "ended"}

-----------------------------------------------------------------------------
(* Liveness.  Every thread gets to run, an RPC is answered or fails within   *)
(* its deadline, and a cancelled stream ends.  Nothing is fair about faults, *)
(* the messages of others, or the threads that close.                        *)

Fairness ==
    /\ \A c \in Keys : WF_vars(AppStep(c))
    /\ \A c \in Keys, k \in Closers : WF_vars(CloserStep(c, k))
    /\ WF_vars(ReaderStep) /\ WF_vars(Finish)

LiveSpec == Spec /\ Fairness

AppRests(c) == app[c] \in {"refused", "raised", "done", "failed", "stopped"}
CloserRests(c, k) == closer[<<c, k>>] \in {"idle", "closed"}

\* After a final failure every create(), iteration and close() that has begun
\* returns, also a create() that waits for another one to prepare; the reader ends
\* and on_error has been called: nobody waits for a notification that does not
\* come, or for a thread that waits for him.
FailureEndsAll ==
    failed ~> /\ reader \in {"off", "ended"} /\ callbacks = 1
              /\ \A c \in Keys : AppRests(c) \/ app[c] = "new"
              /\ \A c \in Keys, k \in Closers : CloserRests(c, k)

\* A call whose outcome is in the log ends in the application, through any
\* reconnection that the retries allow, or fails.
OutcomeArrives ==
    \A c \in Keys :
        (call[c].request_seq # 0 /\ Reading(log, SeqOf(c), Len(log)) # {}
            /\ \E i \in Reading(log, SeqOf(c), Len(log)) : EndsCall(log, SeqOf(c), i))
        ~> AppRests(c)
=============================================================================
