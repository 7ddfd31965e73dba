--------------------------- MODULE PublishContract ---------------------------
(***************************************************************************)
(* What _publish promises its callers: the event enters the log at most    *)
(* once, possibly after the call has given up, and the conclusion the      *)
(* caller gets is true, now and later.                                     *)
(***************************************************************************)
EXTENDS Naturals

VARIABLES
    copies,       \* how often the event is in the log
    conclusion    \* what the caller was told, or "none"

cvars == <<copies, conclusion>>

Present == {"seq", "committed"}                      \* the event is in the log
Never == {"not_committed", "stopped", "refused"}     \* and never will be
Conclusions == Present \cup Never \cup {"unknown"}

CInit == copies = 0 /\ conclusion = "none"

Enter ==
    /\ copies = 0
    /\ conclusion \notin Never
    /\ copies' = 1
    /\ UNCHANGED conclusion

Conclude ==
    /\ conclusion = "none"
    /\ conclusion' \in Conclusions
    /\ conclusion' \in Present => copies = 1
    /\ conclusion' \in Never => copies = 0
    /\ UNCHANGED copies

CNext == Enter \/ Conclude

CSpec == CInit /\ [][CNext]_cvars

\* And the caller is told something in the end.
CLiveSpec == CSpec /\ WF_cvars(Conclude)
=============================================================================
