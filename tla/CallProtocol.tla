---------------------------- MODULE CallProtocol ----------------------------
(***************************************************************************)
(* What Model Proxy promises about calls, whatever runs where: a call is   *)
(* opened once, may start to stream if that was asked for, closes once and *)
(* for good, and eventually does.  At most one Provider call is made under *)
(* one name, at any time after the call was opened.                        *)
(***************************************************************************)
EXTENDS Naturals

CONSTANTS Ids, Names

VARIABLES
    status,    \* by call: how far it is, as the log tells it
    name,      \* by call: the name it was opened under
    called     \* the calls for which a Provider was called

callVars == <<status, name, called>>

Statuses == {"none", "ordinary", "open", "streaming", "closed"}
NoName == "no name"

\* Every call has a status and, once opened, a name.
CallTypeOK ==
    /\ status \in [Ids -> Statuses]
    /\ name \in [Ids -> Names \cup {NoName}]
    /\ called \subseteq Ids

CallInit ==
    /\ status = [c \in Ids |-> "none"]
    /\ name = [c \in Ids |-> NoName]
    /\ called = {}

Open(c, n, st) ==
    /\ status[c] = "none"
    /\ status' = [status EXCEPT ![c] = st]
    /\ name' = [name EXCEPT ![c] = n]
    /\ UNCHANGED called

Start(c) ==
    /\ status[c] = "open"
    /\ status' = [status EXCEPT ![c] = "streaming"]
    /\ UNCHANGED <<name, called>>

Close(c) ==
    /\ status[c] \in {"ordinary", "open", "streaming"}
    /\ status' = [status EXCEPT ![c] = "closed"]
    /\ UNCHANGED <<name, called>>

CallProvider(c) ==
    /\ status[c] # "none"
    /\ \A d \in called : name[d] # name[c]
    /\ called' = called \cup {c}
    /\ UNCHANGED <<status, name>>

CallNext ==
    \E c \in Ids :
        \/ \E n \in Names, st \in {"ordinary", "open"} : Open(c, n, st)
        \/ Start(c) \/ Close(c) \/ CallProvider(c)

CallSpec == CallInit /\ [][CallNext]_callVars

CallLiveSpec == CallSpec /\ \A c \in Ids : WF_callVars(Close(c))
=============================================================================
