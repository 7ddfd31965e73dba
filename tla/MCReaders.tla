------------------------------ MODULE MCReaders ------------------------------
(***************************************************************************)
(* The parts of the program that are functions of their input, in one run: *)
(* a behaviour is about a body, an integer or a call.                      *)
(***************************************************************************)
EXTENDS SseParser, JsonIntegers, Outcomes

NoBody == body = <<>> /\ fed = 0 /\ parser = Fresh
NoCall == call = <<>> /\ todo = <<>> /\ work = "none" /\ log = <<>> /\ read = 0 /\ told = "nothing"

MCInit ==
    \/ Init /\ integer = 0 /\ NoCall
    \/ NoBody /\ AnyInteger /\ NoCall
    \/ NoBody /\ integer = 0 /\ OInit

MCNext ==
    \/ body # <<>> /\ Next /\ UNCHANGED <<integer, ovars>>
    \/ work # "none" /\ ONext /\ UNCHANGED <<vars, integer>>
    \/ body = <<>> /\ work = "none" /\ UNCHANGED <<vars, integer, ovars>>

MCSpec == MCInit /\ [][MCNext]_<<vars, integer, ovars>>
=============================================================================
