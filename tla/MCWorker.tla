------------------------------ MODULE MCWorker ------------------------------
(* Small instances of the Worker for TLC. *)
EXTENDS WorkerProperties, TLC

KeySymmetry == Permutations(Keys)

Ordinary == <<FALSE, "ok">>
Streaming == <<TRUE, "ok">>
BothShapes == {Ordinary, Streaming}
StreamingOnly == {Streaming}
SomeRejected == {Ordinary, Streaming, <<TRUE, "large">>, <<FALSE, "config">>}
=============================================================================
