--------------------------- MODULE MCSubscription ---------------------------
(* Small instances of the Subscription for TLC. *)
EXTENDS SubscriptionProperties, TLC

CONSTANTS c1, c2    \* the calls

CloserSymmetry == Permutations(Closers)
=============================================================================
