--------------------------- MODULE MCSubscription ---------------------------
(* Small instances of Subscription for TLC. *)
EXTENDS Subscription, TLC

Symmetry == Permutations(Worker)
AllSymmetry == Permutations(Worker) \cup Permutations(Mem)
=============================================================================
