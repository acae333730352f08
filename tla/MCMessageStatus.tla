--------------------------- MODULE MCMessageStatus ---------------------------
(* Small instances of MessageStatus for TLC. *)
EXTENDS MessageStatus, TLC

CONSTANTS c1, c2, c3   \* channels

TwoChannels   == <<c1, c2>>
ThreeChannels == <<c1, c2, c3>>

Symmetry == Permutations(Worker)
=============================================================================
