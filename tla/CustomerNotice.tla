--------------------------- MODULE CustomerNotice ---------------------------
(***************************************************************************)
(* What the shop's customer is promised about the "on the way" message of  *)
(* one delivery: it is announced once, sent once, and repeated only after  *)
(* that announcement and at most Cap times.  Locks, requests and retries   *)
(* do not appear.                                                          *)
(***************************************************************************)
EXTENDS Naturals

CONSTANT Cap   \* how often the shop may have the message repeated

VARIABLES announced, first, again

vars == <<announced, first, again>>

Init == announced = FALSE /\ first = 0 /\ again = 0

Announce == ~announced /\ announced' = TRUE /\ UNCHANGED <<first, again>>

SendFirst ==
  announced /\ first = 0 /\ first' = 1 /\ UNCHANGED <<announced, again>>

SendAgain ==
  announced /\ again < Cap /\ again' = again + 1 /\ UNCHANGED <<announced, first>>

Next == Announce \/ SendFirst \/ SendAgain

Spec == Init /\ [][Next]_vars

\* What is announced is sent.
FairSpec == Spec /\ WF_vars(SendFirst)
============================================================================
