----------------------------- MODULE OneDelivery -----------------------------
(***************************************************************************)
(* What POST /deliveries promises for one Idempotency-Key (deliveries/     *)
(* api.py): deliveries may come into being and go again while requests     *)
(* race, but one of them is chosen, once, every answer names it, and it    *)
(* is never dropped.                                                       *)
(***************************************************************************)
EXTENDS FiniteSets

CONSTANTS Row, None   \* deliveries; no delivery

VARIABLES
  exists,   \* the deliveries there are
  chosen,   \* the delivery of the key, or None
  told      \* the deliveries named in answers

Init == exists = {} /\ chosen = None /\ told = {}

Spawn ==
  \E r \in Row \ exists :
    /\ exists' = exists \cup {r}
    /\ UNCHANGED <<chosen, told>>

Choose ==
  /\ chosen = None
  /\ \E r \in exists : chosen' = r
  /\ UNCHANGED <<exists, told>>

Tell ==
  /\ chosen # None
  /\ told' = told \cup {chosen}
  /\ UNCHANGED <<exists, chosen>>

\* A request that came second drops its own delivery and answers with the
\* chosen one.
Drop ==
  /\ chosen # None
  /\ \E r \in exists \ {chosen} : exists' = exists \ {r}
  /\ told' = told \cup {chosen}
  /\ UNCHANGED chosen

Spec == Init /\ [][Spawn \/ Choose \/ Tell \/ Drop]_<<exists, chosen, told>>
=============================================================================
