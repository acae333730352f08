------------------------ MODULE MCDeliveryLifecycle ------------------------
(* Small instances of DeliveryLifecycle for TLC. *)
EXTENDS DeliveryLifecycle, TLC

\* Workers are interchangeable, and so are numbers and times: no definition
\* names one of them.
Symmetry == Permutations(Worker) \cup Permutations(Phone) \cup Permutations(Eta)
============================================================================
