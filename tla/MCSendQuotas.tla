---------------------------- MODULE MCSendQuotas ----------------------------
(* Small instances of SendQuotas for TLC. *)
EXTENDS SendQuotas, TLC

CONSTANTS p1, p2   \* a Serbian mobile number and another one

MCPhone == {p1, p2}
MCRisky == {p2}

\* The limits of a trial shop and of a verified one.
Trial   == [day |-> 1, month |-> 2, trial |-> TRUE]
Regular == [day |-> 2, month |-> 3, trial |-> FALSE]
MCPlan    == {Trial, Regular}

\* Months of two days: 0-1, 2-3, ...
MCMonthStart == [d \in 0 .. LastDay |-> 2 * (d \div 2)]

Symmetry == Permutations(Worker) \cup Permutations(Shop)
=============================================================================
