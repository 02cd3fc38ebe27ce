-------------------------- MODULE MCEmailDelivery --------------------------
(* Instances of EmailDelivery for TLC. *)
EXTENDS EmailDelivery, TLC

\* Workers of the queue are interchangeable, and so are messages and requests.
Symmetry == Permutations(Workers \ Pollers) \cup Permutations(Msgs) \cup Permutations(Calls)
=============================================================================
