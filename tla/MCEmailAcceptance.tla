--------------------------- MODULE MCEmailAcceptance ---------------------------
(* Symmetry for model checking EmailAcceptance. *)
EXTENDS EmailAcceptance, TLC

Symmetry == Permutations(Requests) \cup Permutations(Keys) \cup Permutations(Emails)

=============================================================================
