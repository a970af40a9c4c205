---------------------------- MODULE MCRegistration ----------------------------
(* Symmetry for the safety runs of Registration. *)
EXTENDS Registration, TLC

Symmetry == Permutations(Uids) \cup Permutations(Keys) \cup Permutations(Requests)

=============================================================================
