----------------------------- MODULE MCAdmission -----------------------------
(* Small instances of Admission. *)
EXTENDS Admission, TLC

Symmetry == Permutations(Calls) \cup Permutations(Keys) \cup Permutations(Contents)
=============================================================================
