----------------------------- MODULE MCDiscovery -----------------------------
(* Small instances of Discovery. *)
EXTENDS Discovery, TLC

OneStrong == <<"strong">>
TwoStrong == <<"strong", "strong">>
Symmetry  == Permutations(Documents)
=============================================================================
