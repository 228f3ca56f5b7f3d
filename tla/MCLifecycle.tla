----------------------------- MODULE MCLifecycle -----------------------------
(* Small instances of Lifecycle for TLC: every .cfg names its documents,     *)
(* chunks and slots as model values and bounds requests, errors and          *)
(* interruptions.                                                            *)
EXTENDS Lifecycle, TLC

\* Documents, chunks and slots are interchangeable (safety runs only).
Symmetry == Permutations(Documents) \cup Permutations(Chunks) \cup Permutations(Slots)
=============================================================================
