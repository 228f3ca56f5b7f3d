------------------------------ MODULE MCConsole ------------------------------
(* A small instance of Console: three revisions with several pages of candidates. *)
EXTENDS Console

ThreeFiveFour == <<3, 5, 4>>
=============================================================================
