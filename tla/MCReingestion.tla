---------------------------- MODULE MCReingestion ----------------------------
(* Small instances of Reingestion. *)
EXTENDS Reingestion
=============================================================================
