---------------------------- MODULE MCWorkerQueue ----------------------------
(* Small instances of WorkerQueue: three operations on two documents, of      *)
(* which the first replaces (locks both) and the other two have one each.     *)
EXTENDS WorkerQueue

ThreeOperations == 1 .. 3
TwoDocuments    == {"a", "b"}
ReplacementAndTwo == <<{"a", "b"}, {"a"}, {"b"}>>

OneOperation == {1}
OneDocument  == {"a"}
Single       == <<{"a"}>>
=============================================================================
