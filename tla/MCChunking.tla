----------------------------- MODULE MCChunking -----------------------------
(* A small instance of Chunking: the limits scaled down, one line of each kind, *)
(* and prose and rows below and beyond the limits.                              *)
EXTENDS Chunking

Line(kind, size) == [kind |-> kind, size |-> size]

SmallLines ==
    {Line("blank", 0), Line("h1", 1), Line("h3", 2), Line("text", 2), Line("text", 13),
     Line("row", 3), Line("row", 9), Line("separator", 1), Line("fence", 1), Line("info", 2)}
=============================================================================
