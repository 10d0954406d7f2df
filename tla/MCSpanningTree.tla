--------------------------- MODULE MCSpanningTree ---------------------------
(***************************************************************************)
(* SpanningTree on small graphs.                                            *)
(***************************************************************************)
EXTENDS SpanningTree
=============================================================================
