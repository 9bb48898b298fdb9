--------------------------- MODULE MCBootSequence ---------------------------
(* All four pads, as in main.c, and a counter of four bits: the longest delay *)
(* and the longest gap just fit.                                              *)
EXTENDS BootSequence
=============================================================================
