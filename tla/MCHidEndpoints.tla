---------------------------- MODULE MCHidEndpoints ----------------------------
(* Two pads with two positions. *)
EXTENDS HidEndpoints

CONSTANTS up, down
===============================================================================
