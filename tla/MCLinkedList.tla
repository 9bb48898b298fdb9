---------------------------- MODULE MCLinkedList ----------------------------
(* Room for two or three macros on two pads, or one long list of buttons. *)
EXTENDS LinkedList
==============================================================================
