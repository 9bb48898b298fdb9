---------------------------- MODULE MCPadProtocol ----------------------------
(* Each line with either of its buttons, both and neither. *)
EXTENDS PadToHost

MCHolds == { {}, {"UP", "RIGHT", "A"}, {"DOWN", "LEFT", "B", "MODE"},
             {"Z", "X", "START"}, {"Y", "MODE", "C", "UP"}, Btn }
==============================================================================
