----------------------------- MODULE MacroButtons -----------------------------
(***************************************************************************)
(* How a macro of gamepad.c acts on the buttons of one gamepad.  A button  *)
(* array is the set of the buttons whose byte is not zero: 1 (read from    *)
(* the pad) and 0xff (set by a macro) both count as pressed wherever the   *)
(* code looks.                                                             *)
(*                                                                         *)
(* A macro is a record of two lists: act, the buttons that activate it,    *)
(* each [button, keep], and press, the buttons it presses, each            *)
(* [button, keep, delay, press] with times counted in reads of the pad.    *)
(***************************************************************************)
EXTENDS Integers, Sequences

CONSTANTS
  Btn,        \* the buttons of a pad
  Programs    \* the lists of macros that may be installed for it

Act   == [button : Btn, keep : BOOLEAN]
Press == [button : Btn, keep : BOOLEAN, delay : Nat, press : Nat]

ASSUME ProgramsAssumption ==
  /\ Programs \subseteq Seq([act : Seq(Act), press : Seq(Press)])
  /\ <<>> \in Programs

\* A macro without act buttons never becomes active.
Active(m, buttons) ==
  /\ DOMAIN m.act # {}
  /\ \A k \in DOMAIN m.act : m.act[k].button \in buttons

\* The act buttons a macro hides, active or not.
Hidden(m) == {m.act[k].button : k \in {j \in DOMAIN m.act : ~m.act[j].keep}}

Effects == {"leave", "press", "release"}

\* The buttons after macro m, when its press entry j has effect[j].  The
\* entries apply in list order: the last one to touch a button decides.
After(m, buttons, effect) ==
  {b \in Btn :
     LET touching == {j \in DOMAIN m.press : m.press[j].button = b /\ effect[j] # "leave"}
     IN  IF touching = {}
         THEN b \in buttons \ Hidden(m)
         ELSE \E j \in touching :
                /\ \A k \in touching : k <= j
                /\ effect[j] = "press"}

\* The axes: up wins over down and left over right.
AxisY(buttons) == IF "UP" \in buttons THEN -127 ELSE IF "DOWN" \in buttons THEN 127 ELSE 0
AxisX(buttons) == IF "LEFT" \in buttons THEN -127 ELSE IF "RIGHT" \in buttons THEN 127 ELSE 0

ReportOf(buttons) ==
  [buttons |-> buttons \ {"UP", "DOWN", "LEFT", "RIGHT"},
   x |-> AxisX(buttons), y |-> AxisY(buttons)]
===============================================================================
