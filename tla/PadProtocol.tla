----------------------------- MODULE PadProtocol -----------------------------
(***************************************************************************)
(* gamepad_read() of gamepad.c against the pad: the adapter drives the     *)
(* select line and samples six data lines.  A pad multiplexes its buttons  *)
(* on these lines: a three-button pad by the level of select alone; a      *)
(* six-button pad also counts the rising edges of select and shows its     *)
(* other four buttons after the third, until it has been left alone for    *)
(* some 1.5 ms.                                                            *)
(*                                                                         *)
(* The player may press and let go between any two edges.  Auxiliary are   *)
(* began, what the pad had counted when the read began, and ever and       *)
(* always, the buttons that were pressed at some moment of the read and    *)
(* those that were pressed all the time.                                   *)
(***************************************************************************)
EXTENDS Naturals, Sequences

CONSTANTS
  Kinds,        \* the pads that are plugged in: "three", "six"
  Holds,        \* the sets of buttons a player may press
  GND, VCC      \* lines that show a fixed level

Directions == {"UP", "DOWN", "LEFT", "RIGHT"}
Base  == Directions \cup {"A", "B", "C", "START"}
Extra == {"X", "Y", "Z", "MODE"}
Btn   == Base \cup Extra

ASSUME PadAssumption ==
  /\ Kinds \subseteq {"three", "six"}
  /\ Holds \subseteq SUBSET Btn /\ {} \in Holds
  /\ GND \notin Btn \cup {VCC} /\ VCC \notin Btn

VARIABLES
  kind,
  select,       \* "low" or "high"
  pulses,       \* the rising edges the pad has counted since it had a rest
  step,         \* the edges of the read so far; 0 between two reads
  buttons,      \* the button array
  pressed, began, ever, always

vars == <<kind, select, pulses, step, buttons, pressed, began, ever, always>>

\* What a pad shows on the lines data0 .. data5, the first one is line 1 here.
Normal == [low  |-> <<"UP", "DOWN", GND, GND, "A", "START">>,
           high |-> <<"UP", "DOWN", "LEFT", "RIGHT", "B", "C">>]

Shown(level, count) ==
  IF kind = "six" /\ level = "low"  /\ count = 2 THEN <<GND, GND, GND, GND, "A", "START">>
  ELSE IF kind = "six" /\ level = "high" /\ count = 3 THEN <<"Z", "Y", "X", "MODE", "B", "C">>
  ELSE IF kind = "six" /\ level = "low"  /\ count = 3 THEN <<VCC, VCC, VCC, VCC, "A", "START">>
  ELSE Normal[level]
-------------------------------------------------------------------------------
\* Plausible bugs, told apart by a property below; no part of the specification.

\* The other four buttons are sampled one pulse too early ...
SampledEarly(s) ==
  CASE s = 1 -> [A |-> 5, START |-> 6]
    [] s = 2 -> [UP |-> 1, DOWN |-> 2, LEFT |-> 3, RIGHT |-> 4, B |-> 5, C |-> 6]
    [] s = 4 -> [MODE |-> 4, X |-> 3, Y |-> 2, Z |-> 1]
    [] OTHER -> <<>>

\* ... or the read ends when a three-button pad has shown all it has.
LastThree == 4
-------------------------------------------------------------------------------
\* The level of select at edge s of a read, and the lines sampled 2 us later.
Level(s) == IF s % 2 = 1 THEN "low" ELSE "high"

Sampled(s) ==
  CASE s = 1 -> [A |-> 5, START |-> 6]
    [] s = 2 -> [UP |-> 1, DOWN |-> 2, LEFT |-> 3, RIGHT |-> 4, B |-> 5, C |-> 6]
    [] s = 6 -> [MODE |-> 4, X |-> 3, Y |-> 2, Z |-> 1]
    [] OTHER -> <<>>

Last == 8

\* A pressed button pulls its line low, and !gpio_get() makes that a 1.
Pulled(line) == line = GND \/ line \in pressed

Init ==
  /\ kind \in Kinds
  /\ select = "low" /\ pulses = 0
  /\ step = 0 /\ buttons = {}
  /\ pressed = {} /\ began = 0 /\ ever = {} /\ always = {}

\* The pad forgets the pulses when it is left alone long enough.
Rest ==
  /\ step = 0
  /\ pulses' = 0
  /\ UNCHANGED <<kind, select, step, buttons, pressed, began, ever, always>>

\* One edge of select and, when it has settled, the samples that follow it; after
\* the last one the array holds the buttons of the pad.
Edge ==
  LET s     == step + 1
      level == Level(s)
      count == IF select = "low" /\ level = "high" /\ pulses < 4 THEN pulses + 1 ELSE pulses
      lines == Shown(level, count)
  IN  /\ select' = level /\ pulses' = count
      /\ buttons' = (buttons \ DOMAIN Sampled(s))
                      \cup {b \in DOMAIN Sampled(s) : Pulled(lines[Sampled(s)[b]])}
      /\ step' = s % Last
      /\ IF s = 1 THEN began' = pulses /\ ever' = pressed /\ always' = pressed
                  ELSE UNCHANGED <<began, ever, always>>
      /\ UNCHANGED <<kind, pressed>>

\* The player presses other buttons, of those the pad has.
Press(h) ==
  /\ pressed' = IF kind = "three" THEN h \cap Base ELSE h
  /\ ever' = ever \cup pressed' /\ always' = always \cap pressed'
  /\ UNCHANGED <<kind, select, pulses, step, buttons, began>>

Next == Rest \/ Edge \/ \E h \in Holds : Press(h)

Spec == Init /\ [][Next]_vars
-------------------------------------------------------------------------------
TypeOK ==
  /\ kind \in Kinds /\ select \in {"low", "high"}
  /\ pulses \in 0 .. 4 /\ began \in 0 .. 4
  /\ step \in 0 .. Last - 1
  /\ buttons \subseteq Btn /\ pressed \subseteq Btn
  /\ ever \subseteq Btn /\ always \subseteq Btn

Read == step # 0 /\ step' = 0

\* A button of S that was held during the whole read is read as pressed, and none
\* is that was not pressed at any moment of it.
Truly(S) == always' \cap S \subseteq buttons' /\ buttons' \cap S \subseteq ever'

\* Directions, A, B, C and START are read truly from both kinds of pad, whether it
\* had its rest or not: what the pulses of one read leave in a six-button pad's
\* counter never turns up in the first two samples of the next.
BaseReadTruly == [][Read => Truly(Base)]_vars

\* So are the other four, from a six-button pad that had its rest.
SixReadTruly == [][Read /\ kind = "six" /\ began = 0 => Truly(Btn)]_vars

\* The adapter is for the pads of the Mega Drive; whatever pad is plugged in, what
\* it reports was pressed.
NoGhosts == [][Read => buttons' \subseteq ever']_vars
===============================================================================
