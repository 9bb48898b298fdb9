----------------------------- MODULE ConfigLink -----------------------------
(***************************************************************************)
(* A host that stores one macro over the configuration endpoints 0x05 and  *)
(* 0x85, of which each holds one packet.  USB loses none of them, but the  *)
(* device drops an answer when the one before was not fetched (the result  *)
(* of usbd_ep_write_packet() is ignored), an answer does not say which     *)
(* command it is for, and a bus reset empties both endpoints while what    *)
(* was staged stays.                                                       *)
(*                                                                         *)
(* The host sends the commands of Script one after the other.  When the    *)
(* answer is not OK or does not come in time it starts again with          *)
(* ADD_START; after a bus reset or a power cycle, which it notices, a host *)
(* that waited for every answer so far may instead repeat the command that *)
(* it has no answer to.  (One that did not may have taken the answer of an *)
(* earlier command for that of a later one, and must not.)                 *)
(***************************************************************************)
EXTENDS ConfigSession

CONSTANTS
  Wanted,       \* the macro
  MaxTimeouts, MaxResets

ASSUME LinkAssumption ==
  /\ Wanted \in Macro /\ Wanted.hdr.acts > 0 /\ Wanted.hdr.press > 0
  /\ MaxTimeouts \in Nat /\ MaxResets \in Nat

VARIABLES
  out, in,      \* the packets that wait in the two endpoints, NULL or a command, an answer
  pos, waiting, \* the host sends Script(pos), or waits for its answer
  timeouts, resets

link == <<out, in, pos, waiting, timeouts, resets>>
allVars == <<vars, link>>

Acts    == Wanted.hdr.acts
Presses == Wanted.hdr.press
StopAt  == Acts + Presses + 2

\* The commands, by their position.
Script(q) ==
  CASE q = 1                       -> [cmd |-> "start", arg |-> Wanted.hdr]
    [] q \in 2 .. Acts + 1         -> [cmd |-> "act", arg |-> Wanted.act[q - 1]]
    [] q \in Acts + 2 .. StopAt - 1 -> [cmd |-> "press", arg |-> Wanted.press[q - 1 - Acts]]
    [] q = StopAt                  -> [cmd |-> "stop", arg |-> NULL]

ASSUME ScriptAssumption == \A q \in 1 .. StopAt : Script(q) # NULL

Done == pos > StopAt
-----------------------------------------------------------------------------
LinkInit ==
  /\ Init /\ table = AllClean
  /\ out = NULL /\ in = NULL
  /\ pos = 1 /\ waiting = FALSE /\ timeouts = 0 /\ resets = 0

HostSend ==
  /\ ~Done /\ ~waiting /\ out = NULL
  /\ out' = Script(pos) /\ waiting' = TRUE
  /\ UNCHANGED <<vars, in, pos, timeouts, resets>>

HostAnswer ==
  /\ waiting /\ in # NULL
  /\ pos' = IF in = "ok" THEN pos + 1 ELSE 1
  /\ waiting' = FALSE /\ in' = NULL
  /\ UNCHANGED <<vars, out, timeouts, resets>>

HostTimeout ==
  /\ waiting /\ timeouts < MaxTimeouts
  /\ pos' = 1 /\ waiting' = FALSE /\ timeouts' = timeouts + 1
  /\ UNCHANGED <<vars, out, in, resets>>

\* config_endpoint_out_callback(); a device that fails in it sends no answer.
Command ==
  \/ out.cmd = "start" /\ (AddStart(out.arg) \/ AddStartNoRoom)
  \/ out.cmd = "act"   /\ (Act(out.arg) \/ ActRefused)
  \/ out.cmd = "press" /\ (Press(out.arg) \/ PressRefused)
  \/ out.cmd = "stop"  /\ (AddStop \/ AddStopRefused)

Handle ==
  /\ out # NULL /\ Command
  /\ out' = NULL
  /\ in' = IF in = NULL /\ mode' = "up" THEN answer'.code ELSE in
  /\ UNCHANGED <<pos, waiting, timeouts, resets>>

\* Both endpoints lose their packets, and the host is told.
Lost ==
  /\ resets < MaxResets /\ resets' = resets + 1
  /\ out' = NULL /\ in' = NULL
  /\ \/ pos' = 1 /\ ~Done
     \/ pos' = pos /\ (timeouts = 0 \/ Done)
  /\ waiting' = FALSE
  /\ UNCHANGED timeouts

BusReset == Lost /\ UNCHANGED vars

\* Between two commands; ConfigSession has the power cuts inside of one.
PowerLost == Lost /\ PowerCycle

LinkNext == HostSend \/ HostAnswer \/ HostTimeout \/ Handle \/ BusReset \/ PowerLost

\* The device handles what it gets, and the host goes on until it is done.
LinkSpec ==
  /\ LinkInit /\ [][LinkNext]_allVars
  /\ WF_allVars(Handle) /\ WF_allVars(HostSend) /\ WF_allVars(HostAnswer)
-----------------------------------------------------------------------------
\* Whatever answers were dropped, late or taken for those of another command, and
\* whichever command was repeated after a reset: what is stored is the macro the host
\* wants, never one with a button missing, doubled or left over from a session that
\* was given up.
OnlyWanted == \A b \in Block : table[b] \in {CLEAN, Wanted}

\* When the host waits for its answers, the last one says what the storage holds.
DoneMeansStored ==
  Done /\ timeouts = 0 /\ (\E b \in Block : table[b] = CLEAN) =>
    \E b \in Block : table[b] = Wanted

\* Once nothing is late or lost any more, the host gets through: nothing that is left
\* of its earlier attempts, in the device or in the endpoints, holds it up for ever.
EventuallyDone == <>Done
==============================================================================
