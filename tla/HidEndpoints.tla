----------------------------- MODULE HidEndpoints -----------------------------
(***************************************************************************)
(* main() against the USB interrupt.  The interrupt is enabled by          *)
(* usb_init(), before the gamepads and the storage are initialised.  Then  *)
(* the main loop calls usb_hid_poll() for ever, which writes an empty      *)
(* packet to every IN endpoint that has none; the callback of the packet   *)
(* that the host fetched writes the next one, a report.                    *)
(*                                                                         *)
(* usbd_ep_write_packet() of libopencm3 refuses when the endpoint has a    *)
(* packet, else copies the data and arms the endpoint; the main loop may   *)
(* be interrupted between the three, the interrupt is not.                 *)
(***************************************************************************)
EXTENDS Integers

CONSTANTS
  NumPads,      \* 4
  Buttons,      \* what a pad may have pressed, as its report
  EMPTY         \* a packet of length zero

ASSUME EndpointsAssumption ==
  /\ NumPads \in Nat \ {0}
  /\ EMPTY \notin Buttons

Ep == 1 .. NumPads

VARIABLES
  stage,        \* how far main() is, see Startup
  cursor, step, \* where usb_hid_poll() is
  dev,          \* usb_hid.c's usbd_dev is not NULL
  configured,   \* the host has selected the configuration
  ep,           \* each IN endpoint is "off", "idle" or "armed"
  packet,       \* what its packet memory holds
  irq,          \* the endpoints whose packet was fetched, not handled yet
  pad,          \* what is pressed
  seen,         \* the last report the host got from each endpoint
  mode,         \* "up", or why the device stopped working
  late          \* may the main loop go on while an interrupt is pending?

vars == <<late, stage, cursor, step, dev, configured, ep, packet, irq, pad, seen, mode>>
main == <<stage, cursor, step>>

\* The main program runs while no interrupt does.
MainRuns == mode = "up" /\ (late \/ irq = {})
-------------------------------------------------------------------------------
\* Plausible bugs, told apart by a property below; no part of the specification.

\* usb_hid_poll() leaves out the last endpoint ...
NextPadSkips == IF cursor + 1 >= NumPads THEN 1 ELSE cursor + 1

\* ... or does not care whether the endpoint has a packet.
PollCheckless ==
  /\ MainRuns /\ stage = 4 /\ step = "check" /\ dev
  /\ step' = "fill"
  /\ UNCHANGED <<late, stage, cursor, dev, configured, ep, packet, irq, pad, seen, mode>>

\* usb_hid_setconfig() queues the first packets itself.
SetConfigArms ==
  /\ mode = "up" /\ ~configured
  /\ dev' = TRUE /\ configured' = TRUE
  /\ ep' = [e \in Ep |-> "armed"] /\ packet' = [e \in Ep |-> EMPTY]
  /\ irq' = {}
  /\ UNCHANGED <<late, main, pad, seen, mode>>

\* endpoint_in_callback() has the same pad in all its cases.
PadRead1(e) == pad[1]
-------------------------------------------------------------------------------
Init ==
  /\ stage = 0 /\ cursor = 1 /\ step = "check"
  /\ dev = FALSE /\ configured = FALSE
  /\ ep = [e \in Ep |-> "off"] /\ packet = [e \in Ep |-> EMPTY] /\ irq = {}
  /\ pad \in [Ep -> Buttons] /\ seen = [e \in Ep |-> EMPTY]
  /\ mode = "up" /\ late \in BOOLEAN

NextPad == IF cursor = NumPads THEN 1 ELSE cursor + 1

\* main() from the start-up blinking (stage 0) on: gamepads_init() first sets
\* gamepad_gpio (1), then allocates and fills the arrays (2); storage_init() (3);
\* the loop (4).
Startup ==
  /\ MainRuns /\ stage < 4
  /\ stage' = stage + 1
  /\ UNCHANGED <<late, cursor, step, dev, configured, ep, packet, irq, pad, seen, mode>>

\* usb_hid_poll(), one endpoint after the other: the test of
\* usbd_ep_write_packet() for a packet that is waiting ...
PollBusy ==
  /\ MainRuns /\ stage = 4 /\ step = "check" /\ dev
  /\ ep[cursor] = "armed"
  /\ cursor' = NextPad
  /\ UNCHANGED <<late, stage, step, dev, configured, ep, packet, irq, pad, seen, mode>>

PollCheck ==
  /\ MainRuns /\ stage = 4 /\ step = "check" /\ dev
  /\ ep[cursor] # "armed"
  /\ step' = "fill"
  /\ UNCHANGED <<late, stage, cursor, dev, configured, ep, packet, irq, pad, seen, mode>>

\* ... which follows a null pointer before the host has configured the device ...
PollNoDevice ==
  /\ MainRuns /\ stage = 4 /\ step = "check" /\ ~dev
  /\ mode' = "null device"
  /\ UNCHANGED <<late, main, dev, configured, ep, packet, irq, pad, seen>>

\* ... the copy of nothing, and the arming.
PollFill ==
  /\ MainRuns /\ stage = 4 /\ step = "fill"
  /\ packet' = [packet EXCEPT ![cursor] = EMPTY]
  /\ step' = "arm"
  /\ UNCHANGED <<late, stage, cursor, dev, configured, ep, irq, pad, seen, mode>>

PollArm ==
  /\ MainRuns /\ stage = 4 /\ step = "arm"
  /\ ep' = [ep EXCEPT ![cursor] = "armed"]
  /\ step' = "check" /\ cursor' = NextPad
  /\ UNCHANGED <<late, stage, dev, configured, packet, irq, pad, seen, mode>>

Main == Startup \/ PollBusy \/ PollCheck \/ PollNoDevice \/ PollFill \/ PollArm

\* gamepad_read() of the endpoint's pad (endpoints count from 1, pads from 0).
PadRead(e) == pad[e]

\* endpoint_in_callback(): nothing before gamepads_init(), a fault in the middle of
\* it, else a report, which a packet of the main loop may have forestalled.
InCallback(e) ==
  /\ mode = "up" /\ e \in irq
  /\ irq' = irq \ {e}
  /\ mode' = IF stage = 1 THEN "early read" ELSE mode
  /\ IF stage >= 2 /\ ep[e] # "armed"
     THEN packet' = [packet EXCEPT ![e] = PadRead(e)] /\ ep' = [ep EXCEPT ![e] = "armed"]
     ELSE UNCHANGED <<packet, ep>>
  /\ UNCHANGED <<late, main, dev, configured, pad, seen>>

\* A command that uses the storage before storage_init(): buf is NULL.
EarlyCommand ==
  /\ mode = "up" /\ configured /\ stage < 3
  /\ mode' = "early command"
  /\ UNCHANGED <<late, main, dev, configured, ep, packet, irq, pad, seen>>

\* usb_hid_setconfig(), when the host selects the configuration: usbd_ep_setup()
\* leaves the endpoints without a packet.
SetConfig ==
  /\ mode = "up" /\ ~configured
  /\ dev' = TRUE /\ configured' = TRUE
  /\ ep' = [e \in Ep |-> "idle"] /\ irq' = {}
  /\ UNCHANGED <<late, main, packet, pad, seen, mode>>

\* A bus reset turns the endpoints off; dev keeps its value.
BusReset ==
  /\ mode = "up"
  /\ configured' = FALSE
  /\ ep' = [e \in Ep |-> "off"] /\ irq' = {}
  /\ UNCHANGED <<late, main, dev, packet, pad, seen, mode>>

\* The host polls an endpoint and fetches its packet.
HostPoll(e) ==
  /\ mode = "up" /\ configured /\ ep[e] = "armed"
  /\ ep' = [ep EXCEPT ![e] = "idle"] /\ irq' = irq \cup {e}
  /\ seen' = IF packet[e] = EMPTY THEN seen ELSE [seen EXCEPT ![e] = packet[e]]
  /\ UNCHANGED <<late, main, dev, configured, packet, pad, mode>>

\* Somebody plays.
Press(e, b) ==
  /\ mode = "up"
  /\ pad' = [pad EXCEPT ![e] = b]
  /\ UNCHANGED <<late, main, dev, configured, ep, packet, irq, seen, mode>>

Next ==
  \/ Main \/ SetConfig \/ BusReset \/ EarlyCommand
  \/ \E e \in Ep : InCallback(e) \/ HostPoll(e) \/ \E b \in Buttons : Press(e, b)

Spec == Init /\ [][Next]_vars

\* The interrupt is served, an endpoint of a configured device is polled (every 2
\* ms, bInterval), and between two interrupts the main loop gets to run.
FairSpec ==
  /\ Spec
  /\ SF_vars(Main)
  /\ \A e \in Ep : WF_vars(InCallback(e)) /\ WF_vars(HostPoll(e))
-------------------------------------------------------------------------------
TypeOK ==
  /\ stage \in 0 .. 4 /\ cursor \in Ep /\ step \in {"check", "fill", "arm"}
  /\ dev \in BOOLEAN /\ configured \in BOOLEAN
  /\ ep \in [Ep -> {"off", "idle", "armed"}]
  /\ packet \in [Ep -> Buttons \cup {EMPTY}]
  /\ irq \subseteq Ep
  /\ pad \in [Ep -> Buttons] /\ seen \in [Ep -> Buttons \cup {EMPTY}]
  /\ mode \in {"up", "null device", "early read", "early command"}
  /\ late \in BOOLEAN

\* gamepad_read() tests gamepad_gpio, which gamepads_init() sets before it has
\* allocated what gamepad_read() uses, with the interrupt enabled.  It is never
\* called in between, because the first packet an endpoint can report as fetched
\* is one that the main loop wrote.
NeverReadsEarly == mode # "early read"

\* With an interrupt that is served at once, the main loop never writes to an
\* endpoint whose packet is waiting: a report that was written stays until the
\* host fetches it.
ReportsStay ==
  [][~late => \A e \in Ep :
        ep[e] = "armed" /\ ep'[e] = "armed" => packet'[e] = packet[e]]_vars

\* An endpoint of a device that stays configured is served for ever, whatever the
\* main loop and the interrupt did to each other's packets and however often the
\* bus was reset before.
StaysUp == configured /\ mode = "up"

AlwaysServed ==
  <>[]StaysUp => \A e \in Ep : []<><<HostPoll(e)>>_vars

\* The main loop and the interrupt met over one packet: a late callback found the
\* endpoint armed and queued no report, or the main loop emptied a waiting packet.
Crossed ==
  \E e \in Ep :
     /\ ep[e] = "armed"
     /\ InCallback(e) \/ (ep'[e] = "armed" /\ packet'[e] # packet[e])

\* A pad that is held still is reported: however often late interrupts made the
\* main loop and the callback cross before, once they no longer do the host sees
\* in the end what is pressed.
HostSeesPads ==
  <>[]StaysUp /\ <>[][pad' = pad]_vars /\ <>[][~Crossed]_vars
    => \A e \in Ep : <>[](seen[e] = pad[e])

\* The three interrupt handlers of usb.c test their pointer to the device before
\* they use it; the main loop should not use its own before it is set.
PollNeedsDevice == mode # "null device"
===============================================================================
