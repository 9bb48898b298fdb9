------------------------------ MODULE PadToHost ------------------------------
(* From the pad to the player's joystick: the samples of PadProtocol as a report *)
(* of gamepad_read() (MacroButtons; no macro is installed) on the wire of        *)
(* HidReports.                                                                   *)
EXTENDS PadProtocol, HidReports

Macros == INSTANCE MacroButtons WITH Programs <- {<<>>}

\* endpoint_in_callback(): what the host gets from interface iface when every pad
\* has the buttons S.
Received(iface, S) ==
  [pad |-> PadOf(EndpointOf(iface)), does |-> Decoded(iface, Bytes(Macros!ReportOf(S)))]

\* What the player means by them.
Does(S, b) == IF b \in S THEN 1 ELSE 0

Meant(S) ==
  {<<"button", Bit[b] + 1, Does(S, b)>> : b \in DOMAIN Bit}
    \cup {<<"desktop", "X", 127 * (IF "LEFT" \in S THEN -1 ELSE Does(S, "RIGHT"))>>,
          <<"desktop", "Y", 127 * (IF "UP" \in S THEN -1 ELSE Does(S, "DOWN"))>>}

\* A set of buttons reaches the host as what it is: report n comes from pad n, each
\* button has its number, and the axes their signs although the descriptor, the report
\* and the pad each have an encoding of their own; the configuration is no joystick.
Seen(S) ==
  \A i \in Ifaces :
    IF i \in Pads THEN Received(i, S) = [pad |-> i, does |-> Meant(S)]
    ELSE Received(i, S).does = {}

\* So does whatever was sampled.
HostSeesSamples == step = 0 => Seen(buttons)
==============================================================================
