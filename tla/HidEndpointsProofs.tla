-------------------------- MODULE HidEndpointsProofs --------------------------
(***************************************************************************)
(* The IN endpoints, for any number of pads.                               *)
(***************************************************************************)
EXTENDS HidEndpoints, TLAPS

\* Until main() has come to its loop no endpoint has a packet, so none can have
\* been fetched.
QuietUntilLoop ==
  stage < 4 => step = "check" /\ irq = {} /\ \A e \in Ep : ep[e] # "armed"

\* What the main loop found when it looked is still so when it writes: the endpoint
\* has no packet, and nobody is about to give it one.
StillIdle ==
  ~late /\ step # "check" => ep[cursor] # "armed" /\ cursor \notin irq

IInv == TypeOK /\ QuietUntilLoop /\ NeverReadsEarly /\ StillIdle

LEMMA Progresses ==
  ASSUME TypeOK
  PROVE  /\ stage \in 0 .. 4 /\ (stage < 4 => stage + 1 \in 0 .. 4) /\ (~(stage < 4) => stage = 4)
         /\ NextPad \in Ep
<1>1. stage \in 0 .. 4
  BY DEF TypeOK
<1>2. cursor \in Ep
  BY DEF TypeOK
<1>3. NumPads \in Nat \ {0}
  BY EndpointsAssumption
<1>4. NextPad \in Ep
  BY <1>2, <1>3 DEF NextPad, Ep
<1> QED  BY <1>1, <1>4

LEMMA TypeStep == TypeOK /\ [Next]_vars => TypeOK'
<1> SUFFICES ASSUME TypeOK, [Next]_vars PROVE TypeOK'
  OBVIOUS
<1> USE DEF TypeOK
<1>1. CASE Startup
  <2>1. stage' \in 0 .. 4
    BY <1>1, Progresses DEF Startup
  <2> QED  BY <1>1, <2>1 DEF Startup
<1>2. CASE PollBusy \/ PollArm
  <2>1. cursor' \in Ep
    BY <1>2, Progresses DEF PollBusy, PollArm
  <2> QED  BY <1>2, <2>1 DEF PollBusy, PollArm
<1>3. CASE PollCheck \/ PollNoDevice
  BY <1>3 DEF PollCheck, PollNoDevice, main
<1>3a. CASE PollFill
  BY <1>3a DEF PollFill
<1>4. ASSUME NEW e \in Ep, InCallback(e) PROVE TypeOK'
  <2>1. PadRead(e) \in Buttons
    BY DEF PadRead
  <2>2. packet' \in [Ep -> Buttons \cup {EMPTY}] /\ ep' \in [Ep -> {"off", "idle", "armed"}]
    BY <1>4, <2>1 DEF InCallback
  <2>3. irq' \subseteq Ep /\ mode' \in {"up", "null device", "early read", "early command"}
    BY <1>4 DEF InCallback
  <2> QED  BY <1>4, <2>2, <2>3 DEF InCallback, main
<1>5. ASSUME NEW e \in Ep, HostPoll(e) PROVE TypeOK'
  BY <1>5 DEF HostPoll, main
<1>6. ASSUME NEW e \in Ep, NEW b \in Buttons, Press(e, b) PROVE TypeOK'
  BY <1>6 DEF Press, main
<1>7. CASE SetConfig \/ BusReset \/ EarlyCommand
  BY <1>7 DEF SetConfig, BusReset, EarlyCommand, main
<1>8. CASE UNCHANGED vars
  BY <1>8 DEF vars
<1> QED
  BY <1>1, <1>2, <1>3, <1>3a, <1>4, <1>5, <1>6, <1>7, <1>8 DEF Next, Main

LEMMA Inductive == IInv /\ [Next]_vars => IInv'
<1> SUFFICES ASSUME IInv, [Next]_vars PROVE QuietUntilLoop' /\ NeverReadsEarly' /\ StillIdle'
  BY TypeStep DEF IInv
<1> USE DEF IInv, TypeOK, QuietUntilLoop, NeverReadsEarly, StillIdle
<1>1. CASE Startup
  BY <1>1 DEF Startup
<1>2. CASE PollBusy \/ PollArm
  BY <1>2 DEF PollBusy, PollArm
<1>3. CASE PollCheck
  BY <1>3 DEF PollCheck, MainRuns
<1>4. CASE PollNoDevice \/ PollFill
  BY <1>4 DEF PollNoDevice, PollFill, main
<1>5. ASSUME NEW e \in Ep, InCallback(e)
      PROVE QuietUntilLoop' /\ NeverReadsEarly' /\ StillIdle'
  <2>1. e \in irq /\ irq' = irq \ {e} /\ UNCHANGED <<late, main>>
    BY <1>5 DEF InCallback
  <2>3. stage = 4
    BY <2>1, Progresses
  <2>4. mode' = mode
    BY <1>5, <2>3 DEF InCallback
  <2>2. \A f \in Ep \ {e} : ep'[f] = ep[f]
    BY <1>5 DEF InCallback
  <2> QED  BY <2>1, <2>2, <2>3, <2>4 DEF main
<1>6. ASSUME NEW e \in Ep, HostPoll(e)
      PROVE QuietUntilLoop' /\ NeverReadsEarly' /\ StillIdle'
  BY <1>6 DEF HostPoll, main
<1>7. ASSUME NEW e \in Ep, NEW b \in Buttons, Press(e, b)
      PROVE QuietUntilLoop' /\ NeverReadsEarly' /\ StillIdle'
  BY <1>7 DEF Press, main
<1>8. CASE SetConfig \/ BusReset \/ EarlyCommand
  BY <1>8 DEF SetConfig, BusReset, EarlyCommand, main
<1>9. CASE UNCHANGED vars
  BY <1>9 DEF vars
<1> QED
  BY <1>1, <1>2, <1>3, <1>4, <1>5, <1>6, <1>7, <1>8, <1>9 DEF Next, Main

LEMMA Invariant == Spec => []IInv
<1>1. Init => IInv
  <2> SUFFICES ASSUME Init PROVE IInv
    OBVIOUS
  <2>1. 1 \in Ep
    BY EndpointsAssumption DEF Ep
  <2>2. stage \in 0 .. 4 /\ cursor \in Ep
    BY <2>1 DEF Init
  <2>3. TypeOK
    BY <2>2 DEF Init, TypeOK
  <2> QED  BY <2>3 DEF Init, IInv, QuietUntilLoop, NeverReadsEarly, StillIdle
<1> QED  BY <1>1, Inductive, PTL DEF Spec

\* The variables keep their types.
THEOREM TypeCorrect == Spec => []TypeOK
<1>1. IInv => TypeOK
  BY DEF IInv
<1> QED  BY <1>1, Invariant, PTL

\* No pad is read while gamepads_init() runs, whatever the bus does meanwhile and
\* however late interrupts are served.
THEOREM NoEarlyRead == Spec => []NeverReadsEarly
<1>1. IInv => NeverReadsEarly
  BY DEF IInv
<1> QED  BY <1>1, Invariant, PTL

\* If interrupts are served at once, a packet that waits for the host is not
\* overwritten.
THEOREM ReportsKept == Spec => ReportsStay
<1> DEFINE Kept == ~late => \A e \in Ep : ep[e] = "armed" /\ ep'[e] = "armed" => packet'[e] = packet[e]
<1>1. IInv /\ [Next]_vars => [Kept]_vars
  <2> SUFFICES ASSUME IInv, Next PROVE Kept
    OBVIOUS
  <2> USE DEF IInv, TypeOK
  <2>1. CASE PollFill
    BY <2>1 DEF PollFill, StillIdle
  <2>2. ASSUME NEW e \in Ep, InCallback(e) PROVE Kept
    BY <2>2 DEF InCallback
  <2>3. CASE SetConfig \/ BusReset \/ EarlyCommand \/ Startup \/ PollBusy \/ PollCheck
             \/ PollNoDevice \/ PollArm
    BY <2>3 DEF SetConfig, BusReset, EarlyCommand, Startup, PollBusy, PollCheck, PollNoDevice, PollArm
  <2>4. ASSUME NEW e \in Ep, HostPoll(e) PROVE Kept
    BY <2>4 DEF HostPoll
  <2>5. ASSUME NEW e \in Ep, NEW b \in Buttons, Press(e, b) PROVE Kept
    BY <2>5 DEF Press
  <2> QED  BY <2>1, <2>2, <2>3, <2>4, <2>5 DEF Next, Main
<1> QED  BY <1>1, Invariant, PTL DEF ReportsStay, Spec
===============================================================================
