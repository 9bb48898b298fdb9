---------------------------- MODULE BootSequence ----------------------------
(***************************************************************************)
(* main() up to its loop, with the functions of init.c, gpio.c, usb.c and  *)
(* gamepad.c that it calls, against the USB interrupt that usb_init()      *)
(* enables on the way.  Program is the sequence of what the start-up does  *)
(* to the chip and to the variables the interrupt uses.                    *)
(*                                                                         *)
(* On the chip a write to a port whose clock is off is lost; the pins      *)
(* PA15, PB3 and PB4 belong to the JTAG port until it is turned off; no    *)
(* character goes out of a serial port that is not enabled.  A delay is    *)
(* one of Delay, whose counter stands still until it is enabled.           *)
(***************************************************************************)
EXTENDS Delay, Sequences

CONSTANTS UnplugMs, BlinkMs     \* 10, 150

ASSUME BootAssumption == {UnplugMs, BlinkMs} \subseteq MsDelays

VARIABLES
  pc,           \* the next operation of Program
  clocked,      \* the ports and devices that have a clock
  pin,          \* what each pin is used for
  high,         \* the output pins that are set
  ready,        \* what else is initialised
  replugged,    \* did the host see the device go before it came?
  configured,   \* did it select the configuration?
  early,        \* did it send a command before storage_init() was through?
  mode          \* "up", or why the device stopped working

chip == <<clocked, pin, high, ready>>
counter == vars
bootVars == <<pc, chip, counter, replugged, configured, early, mode>>

Pin  == {"A", "B", "C"} \X (0 .. 15)
JTAG == {<<"A", 15>>, <<"B", 3>>, <<"B", 4>>}

\* The table of main.c: the lines data0 .. data5 and select of each pad.
Pads == 1 .. 4

Data == <<  [k \in 1 .. 6 |-> <<"A", k - 1>>],
            <<<<"A", 6>>, <<"A", 7>>, <<"A", 8>>, <<"A", 9>>, <<"A", 10>>, <<"A", 15>>>>,
            [k \in 1 .. 6 |-> <<"C", k - 1>>],
            [k \in 1 .. 6 |-> <<"C", k + 5>>] >>

Select == << <<"B", 0>>, <<"B", 1>>, <<"B", 2>>, <<"B", 3>> >>

\* The operations.  A piece of heap is ready when malloc() returns.
Clock(x)   == [op |-> "clock", arg |-> x]
Mode(p, m) == [op |-> "mode", arg |-> p, as |-> m]
Set(p)     == [op |-> "set", arg |-> p]
Reset(p)   == [op |-> "clear", arg |-> p]
Ready(x)   == [op |-> "ready", arg |-> x]
Malloc(x)  == << [op |-> "malloc", arg |-> x], Ready(x) >>
Sleep(ms)  == [op |-> "sleep", arg |-> ms]
Debugf     == [op |-> "print", arg |-> "uart"]
List       == [op |-> "list", arg |-> "buf"]
-----------------------------------------------------------------------------
DwtInit == << Ready("dwt") >>

UartInit ==
  << Clock("B"), Clock("USART1"), Clock("AFIO"), Ready("remap"),
     Mode(<<"B", 6>>, "tx"), Mode(<<"B", 7>>, "rx"), Ready("uart") >>

LedInit == << Clock("B"), Mode(<<"B", 9>>, "out"), Mode(<<"B", 10>>, "out") >>

\* The USB pull-up hangs on PB4: the device is plugged in while that is low.
UsbInit ==
  << Clock("A"), Clock("B"), Clock("USB"), Mode(<<"B", 4>>, "out"),
     Set(<<"B", 4>>), Sleep(UnplugMs), Reset(<<"B", 4>>),
     Ready("usbd_dev"), Ready("irq"), Ready("set_config") >>

Blink    == << Set(<<"B", 10>>), Sleep(BlinkMs), Reset(<<"B", 10>>), Sleep(BlinkMs) >>
Blinking == Blink \o Blink \o Blink \o Blink \o Blink

StorageInit == Malloc("buf")

\* (A plausible bug, like those below.)  Only the port of select gets its clock.
InitPortsSelect(i) == << Clock(Select[i][1]) >>

InitPorts(i) == [k \in 1 .. 6 |-> Clock(Data[i][k][1])] \o << Clock(Select[i][1]) >>

PadInit(i) ==
  InitPorts(i) \o [k \in 1 .. 6 |-> Mode(Data[i][k], "in")] \o << Mode(Select[i], "out") >>

GamepadsInit ==
  Malloc("buttons") \o Malloc("macros") \o PadInit(1) \o PadInit(2) \o PadInit(3) \o PadInit(4)

GamepadsEn == << Reset(<<"B", 8>>) >>
-----------------------------------------------------------------------------
\* Plausible bugs, told apart by a property below; no part of the specification.

\* The serial port, which turns JTAG off, is initialised after the banner, ...
ProgramUartLate ==
  DwtInit \o LedInit \o UsbInit \o << Debugf >> \o UartInit \o Blinking
    \o << Debugf >> \o GamepadsInit \o << Debugf >> \o StorageInit \o << List >> \o GamepadsEn

\* ... or the storage before the gamepads.
ProgramStorageFirst ==
  DwtInit \o UartInit \o LedInit \o UsbInit \o << Debugf >> \o Blinking
    \o << Debugf >> \o StorageInit \o << Debugf >> \o GamepadsInit \o << List >> \o GamepadsEn

Program ==
  DwtInit \o UartInit \o LedInit \o UsbInit \o << Debugf >> \o Blinking
    \o << Debugf >> \o GamepadsInit \o << Debugf >> \o StorageInit \o << List >> \o GamepadsEn

Booted == pc > Len(Program)

BootInit ==
  /\ Init /\ pc = 1 /\ clocked = {} /\ pin = [p \in Pin |-> "reset"] /\ high = {}
  /\ ready = {} /\ replugged = FALSE
  /\ configured = FALSE /\ early = FALSE /\ mode = "up"

\* A pin does what it was set up for.
Free(p) == p \notin JTAG \/ "remap" \in ready
Does(p, m) == pin[p] = m /\ Free(p)

\* The next operation; a delay ends before the one after it.
Main ==
  LET o == Program[pc]
  IN  /\ mode = "up" /\ ~Booted /\ ~waiting
      /\ o.op = "print" => o.arg \in ready
      /\ pc' = pc + 1
      /\ clocked' = IF o.op = "clock" THEN clocked \cup {o.arg} ELSE clocked
      /\ pin' = IF o.op = "mode" /\ o.arg[1] \in clocked
                THEN [pin EXCEPT ![o.arg] = o.as] ELSE pin
      /\ high' = CASE o.op = "set"   -> high \cup {o.arg}
                   [] o.op = "clear" -> high \ {o.arg}
                   [] OTHER          -> high
      /\ ready' = IF o.op = "ready" THEN ready \cup {o.arg} ELSE ready
      /\ IF o.op = "sleep" THEN \E ms \in MsDelays : ms = o.arg /\ CallMsleep(ms)
         ELSE UNCHANGED counter
      /\ mode' = IF o.op = "list" /\ o.arg \notin ready THEN "null" ELSE "up"
      /\ UNCHANGED <<replugged, configured, early>>

\* The host sees what the pull-up did all through a delay.
Wait(g) ==
  /\ mode = "up" /\ "dwt" \in ready /\ Look(g)
  /\ replugged' = (replugged \/ (/\ ~waiting' /\ elapsed' >= wanted
                                 /\ Does(<<"B", 4>>, "out") /\ <<"B", 4>> \in high))
  /\ UNCHANGED <<pc, chip, configured, early, mode>>

\* The counter runs on, which matters at the next delay.
Meanwhile(g) ==
  /\ mode = "up" /\ "dwt" \in ready /\ Run(g)
  /\ ~Booted => Program[pc].op = "sleep"
  /\ UNCHANGED <<pc, chip, replugged, configured, early, mode>>

\* The host takes some 100 ms from the plugging in to this, main() some
\* microseconds to the end of usb_init().
SetConfig ==
  /\ mode = "up" /\ "set_config" \in ready /\ ~configured
  /\ configured' = TRUE
  /\ UNCHANGED <<pc, chip, counter, replugged, early, mode>>

\* The interrupt may wait itself, see ReadPad, but not for itself.
Interrupted ==
  /\ mode = "up" /\ configured /\ (Booted => ~waiting)
  /\ UNCHANGED <<pc, chip, replugged, configured>>

\* ADD_START allocates the staged macro, in the middle of a malloc() maybe.
AddStart ==
  /\ Interrupted /\ UNCHANGED counter
  /\ early' = (early \/ "buf" \notin ready)
  /\ mode' = IF ~Booted /\ pc > 1 /\ Program[pc - 1].op = "malloc" THEN "heap" ELSE mode

\* ADD_STOP and CLEAR use the page buffer and the lists of macros.
Store ==
  /\ Interrupted /\ UNCHANGED counter
  /\ early' = (early \/ "buf" \notin ready)
  /\ mode' = IF {"buf", "macros"} \subseteq ready THEN mode ELSE "null"

\* A report needs gamepad_read(), which waits after each edge of select.
ReadPad ==
  /\ Interrupted /\ Booted /\ UNCHANGED <<early, mode>>
  /\ \E us \in UsDelays : CallUsleep(us)

\* After a bad access the chip runs in circles in the fault handler.
Stopped == mode # "up" /\ UNCHANGED bootVars

BootNext ==
  \/ Main \/ SetConfig \/ AddStart \/ Store \/ ReadPad \/ Stopped
  \/ \E g \in Gaps : Wait(g) \/ Meanwhile(g)

\* Nothing keeps main() and its delays from going on for ever.
BootSpec ==
  /\ BootInit /\ [][BootNext]_bootVars
  /\ WF_bootVars(Main) /\ WF_bootVars(\E g \in Gaps : Wait(g))
-----------------------------------------------------------------------------
\* When the loop begins, each of the 28 lines of the pads, the serial port, the LEDs
\* and the USB pull-up does what the board has it for: nothing was lost to a port
\* without a clock or to JTAG, and no two of the pads' are on the same pin.  Every pin
\* that main() sets or clears on the way is an output, except the one that
\* gamepads_en() is about: PB8 is not set up for anything, and clearing it does nothing.
WiredUp ==
  Booted =>
    /\ \A i \in Pads : /\ \A k \in 1 .. 6 : Does(Data[i][k], "in")
                       /\ Does(Select[i], "out")
    /\ \A i, j \in Pads : /\ Select[i] = Select[j] => i = j
                          /\ \A k, l \in 1 .. 6 : Data[i][k] = Data[j][l] => i = j /\ k = l
    /\ Does(<<"B", 6>>, "tx") /\ Does(<<"B", 7>>, "rx")
    /\ Does(<<"B", 9>>, "out") /\ Does(<<"B", 4>>, "out") /\ <<"B", 4>> \notin high
    /\ \A n \in 1 .. Len(Program) :
         Program[n].op \in {"set", "clear"} =>
           Does(Program[n].arg, IF Program[n].arg = <<"B", 8>> THEN "reset" ELSE "out")

\* The host sees the device go before it comes, also when only the chip was reset: the
\* 10 ms on PB4 are real, though that pin is JTAG's when the chip starts.
SeenToGo == "irq" \in ready => replugged

\* The start-up and the interrupt use the same heap and variables without a lock.
\* storage_init() is what makes that safe: a device that stopped working got a command
\* before it was through.
OnlyEarlyFaults == mode # "up" => early

\* The start-up ends, whatever the host does, or the device has stopped working.
BootEnds == <>(Booted \/ mode # "up")
=============================================================================
