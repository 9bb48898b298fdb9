----------------------------- MODULE HidReports -----------------------------
(***************************************************************************)
(* The report descriptors of usb_hid.c and the reports they describe, as   *)
(* functions.  The device has four joysticks and an interface for the      *)
(* configuration.  A host reads the report descriptor of each item by item *)
(* as the HID specification says, and takes the reports apart by what it   *)
(* was told.                                                               *)
(***************************************************************************)
EXTENDS Integers, Sequences

Pads   == 0 .. 3
Ifaces == 0 .. 4

\* gamepad_read()'s bits for the buttons.
Bit == [A |-> 0, B |-> 1, C |-> 2, X |-> 3, Y |-> 4, Z |-> 5, START |-> 6, MODE |-> 7]

Item(i, v) == [item |-> i, v |-> v]

\* (uint8_t) v, of a number from -128 to 255.
Byte(v) == IF v < 0 THEN v + 256 ELSE v

\* (A plausible bug.)  The axes have the limits of the buttons.
JoystickUnsigned ==
  << Item("page", "desktop"), Item("usage", "joystick"), Item("collection", 0),
     Item("collection", 0),
       Item("page", "button"), Item("umin", 1), Item("umax", 8),
       Item("lmin", 0), Item("lmax", 1), Item("count", 8), Item("size", 1), Item("input", 0),
     Item("end", 0), Item("collection", 0),
       Item("page", "desktop"), Item("usage", "X"), Item("usage", "Y"),
       Item("size", 8), Item("count", 2), Item("input", 0),
     Item("end", 0), Item("end", 0) >>

\* hid_report_descriptor and hid_config_report_descriptor.  The values are bytes.
Joystick ==
  << Item("page", "desktop"), Item("usage", "joystick"), Item("collection", 0),
     Item("collection", 0),
       Item("page", "button"), Item("umin", 1), Item("umax", 8),
       Item("lmin", 0), Item("lmax", 1), Item("count", 8), Item("size", 1), Item("input", 0),
     Item("end", 0), Item("collection", 0),
       Item("page", "desktop"), Item("usage", "X"), Item("usage", "Y"),
       Item("lmin", Byte(-127)), Item("lmax", 127), Item("size", 8), Item("count", 2),
       Item("input", 0),
     Item("end", 0), Item("end", 0) >>

Config ==
  << Item("page", "device"), Item("usage", "undefined"), Item("collection", 0),
       Item("lmin", 0), Item("lmax", 255), Item("size", 8), Item("count", 64),
       Item("usage", "undefined"),
     Item("end", 0) >>

\* hid_control_request(), by wIndex; wValue and wLength are not looked at.
ReportDescriptor(iface) == IF iface = 4 THEN Config ELSE Joystick

\* The endpoint in the descriptor of an interface, the size of a joystick's, and the
\* pad that endpoint_in_callback() reads for it.
EndpointOf(iface) == iface + 1
MaxPacket == 4
PadOf(ep) == ep - 1

\* The report: one byte of buttons and two of axes.
Bytes(r) ==
  LET V(b) == IF b \in r.buttons THEN 2 ^ Bit[b] ELSE 0
  IN  << V("A") + V("B") + V("C") + V("X") + V("Y") + V("Z") + V("START") + V("MODE"),
         Byte(r.x), Byte(r.y) >>
-----------------------------------------------------------------------------
\* The host.  A byte that says 128 or more is negative; usages and their range hold for
\* one main item, the rest until it is changed.
SByte(v) == IF v >= 128 THEN v - 256 ELSE v

Fresh == [page |-> "none", usage |-> <<>>, umin |-> 0, umax |-> 0, lmin |-> 0, lmax |-> 0,
          size |-> 0, count |-> 0, depth |-> 0, is |-> "none", fields |-> {}, bits |-> 0]

UsageOf(s, k) == IF s.usage = <<>> THEN s.umin + k - 1 ELSE s.usage[k]

InputFields(s) ==
  {[page |-> s.page, usage |-> UsageOf(s, k), at |-> s.bits + (k - 1) * s.size,
    size |-> s.size, signed |-> s.lmin < 0] : k \in 1 .. s.count}

Local(s) == [s EXCEPT !.usage = <<>>, !.umin = 0, !.umax = 0]

Taken(s, i) ==
  CASE i.item \in {"lmin", "lmax"} -> [s EXCEPT ![i.item] = SByte(i.v)]
    [] i.item = "usage"      -> [s EXCEPT !.usage = Append(@, i.v)]
    [] i.item = "collection" ->
         Local([s EXCEPT !.depth = @ + 1,
                         !.is = IF s.depth = 0 THEN UsageOf(s, 1) ELSE @])
    [] i.item = "end"        -> Local([s EXCEPT !.depth = @ - 1])
    [] i.item = "input"      ->
         Local([s EXCEPT !.fields = @ \cup InputFields(s), !.bits = @ + s.count * s.size])
    [] OTHER                 -> [s EXCEPT ![i.item] = i.v]

\* What the host knows after the first n items, and at last, of an interface.
Parsed(d) ==
  LET parsed[n \in 0 .. Len(d)] == IF n = 0 THEN Fresh ELSE Taken(parsed[n - 1], d[n])
  IN  parsed

Known(iface) == LET d == ReportDescriptor(iface) IN Parsed(d)[Len(d)]

\* The report as one number, its first byte the lowest, and the value of a field in it.
Whole(bytes) == bytes[1] + 256 * bytes[2] + 65536 * bytes[3]

Value(n, f) ==
  LET v == (n \div 2 ^ f.at) % 2 ^ f.size
  IN  IF f.signed /\ v >= 2 ^ (f.size - 1) THEN v - 2 ^ f.size ELSE v

\* What the host makes of three bytes from an interface: something that a joystick
\* does, if the interface is one and sends reports of that length.
Decoded(iface, bytes) ==
  LET d == Known(iface)
  IN  IF d.is # "joystick" \/ d.depth # 0 \/ d.bits # 24 \/ MaxPacket < 3 THEN {}
      ELSE {<<f.page, f.usage, Value(Whole(bytes), f)>> : f \in d.fields}
=============================================================================
