---------------------------- MODULE MCFullStorage ----------------------------
(* A host that knows the protocol: every header has buttons.  Three blocks, two *)
(* of them in one page.                                                         *)
EXTENDS ConfigSession

CONSTANT x

MCPageOf == [b \in 0 .. 2 |-> b \div 2]

MCHeader == { [acts |-> 1, press |-> 1, pads |-> {0}],
              [acts |-> 1, press |-> 2, pads |-> {0, 1}],
              [acts |-> 2, press |-> 1, pads |-> {1}] }

\* Scaled down with the headers: the second byte is 8 in the device.
MCNullHeader == [acts |-> 0, press |-> 2, pads |-> {}]

MCMacro  == UNION {[press : [1 .. h.press -> {x}], hdr : {h}, act : [1 .. h.acts -> {x}]]
                     : h \in MCHeader}
MCNameOf == [m \in MCMacro |-> "name"]
===============================================================================
