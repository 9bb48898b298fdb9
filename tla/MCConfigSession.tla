--------------------------- MODULE MCConfigSession ---------------------------
(* A host that also sends headers without buttons; two blocks in one page.  *)
EXTENDS ConfigSession, TLC

CONSTANTS x, y

MCPageOf == [b \in 0 .. 1 |-> 0]

MCHeader == { [acts |-> 1, press |-> 1, pads |-> {0}],
              [acts |-> 1, press |-> 2, pads |-> {0, 1}],
              [acts |-> 1, press |-> 0, pads |-> {0}],
              [acts |-> 0, press |-> 0, pads |-> {0}] }

\* Scaled down with the headers: the second byte is 8 in the device.
MCNullHeader == [acts |-> 0, press |-> 2, pads |-> {}]

MCMacro  == UNION {[press : [1 .. h.press -> {x, y}], hdr : {h}, act : [1 .. h.acts -> {x, y}]]
                     : h \in MCHeader}
\* The two button entries are told apart, not ordered.
MCSymmetry == Permutations({x, y})

\* No step and no property depends on the last answer, only on the next one.
MCView == <<table, mode, staging, installed, heap, changed, host>>

MCNameOf == [m \in MCMacro |-> "name"]
==============================================================================
