---------------------------- MODULE MCConfigLink ----------------------------
(* A macro of two act buttons and two press entries, different in each. *)
EXTENDS ConfigLink

MCPageOf == [b \in 0 .. 1 |-> 0]

MCHdr    == [acts |-> 2, press |-> 2, pads |-> {0}]
MCHeader == {MCHdr}

\* As many press entries as a macro has, which 8 is for some macro.
MCNullHeader == [acts |-> 0, press |-> 2, pads |-> {}]

MCMacro  == [hdr : {MCHdr}, act : [1 .. 2 -> Button], press : [1 .. 2 -> Button]]
MCNameOf == [m \in MCMacro |-> "name"]

MCWanted == [hdr |-> MCHdr, act |-> <<1, 2>>, press |-> <<2, 1>>]
==============================================================================
