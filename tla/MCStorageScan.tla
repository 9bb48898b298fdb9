---------------------------- MODULE MCStorageScan ----------------------------
(* The whole area of 128 blocks at its real offsets.  Around the first, the   *)
(* middle and the last page boundary: nothing is free, one block, all from    *)
(* one block on, all but one.                                                 *)
EXTENDS StorageScan

Corners == {0, 7, 8, 63, 64, 127}

MCAreas ==
  {{}} \cup {{b} : b \in Corners} \cup {b .. 127 : b \in Corners}
       \cup {Block \ {b} : b \in Corners}
==============================================================================
