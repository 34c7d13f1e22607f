------------------------------ MODULE MCSpool -------------------------------
(***************************************************************************)
(* Small spools: two sources whose frames alternate as in a collection     *)
(* cycle, and a new generation from the third process on.                  *)
(***************************************************************************)
EXTENDS SpoolInv

MCSourceOf == [r \in Record |-> IF r % 2 = 1 THEN "gpu" ELSE "host"]
MCSources == {"gpu", "host"}
UnitSize == [r \in Record |-> 1]
MCGenerationOf == [b \in 0 .. MaxBoots |-> IF b > 2 THEN "g2" ELSE "g1"]
=============================================================================
