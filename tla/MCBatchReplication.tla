------------------------- MODULE MCBatchReplication -------------------------
(* BatchReplication on small instances.                                    *)
EXTENDS BatchReplication, TLC

CONSTANT OtherRegion  \* the slaves that are not in the first region

MCRegion == [s \in Slaves |-> IF s \in OtherRegion THEN "eu" ELSE "asia"]

(* Slaves of one region are interchangeable, and so are the contents.      *)
Symmetry ==
  {f \in Permutations(Slaves) : \A s \in OtherRegion : f[s] \in OtherRegion}
    \cup Permutations(TxSets)
=============================================================================
