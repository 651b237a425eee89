-------------------------- MODULE MCPinnedIndexes --------------------------
(* No bundle at the start, one version that fails its check and one that is *)
(* sound or absent: a change or a reload leads to every other pair.         *)
EXTENDS PinnedIndexes

MCInit ==
    /\ Init
    /\ served = None
    /\ LET v == CHOOSE v \in Versions : TRUE IN disk[v] = "tampered"
    /\ \E v \in Versions : disk[v] \in {"ok", "absent"}

MCFairSpec == MCInit /\ [][Next]_vars /\ \A t \in Threads : WF_vars(Step(t))
=============================================================================
