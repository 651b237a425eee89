---------------------------- MODULE MCRateLimit ----------------------------
EXTENDS RateLimit

(* Three clients of one network, with room for two of their buckets: the    *)
(* third makes one of them be forgotten.                                    *)
MCKeyOf == [l \in Levels |-> [c \in Clients |-> IF l = "client" THEN c ELSE "n1"]]
MCCapacity == [l \in Levels |-> IF l = "client" THEN 2 ELSE 3]
MCMaxHeld == [l \in Levels |-> IF l = "client" THEN 2 ELSE 1]
=============================================================================
