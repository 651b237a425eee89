--------------------------- MODULE MCServedIndex ---------------------------
EXTENDS ServedIndex

(* Two versions of one small corpus.  The paper v1 holds as "a" is, in the  *)
(* snapshot of v2, the merged record "b"; that snapshot was built without   *)
(* the abstract of "c".                                                     *)
MCIds == {"a", "b", "c"}
MCNative == [i \in MCIds |-> "none"]
MCHolds == [v \in Versions |-> IF v = "v1" THEN {"a"} ELSE {"b", "c"}]
MCMerges == [v \in Versions |-> IF v = "v1" THEN {} ELSE {<<"b", "a">>}]
MCBuiltWithout == [v \in Versions |-> IF v = "v1" THEN {} ELSE {"c"}]
MCLists == {{}, {"a"}}
=============================================================================
