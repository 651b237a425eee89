----------------------------- MODULE MCRecords -----------------------------
EXTENDS Records, TLC

(* Two indexes of one corpus as it changes: in v2, built with a newer       *)
(* tokenizer, p1 has moved to another track, p2 has left and p3 has come.   *)
(* The query "b" matches more, is over a limit of v2, and does not parse    *)
(* with the newer tokenizer and the code to come.  "deep" is read with the  *)
(* older tokenizer only, and saved as "deeper", which nests too deep to be  *)
(* read back.                                                               *)
MCStrings == {"a", "b", "deep", "deeper"}
MCInputs == [v \in {"v1", "v2"} |->
    [snapshot_hash |-> v, tokenizer_version |-> IF v = "v1" THEN "old" ELSE "new",
     schema_version |-> "s", ranking_params |-> "r"]]
MCFacts == [v \in {"v1", "v2"} |-> IF v = "v1" THEN "winter" ELSE "summer"]
MCReads == [r \in MCStrings \X {"old", "new"} \X {1, 2} |->
    CASE \/ r = <<"b", "new", 2>> \/ r[1] = "deeper"
         \/ r[1] = "deep" /\ r[2] = "new" -> "unreadable"
      [] r[1] = "deep" /\ r[2] = "old" -> "deeper"
      [] OTHER -> r[1]]
MCIdentifications == [c \in MCStrings |-> IF c = "deeper" THEN "few" ELSE "all"]
MCTexts == [x \in {"v1", "v2"} \X MCStrings |->
    IF x[1] = "v1" THEN {"p1", "p2"} ELSE {"p1", "p3"}]
MCPaper(track) == [f \in Fields |-> IF f = "track" THEN track ELSE "ok"]
MCValues == [v \in {"v1", "v2"} |->
    IF v = "v1" THEN [p \in {"p1", "p2"} |-> MCPaper("main")]
    ELSE [p \in {"p1", "p3"} |-> MCPaper(IF p = "p1" THEN "workshop" ELSE "main")]]
MCFilters == [c \in MCStrings |->
    [f \in IF c = "a" THEN {"track"} ELSE {} |-> {"main"}]]
MCExcluded == [x \in {"v1", "v2"} \X MCStrings |->
    IF x = <<"v2", "a">> THEN 1 ELSE 0]
MCRefuses == {<<"v2", "b">>}
Symmetry == Permutations(Threads) \cup Permutations(RecordIds)
=============================================================================
