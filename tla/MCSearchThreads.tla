--------------------------- MODULE MCSearchThreads ---------------------------
(***************************************************************************)
(* The threads of a search, for TLC: its verifications (Verification) and  *)
(* its counting (GroupCounting).  They share no variable, so a behaviour   *)
(* moves one of them, `part`, and the other rests where it began.          *)
(*                                                                         *)
(* Three clauses of weight one and no budget to speak of: two requests may *)
(* each add an entry, and three clauses exceed that.  Two trees that share *)
(* a conjunct, 1, which the first thread to need it collects for both.     *)
(* The searches are the requests; they, and the workers, are               *)
(* interchangeable.                                                        *)
(***************************************************************************)
EXTENDS Verification, GroupCounting, TLC

CONSTANTS c1, c2, c3

MCQueries == {{c1, c2}, {c2, c3}}
MCWeight == [c \in Clauses |-> 1]
MCTrees == 1..2
MCConjuncts == 1..2
MCNeeds == <<{1, 2}, {1}>>

Symmetry == Permutations(Requests) \cup Permutations(Workers)

VARIABLE part

SearchInit == part \in {"verify", "count"} /\ VerifyInit /\ Init

SearchNext ==
  \/ part = "verify" /\ VerifyNext /\ UNCHANGED <<vars, part>>
  \/ part = "count" /\ Next /\ UNCHANGED <<verifyVars, part>>

SearchSpec == SearchInit /\ [][SearchNext]_<<verifyVars, vars, part>>
=============================================================================
