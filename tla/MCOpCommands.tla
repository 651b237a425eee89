---------------------------- MODULE MCOpCommands ----------------------------
(***************************************************************************)
(* What `op` runs against the disk, for TLC: the directory of indexes      *)
(* (IndexStore) and a venue's crawl over its cache (ListingCrawl).  They   *)
(* share no file and no lock, so a behaviour moves one of them, `part`,    *)
(* and the other rests: an empty directory, or an empty cache of a server  *)
(* that heeds the offset.                                                  *)
(*                                                                         *)
(* The ingesters are the processes; they, and the savers, are              *)
(* interchangeable.                                                        *)
(***************************************************************************)
EXTENDS IndexStore, MCListingCrawl

Symmetry == Permutations(Procs) \cup Permutations(Savers)

VARIABLE part

OpInit ==
    /\ part \in {"store", "crawl"} /\ Init /\ CrawlInit
    /\ (part = "crawl") => \A v \in Versions : index[v] = "absent"
    /\ (part = "store") => ~deaf /\ \A l \in Venues : cache[<<l, 0>>] = Nothing

OpNext ==
    \/ part = "store" /\ Next /\ UNCHANGED <<crawlVars, part>>
    \/ part = "crawl" /\ CrawlNext /\ UNCHANGED <<vars, part>>

OpSpec == OpInit /\ [][OpNext]_<<vars, crawlVars, part>>
=============================================================================
