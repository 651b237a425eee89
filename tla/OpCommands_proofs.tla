------------------------- MODULE OpCommands_proofs -------------------------
(***************************************************************************)
(* Proofs about what the `op` command line runs against the disk and the   *)
(* network: the directory of indexes (IndexStore, which implements         *)
(* HeldIndexes), a venue's crawl over its cache (ListingCrawl) and the     *)
(* crawler's client (HttpClient).                                          *)
(***************************************************************************)
EXTENDS IndexStore, ListingCrawl, HttpClient, FiniteSetTheorems, TLAPS

-----------------------------------------------------------------------------
(* The directory of indexes: types, whole indexes, staging directories, and *)
(* that it implements HeldIndexes, for any number of processes, savers and  *)
(* versions.                                                               *)
(*                                                                         *)
(* A retire that has set its index aside relies on four things, which make *)
(* the invariant inductive: it alone holds the lock; so nobody else moves  *)
(* the directory; so no save and no promotion finds the version under its  *)
(* name; so what the last two checks found stays true to the commit.       *)

(* The lock (exclusive) is its holder's alone.                              *)
Exclusion == \A p \in Procs : pc[p] \in Locked => flock = p

(* A command under way, and a save under way, is about some version.        *)
Aimed ==
    /\ \A p \in Procs : pc[p] # "idle" => target[p] \in Versions
    /\ \A s \in Savers : saving[s] # "idle" => saves[s] \in Versions

(* What a retire knows while its index is set aside, check by check.        *)
SetAsideInv ==
    \A p \in Procs :
        /\ pc[p] \in SettingAside =>
              index[target[p]] = "absent" /\ aside[target[p]] # "absent"
        /\ pc[p] \in {"lastLinks", "commit"} => target[p] \notin pinnedHere
        /\ pc[p] = "commit" => target[p] # linkedHere

(* `current` on this machine is the repository's, or was never pulled.      *)
LinkInv == linkedHere \in {current, None}

(* Whatever is named is there.                                              *)
Kept == PinnedIndexKept /\ PromotedIndexKept

(* The inductive invariant.                                                 *)
IInv ==
    /\ TypeOK /\ Exclusion /\ Aimed
    /\ LiveStagingKept /\ NoHalfIndex
    /\ SetAsideInv /\ LinkInv /\ Kept

----------------------------------------------------------------------------

(* An empty store holds nothing that anyone names.                          *)
LEMMA Initially == Init => IInv
  BY IndexStoreConstants
  DEF Init, IInv, TypeOK, Exclusion, Aimed, LiveStagingKept, NoHalfIndex,
      SetAsideInv, LinkInv, Kept, PinnedIndexKept, PromotedIndexKept, OnMachine,
      Contents, PCs, Locked, Building, Retiring, SettingAside

(* A build places what it staged, so what it staged must be known.         *)
LEMMA TypeStep ==
  ASSUME TypeOK, Exclusion, Aimed, LiveStagingKept, [Next]_vars
  PROVE  TypeOK'
<1> USE IndexStoreConstants
    DEF TypeOK, Exclusion, Aimed, LiveStagingKept, Contents, PCs, Locked, Building, Retiring, SettingAside,
        dirs, procVars, saveVars, linkVars, bounds
<1>1. ASSUME NEW p \in Procs, NEW v \in Versions, StartBuild(p, v) \/ StartRetire(p, v) PROVE TypeOK'
  BY <1>1 DEF StartBuild, StartRetire, Start, Goto
<1>2. ASSUME NEW p \in Procs, LockBuild(p) \/ LockRetire(p) PROVE TypeOK'
  BY <1>2 DEF LockBuild, LockRetire, Lock, Goto
<1>3. ASSUME NEW p \in Procs, SweepBuild(p) \/ SweepRetire(p) PROVE TypeOK'
  BY <1>3 DEF SweepBuild, SweepRetire, Sweep, Goto
<1>4. ASSUME NEW p \in Procs, CheckBuild(p) PROVE TypeOK'
  BY <1>4 DEF CheckBuild, Done, Goto
<1>5. ASSUME NEW p \in Procs, AddAll(p) \/ Place(p) \/ Seal(p) PROVE TypeOK'
  BY <1>5 DEF AddAll, Place, Seal, Goto
<1>6. ASSUME NEW p \in Procs, VerifyBuild(p) \/ FailBuild(p) PROVE TypeOK'
  BY <1>6 DEF VerifyBuild, FailBuild, Done, Goto
<1>7. ASSUME NEW p \in Procs, FirstCheck(p) \/ CheckRetire(p) PROVE TypeOK'
  BY <1>7 DEF FirstCheck, CheckRetire, Refuse, Done, Goto
<1>8. ASSUME NEW p \in Procs, SetAside(p) PROVE TypeOK'
  BY <1>8 DEF SetAside, Goto
<1>9. ASSUME NEW p \in Procs, LastPins(p) \/ LastLinks(p) PROVE TypeOK'
  BY <1>9 DEF LastPins, LastLinks, Named, Restore, Done, Goto
<1>10. ASSUME NEW p \in Procs, Commit(p) \/ RemoveRetired(p) PROVE TypeOK'
  BY <1>10 DEF Commit, RemoveRetired, Done, Goto
<1>11. ASSUME NEW p \in Procs, InterruptRetire(p) PROVE TypeOK'
  BY <1>11 DEF InterruptRetire, Restore, Refuse, Done, Goto
<1>12. ASSUME NEW p \in Procs, Kill(p) PROVE TypeOK'
  BY <1>12 DEF Kill, Done, Goto
<1>13. ASSUME NEW v \in Versions, Promote(v) \/ Recover(v) PROVE TypeOK'
  BY <1>13 DEF Promote, Recover
<1>14. ASSUME NEW s \in Savers, Save(s) PROVE TypeOK'
  BY <1>14 DEF Save, BeginSave, Freeze, Insert, EndSave
<1>15. ASSUME Reload \/ UNCHANGED vars PROVE TypeOK'
  BY <1>15 DEF Reload, vars
<1> QED
  BY <1>1, <1>2, <1>3, <1>4, <1>5, <1>6, <1>7, <1>8, <1>9, <1>10, <1>11, <1>12, <1>13, <1>14, <1>15 DEF Next, Build, Retire

(* The lock is taken only when it is free, and goes with its command.      *)
LEMMA ExclusionStep ==
  ASSUME TypeOK, Exclusion, [Next]_vars
  PROVE  Exclusion'
<1> USE IndexStoreConstants
    DEF TypeOK, Exclusion, PCs, Locked, Building, Retiring, SettingAside, dirs, procVars, saveVars, linkVars, bounds
<1>1. ASSUME NEW p \in Procs, NEW v \in Versions, StartBuild(p, v) \/ StartRetire(p, v) PROVE Exclusion'
  BY <1>1 DEF StartBuild, StartRetire, Start, Goto
<1>2. ASSUME NEW p \in Procs, LockBuild(p) \/ LockRetire(p) PROVE Exclusion'
  BY <1>2 DEF LockBuild, LockRetire, Lock, Goto
<1>3. ASSUME NEW p \in Procs, SweepBuild(p) \/ SweepRetire(p) PROVE Exclusion'
  BY <1>3 DEF SweepBuild, SweepRetire, Sweep, Goto
<1>4. ASSUME NEW p \in Procs, CheckBuild(p) PROVE Exclusion'
  BY <1>4 DEF CheckBuild, Done, Goto
<1>5. ASSUME NEW p \in Procs, AddAll(p) \/ Place(p) \/ Seal(p) PROVE Exclusion'
  BY <1>5 DEF AddAll, Place, Seal, Goto
<1>6. ASSUME NEW p \in Procs, VerifyBuild(p) \/ FailBuild(p) PROVE Exclusion'
  BY <1>6 DEF VerifyBuild, FailBuild, Done, Goto
<1>7. ASSUME NEW p \in Procs, FirstCheck(p) \/ CheckRetire(p) PROVE Exclusion'
  BY <1>7 DEF FirstCheck, CheckRetire, Refuse, Done, Goto
<1>8. ASSUME NEW p \in Procs, SetAside(p) PROVE Exclusion'
  BY <1>8 DEF SetAside, Goto
<1>9. ASSUME NEW p \in Procs, LastPins(p) \/ LastLinks(p) PROVE Exclusion'
  BY <1>9 DEF LastPins, LastLinks, Named, Restore, Done, Goto
<1>10. ASSUME NEW p \in Procs, Commit(p) \/ RemoveRetired(p) PROVE Exclusion'
  BY <1>10 DEF Commit, RemoveRetired, Done, Goto
<1>11. ASSUME NEW p \in Procs, InterruptRetire(p) PROVE Exclusion'
  BY <1>11 DEF InterruptRetire, Restore, Refuse, Done, Goto
<1>12. ASSUME NEW p \in Procs, Kill(p) PROVE Exclusion'
  BY <1>12 DEF Kill, Done, Goto
<1>13. ASSUME NEW v \in Versions, Promote(v) \/ Recover(v) PROVE Exclusion'
  BY <1>13 DEF Promote, Recover
<1>14. ASSUME NEW s \in Savers, Save(s) PROVE Exclusion'
  BY <1>14 DEF Save, BeginSave, Freeze, Insert, EndSave
<1>15. ASSUME Reload \/ UNCHANGED vars PROVE Exclusion'
  BY <1>15 DEF Reload, vars
<1> QED
  BY <1>1, <1>2, <1>3, <1>4, <1>5, <1>6, <1>7, <1>8, <1>9, <1>10, <1>11, <1>12, <1>13, <1>14, <1>15 DEF Next, Build, Retire

(* A command or a save under way has its version.                          *)
LEMMA AimedStep ==
  ASSUME TypeOK, Aimed, [Next]_vars
  PROVE  Aimed'
<1> USE IndexStoreConstants
    DEF TypeOK, Aimed, PCs, Locked, Building, Retiring, SettingAside, dirs, procVars, saveVars, linkVars, bounds
<1>1. ASSUME NEW p \in Procs, NEW v \in Versions, StartBuild(p, v) \/ StartRetire(p, v) PROVE Aimed'
  BY <1>1 DEF StartBuild, StartRetire, Start, Goto
<1>2. ASSUME NEW p \in Procs, LockBuild(p) \/ LockRetire(p) PROVE Aimed'
  BY <1>2 DEF LockBuild, LockRetire, Lock, Goto
<1>3. ASSUME NEW p \in Procs, SweepBuild(p) \/ SweepRetire(p) PROVE Aimed'
  BY <1>3 DEF SweepBuild, SweepRetire, Sweep, Goto
<1>4. ASSUME NEW p \in Procs, CheckBuild(p) PROVE Aimed'
  BY <1>4 DEF CheckBuild, Done, Goto
<1>5. ASSUME NEW p \in Procs, AddAll(p) \/ Place(p) \/ Seal(p) PROVE Aimed'
  BY <1>5 DEF AddAll, Place, Seal, Goto
<1>6. ASSUME NEW p \in Procs, VerifyBuild(p) \/ FailBuild(p) PROVE Aimed'
  BY <1>6 DEF VerifyBuild, FailBuild, Done, Goto
<1>7. ASSUME NEW p \in Procs, FirstCheck(p) \/ CheckRetire(p) PROVE Aimed'
  BY <1>7 DEF FirstCheck, CheckRetire, Refuse, Done, Goto
<1>8. ASSUME NEW p \in Procs, SetAside(p) PROVE Aimed'
  BY <1>8 DEF SetAside, Goto
<1>9. ASSUME NEW p \in Procs, LastPins(p) \/ LastLinks(p) PROVE Aimed'
  BY <1>9 DEF LastPins, LastLinks, Named, Restore, Done, Goto
<1>10. ASSUME NEW p \in Procs, Commit(p) \/ RemoveRetired(p) PROVE Aimed'
  BY <1>10 DEF Commit, RemoveRetired, Done, Goto
<1>11. ASSUME NEW p \in Procs, InterruptRetire(p) PROVE Aimed'
  BY <1>11 DEF InterruptRetire, Restore, Refuse, Done, Goto
<1>12. ASSUME NEW p \in Procs, Kill(p) PROVE Aimed'
  BY <1>12 DEF Kill, Done, Goto
<1>13. ASSUME NEW v \in Versions, Promote(v) \/ Recover(v) PROVE Aimed'
  BY <1>13 DEF Promote, Recover
<1>14. ASSUME NEW s \in Savers, Save(s) PROVE Aimed'
  BY <1>14 DEF Save, BeginSave, Freeze, Insert, EndSave
<1>15. ASSUME Reload \/ UNCHANGED vars PROVE Aimed'
  BY <1>15 DEF Reload, vars
<1> QED
  BY <1>1, <1>2, <1>3, <1>4, <1>5, <1>6, <1>7, <1>8, <1>9, <1>10, <1>11, <1>12, <1>13, <1>14, <1>15 DEF Next, Build, Retire

(* Nobody sweeps, and nobody else places, while a build holds the lock.    *)
LEMMA ContentStep ==
  ASSUME TypeOK, Exclusion, Aimed, LiveStagingKept, NoHalfIndex, [Next]_vars
  PROVE  (LiveStagingKept /\ NoHalfIndex)'
<1> USE IndexStoreConstants
    DEF TypeOK, Exclusion, Aimed, LiveStagingKept, NoHalfIndex, Contents, PCs,
        Locked, Building, Retiring, SettingAside, dirs, procVars, saveVars, linkVars, bounds
<1>1. ASSUME NEW p \in Procs, NEW v \in Versions, StartBuild(p, v) \/ StartRetire(p, v) PROVE (LiveStagingKept /\ NoHalfIndex)'
  BY <1>1 DEF StartBuild, StartRetire, Start, Goto
<1>2. ASSUME NEW p \in Procs, LockBuild(p) \/ LockRetire(p) PROVE (LiveStagingKept /\ NoHalfIndex)'
  BY <1>2 DEF LockBuild, LockRetire, Lock, Goto
<1>3. ASSUME NEW p \in Procs, SweepBuild(p) \/ SweepRetire(p) PROVE (LiveStagingKept /\ NoHalfIndex)'
  BY <1>3 DEF SweepBuild, SweepRetire, Sweep, Goto
<1>4. ASSUME NEW p \in Procs, CheckBuild(p) PROVE (LiveStagingKept /\ NoHalfIndex)'
  BY <1>4 DEF CheckBuild, Done, Goto
<1>5. ASSUME NEW p \in Procs, AddAll(p) \/ Place(p) \/ Seal(p) PROVE (LiveStagingKept /\ NoHalfIndex)'
  BY <1>5 DEF AddAll, Place, Seal, Goto
<1>6. ASSUME NEW p \in Procs, VerifyBuild(p) \/ FailBuild(p) PROVE (LiveStagingKept /\ NoHalfIndex)'
  BY <1>6 DEF VerifyBuild, FailBuild, Done, Goto
<1>7. ASSUME NEW p \in Procs, FirstCheck(p) \/ CheckRetire(p) PROVE (LiveStagingKept /\ NoHalfIndex)'
  BY <1>7 DEF FirstCheck, CheckRetire, Refuse, Done, Goto
<1>8. ASSUME NEW p \in Procs, SetAside(p) PROVE (LiveStagingKept /\ NoHalfIndex)'
  BY <1>8 DEF SetAside, Goto
<1>9. ASSUME NEW p \in Procs, LastPins(p) \/ LastLinks(p) PROVE (LiveStagingKept /\ NoHalfIndex)'
  BY <1>9 DEF LastPins, LastLinks, Named, Restore, Done, Goto
<1>10. ASSUME NEW p \in Procs, Commit(p) \/ RemoveRetired(p) PROVE (LiveStagingKept /\ NoHalfIndex)'
  BY <1>10 DEF Commit, RemoveRetired, Done, Goto
<1>11. ASSUME NEW p \in Procs, InterruptRetire(p) PROVE (LiveStagingKept /\ NoHalfIndex)'
  BY <1>11 DEF InterruptRetire, Restore, Refuse, Done, Goto
<1>12. ASSUME NEW p \in Procs, Kill(p) PROVE (LiveStagingKept /\ NoHalfIndex)'
  BY <1>12 DEF Kill, Done, Goto
<1>13. ASSUME NEW v \in Versions, Promote(v) \/ Recover(v) PROVE (LiveStagingKept /\ NoHalfIndex)'
  BY <1>13 DEF Promote, Recover
<1>14. ASSUME NEW s \in Savers, Save(s) PROVE (LiveStagingKept /\ NoHalfIndex)'
  BY <1>14 DEF Save, BeginSave, Freeze, Insert, EndSave
<1>15. ASSUME Reload \/ UNCHANGED vars PROVE (LiveStagingKept /\ NoHalfIndex)'
  BY <1>15 DEF Reload, vars
<1> QED
  BY <1>1, <1>2, <1>3, <1>4, <1>5, <1>6, <1>7, <1>8, <1>9, <1>10, <1>11, <1>12, <1>13, <1>14, <1>15 DEF Next, Build, Retire

(* What the last two checks found stays true to the commit.                *)
LEMMA SetAsideStep ==
  ASSUME TypeOK, Exclusion, Aimed, SetAsideInv, LinkInv, [Next]_vars
  PROVE  (SetAsideInv /\ LinkInv)'
<1> USE IndexStoreConstants
    DEF TypeOK, Exclusion, Aimed, SetAsideInv, LinkInv, Contents, PCs,
        Locked, Building, Retiring, SettingAside, dirs, procVars, saveVars, linkVars, bounds
<1>1. ASSUME NEW p \in Procs, NEW v \in Versions, StartBuild(p, v) \/ StartRetire(p, v) PROVE (SetAsideInv /\ LinkInv)'
  BY <1>1 DEF StartBuild, StartRetire, Start, Goto
<1>2. ASSUME NEW p \in Procs, LockBuild(p) \/ LockRetire(p) PROVE (SetAsideInv /\ LinkInv)'
  BY <1>2 DEF LockBuild, LockRetire, Lock, Goto
<1>3. ASSUME NEW p \in Procs, SweepBuild(p) \/ SweepRetire(p) PROVE (SetAsideInv /\ LinkInv)'
  BY <1>3 DEF SweepBuild, SweepRetire, Sweep, Goto
<1>4. ASSUME NEW p \in Procs, CheckBuild(p) PROVE (SetAsideInv /\ LinkInv)'
  BY <1>4 DEF CheckBuild, Done, Goto
<1>5. ASSUME NEW p \in Procs, AddAll(p) \/ Place(p) \/ Seal(p) PROVE (SetAsideInv /\ LinkInv)'
  BY <1>5 DEF AddAll, Place, Seal, Goto
<1>6. ASSUME NEW p \in Procs, VerifyBuild(p) \/ FailBuild(p) PROVE (SetAsideInv /\ LinkInv)'
  BY <1>6 DEF VerifyBuild, FailBuild, Done, Goto
<1>7. ASSUME NEW p \in Procs, FirstCheck(p) \/ CheckRetire(p) PROVE (SetAsideInv /\ LinkInv)'
  BY <1>7 DEF FirstCheck, CheckRetire, Refuse, Done, Goto
<1>8. ASSUME NEW p \in Procs, SetAside(p) PROVE (SetAsideInv /\ LinkInv)'
  BY <1>8 DEF SetAside, Goto
<1>9. ASSUME NEW p \in Procs, LastPins(p) \/ LastLinks(p) PROVE (SetAsideInv /\ LinkInv)'
  BY <1>9 DEF LastPins, LastLinks, Named, Restore, Done, Goto
<1>10. ASSUME NEW p \in Procs, Commit(p) \/ RemoveRetired(p) PROVE (SetAsideInv /\ LinkInv)'
  BY <1>10 DEF Commit, RemoveRetired, Done, Goto
<1>11. ASSUME NEW p \in Procs, InterruptRetire(p) PROVE (SetAsideInv /\ LinkInv)'
  BY <1>11 DEF InterruptRetire, Restore, Refuse, Done, Goto
<1>12. ASSUME NEW p \in Procs, Kill(p) PROVE (SetAsideInv /\ LinkInv)'
  BY <1>12 DEF Kill, Done, Goto
<1>13. ASSUME NEW v \in Versions, Promote(v) \/ Recover(v) PROVE (SetAsideInv /\ LinkInv)'
  BY <1>13 DEF Promote, Recover
<1>14. ASSUME NEW s \in Savers, Save(s) PROVE (SetAsideInv /\ LinkInv)'
  BY <1>14 DEF Save, BeginSave, Freeze, Insert, EndSave
<1>15. ASSUME Reload \/ UNCHANGED vars PROVE (SetAsideInv /\ LinkInv)'
  BY <1>15 DEF Reload, vars
<1> QED
  BY <1>1, <1>2, <1>3, <1>4, <1>5, <1>6, <1>7, <1>8, <1>9, <1>10, <1>11, <1>12, <1>13, <1>14, <1>15 DEF Next, Build, Retire

(* So the commit removes nothing that is named.                            *)
LEMMA KeptStep ==
  ASSUME TypeOK, Exclusion, Aimed, SetAsideInv, LiveStagingKept, Kept, [Next]_vars
  PROVE  Kept'
<1> USE IndexStoreConstants
    DEF TypeOK, Exclusion, Aimed, SetAsideInv, LiveStagingKept, Kept,
        PinnedIndexKept, PromotedIndexKept, OnMachine, Contents, PCs,
        Locked, Building, Retiring, SettingAside, dirs, procVars, saveVars, linkVars, bounds
<1>1. ASSUME NEW p \in Procs, NEW v \in Versions, StartBuild(p, v) \/ StartRetire(p, v) PROVE Kept'
  BY <1>1 DEF StartBuild, StartRetire, Start, Goto
<1>2. ASSUME NEW p \in Procs, LockBuild(p) \/ LockRetire(p) PROVE Kept'
  BY <1>2 DEF LockBuild, LockRetire, Lock, Goto
<1>3. ASSUME NEW p \in Procs, SweepBuild(p) \/ SweepRetire(p) PROVE Kept'
  BY <1>3 DEF SweepBuild, SweepRetire, Sweep, Goto
<1>4. ASSUME NEW p \in Procs, CheckBuild(p) PROVE Kept'
  BY <1>4 DEF CheckBuild, Done, Goto
<1>5. ASSUME NEW p \in Procs, AddAll(p) \/ Place(p) \/ Seal(p) PROVE Kept'
  BY <1>5 DEF AddAll, Place, Seal, Goto
<1>6. ASSUME NEW p \in Procs, VerifyBuild(p) \/ FailBuild(p) PROVE Kept'
  BY <1>6 DEF VerifyBuild, FailBuild, Done, Goto
<1>7. ASSUME NEW p \in Procs, FirstCheck(p) \/ CheckRetire(p) PROVE Kept'
  BY <1>7 DEF FirstCheck, CheckRetire, Refuse, Done, Goto
<1>8. ASSUME NEW p \in Procs, SetAside(p) PROVE Kept'
  BY <1>8 DEF SetAside, Goto
<1>9. ASSUME NEW p \in Procs, LastPins(p) \/ LastLinks(p) PROVE Kept'
  BY <1>9 DEF LastPins, LastLinks, Named, Restore, Done, Goto
<1>10. ASSUME NEW p \in Procs, Commit(p) \/ RemoveRetired(p) PROVE Kept'
  BY <1>10 DEF Commit, RemoveRetired, Done, Goto
<1>11. ASSUME NEW p \in Procs, InterruptRetire(p) PROVE Kept'
  BY <1>11 DEF InterruptRetire, Restore, Refuse, Done, Goto
<1>12. ASSUME NEW p \in Procs, Kill(p) PROVE Kept'
  BY <1>12 DEF Kill, Done, Goto
<1>13. ASSUME NEW v \in Versions, Promote(v) \/ Recover(v) PROVE Kept'
  BY <1>13 DEF Promote, Recover
<1>14. ASSUME NEW s \in Savers, Save(s) PROVE Kept'
  BY <1>14 DEF Save, BeginSave, Freeze, Insert, EndSave
<1>15. ASSUME Reload \/ UNCHANGED vars PROVE Kept'
  BY <1>15 DEF Reload, vars
<1> QED
  BY <1>1, <1>2, <1>3, <1>4, <1>5, <1>6, <1>7, <1>8, <1>9, <1>10, <1>11, <1>12, <1>13, <1>14, <1>15 DEF Next, Build, Retire

----------------------------------------------------------------------------
(* The theorems.                                                           *)

(* The inductive invariant holds in every state.                            *)
THEOREM Invariant == Spec => []IInv
<1>1. IInv /\ [Next]_vars => IInv'
  BY TypeStep, ExclusionStep, AimedStep, ContentStep, SetAsideStep, KeptStep DEF IInv
<1> QED
  BY Initially, <1>1, PTL DEF Spec

(* Every variable of the store of indexes keeps its type, and its lock goes *)
(* with the command that took it.                                           *)
THEOREM TypeCorrect == Spec => []TypeOK
BY Invariant, PTL DEF IInv

(* A version's name never holds half an index, and no sweep removes what a  *)
(* live build stages: builds, retires and sweeps of any number of processes *)
(* may be interrupted or killed at any step.                                *)
THEOREM WholeIndexes == Spec => [](NoHalfIndex /\ LiveStagingKept)
BY Invariant, PTL DEF IInv

(* The index of a stored record is never removed, though saves take no lock.*)
THEOREM PinnedKept == Spec => []PinnedIndexKept
BY Invariant, PTL DEF IInv, Kept

(* Nor is the index `current` was pointed at, though promotions take none.  *)
THEOREM PromotedKept == Spec => []PromotedIndexKept
BY Invariant, PTL DEF IInv, Kept

(* All of it together: what readers, records and the promotion rely on.     *)
THEOREM AllKept == Spec => []IndexesKept
BY WholeIndexes, PinnedKept, PromotedKept, PTL DEF IndexesKept

(* What was set aside leaves .retiring-<v> only for a name, or by the commit *)
(* of the retire that made it: no sweep takes it, whoever runs one.         *)
THEOREM NeverSwept == Spec => AsideNeverSwept
<1> DEFINE Stays(v) == aside[v] # "absent" /\ aside'[v] = "absent"
                          => index'[v] # "absent" \/ v \in doomed'
<1>1. ASSUME IInv, [Next]_vars
      PROVE  \A v \in Versions : Stays(v)
  <2> USE DEF IInv, TypeOK
  <2>1. ASSUME aside' = aside
        PROVE  \A v \in Versions : Stays(v)
    BY <2>1
  <2>2. ASSUME NEW p \in Procs, NEW v \in Versions, StartBuild(p, v) \/ StartRetire(p, v)
        PROVE  aside' = aside
    BY <2>2 DEF StartBuild, StartRetire, Start, dirs
  <2>3. ASSUME NEW p \in Procs, Build(p)
        PROVE  aside' = aside
    BY <2>3 DEF Build, LockBuild, Lock, SweepBuild, Sweep, CheckBuild, AddAll, Place, Seal,
                VerifyBuild, FailBuild, dirs
  <2>4. ASSUME NEW p \in Procs,
               FirstCheck(p) \/ LockRetire(p) \/ SweepRetire(p) \/ CheckRetire(p) \/ RemoveRetired(p) \/ Kill(p)
        PROVE  aside' = aside
    BY <2>4 DEF FirstCheck, LockRetire, Lock, SweepRetire, Sweep, CheckRetire, RemoveRetired, Kill, Refuse, dirs
  <2>5. ASSUME NEW p \in Procs, SetAside(p)
        PROVE  \A v \in Versions : Stays(v)
    BY <2>5 DEF SetAside
  <2>6. ASSUME NEW p \in Procs, Commit(p)
        PROVE  \A v \in Versions : Stays(v)
    BY <2>6 DEF Commit
  <2>7. ASSUME NEW p \in Procs, LastPins(p) \/ LastLinks(p) \/ InterruptRetire(p)
        PROVE  \A v \in Versions : Stays(v)
    <3>1. CASE aside' = aside
      BY <3>1
    <3>2. CASE /\ index' = [index EXCEPT ![target[p]] = aside[target[p]]]
               /\ aside' = [aside EXCEPT ![target[p]] = "absent"]
      BY <1>1, <3>2
    <3> QED
      BY <2>7, <3>1, <3>2 DEF LastPins, LastLinks, InterruptRetire, Restore, Refuse, dirs
  <2>8. ASSUME NEW v \in Versions, Recover(v)
        PROVE  \A w \in Versions : Stays(w)
    BY <1>1, <2>8 DEF Recover
  <2>9. ASSUME \/ \E v \in Versions : Promote(v)
               \/ Reload
               \/ \E s \in Savers : Save(s)
               \/ UNCHANGED vars
        PROVE  aside' = aside
    BY <2>9 DEF Promote, Reload, Save, BeginSave, Freeze, Insert, vars, dirs
  <2> HIDE DEF Stays, IInv, TypeOK
  <2> QED
    BY <1>1, <2>1, <2>2, <2>3, <2>4, <2>5, <2>6, <2>7, <2>8, <2>9 DEF Next, Retire
<1>2. IInv /\ [Next]_vars =>
        [\A v \in Versions :
            aside[v] # "absent" /\ aside'[v] = "absent"
            => index'[v] # "absent" \/ v \in doomed']_vars
  BY <1>1
<1> QED
  BY <1>2, Invariant, PTL DEF Spec, AsideNeverSwept

----------------------------------------------------------------------------
(* The refinement.                                                         *)

(* An empty store is one that holds no version.                             *)
LEMMA InitImplements == Init => Held!Init
BY DEF Init, Held!Init, OnMachine

(* Most steps move no version on or off the machine.                        *)
LEMMA StepImplements ==
  ASSUME IInv, [Next]_vars
  PROVE  [Held!Next]_Held!vars
<1> DEFINE onMachine == {v \in Versions : OnMachine(v)}
           same == onMachine' = onMachine /\ UNCHANGED <<pinnedHere, linkedHere>>
<1> USE IndexStoreConstants
    DEF IInv, TypeOK, Exclusion, Aimed, SetAsideInv, LiveStagingKept, OnMachine,
        Contents, PCs, Locked, Building, Retiring, SettingAside,
        dirs, procVars, saveVars, linkVars, bounds
<1>1. ASSUME NEW p \in Procs, NEW v \in Versions, StartBuild(p, v) \/ StartRetire(p, v)
      PROVE  same
  BY <1>1 DEF StartBuild, StartRetire, Start
<1>2. ASSUME NEW p \in Procs,
             LockBuild(p) \/ LockRetire(p) \/ SweepBuild(p) \/ SweepRetire(p)
      PROVE  same
  BY <1>2 DEF LockBuild, LockRetire, Lock, SweepBuild, SweepRetire, Sweep
<1>3. ASSUME NEW p \in Procs, CheckBuild(p) \/ AddAll(p) \/ VerifyBuild(p) \/ FailBuild(p)
      PROVE  same
  BY <1>3 DEF CheckBuild, AddAll, VerifyBuild, FailBuild
<1>4. ASSUME NEW p \in Procs, Place(p) \/ Seal(p)
      PROVE  \E v \in Versions : Held!Add(v)
  <2>1. target[p] \in Versions
    BY <1>4 DEF Place, Seal
  <2>2. index' = [index EXCEPT ![target[p]] = index'[target[p]]]
    BY <1>4, <2>1 DEF Place, Seal
  <2>3. index'[target[p]] # "absent" /\ UNCHANGED <<aside, pinnedHere, linkedHere>>
    BY <1>4, <2>1 DEF Place, Seal
  <2> QED
    BY <2>1, <2>2, <2>3 DEF Held!Add
<1>5. ASSUME NEW p \in Procs, FirstCheck(p) \/ CheckRetire(p) \/ RemoveRetired(p) \/ Kill(p)
      PROVE  same
  BY <1>5 DEF FirstCheck, CheckRetire, RemoveRetired, Kill, Refuse
<1>6. ASSUME NEW p \in Procs, SetAside(p)
      PROVE  same
  BY <1>6 DEF SetAside
<1>7. ASSUME NEW p \in Procs, LastPins(p) \/ LastLinks(p) \/ InterruptRetire(p)
      PROVE  same
  BY <1>7 DEF LastPins, LastLinks, InterruptRetire, Restore, Refuse
<1>8. ASSUME NEW p \in Procs, Commit(p)
      PROVE  \E v \in Versions : Held!Drop(v)
  <2>1. target[p] \in Versions /\ target[p] \notin pinnedHere /\ target[p] # linkedHere
    BY <1>8 DEF Commit
  <2>2. OnMachine(target[p]) /\ ~OnMachine(target[p])'
    BY <1>8, <2>1 DEF Commit
  <2>3. \A v \in Versions \ {target[p]} : OnMachine(v)' <=> OnMachine(v)
    BY <1>8 DEF Commit
  <2> QED
    BY <1>8, <2>1, <2>2, <2>3 DEF Commit, Held!Drop
<1>9. ASSUME NEW v \in Versions, Promote(v)
      PROVE  \E w \in Versions \cup {None} : Held!Link(w)
  <2>1. Held!Link(v) \/ Held!Link(None)
    BY <1>9 DEF Promote, Held!Link
  <2> QED
    BY <2>1
<1>10. ASSUME NEW v \in Versions, Recover(v)
       PROVE  same
  BY <1>10 DEF Recover
<1>11. ASSUME NEW s \in Savers, BeginSave(s) \/ Freeze(s)
       PROVE  same
  BY <1>11 DEF BeginSave, Freeze
<1>12. ASSUME NEW s \in Savers, Insert(s)
       PROVE  same \/ \E v \in Versions : Held!Pin(v)
  <2>1. saves[s] \in Versions /\ (same \/ Held!Pin(saves[s]))
    BY <1>12 DEF Insert, Held!Pin
  <2> QED
    BY <2>1
<1>13. ASSUME Reload \/ UNCHANGED vars
       PROVE  same
  BY <1>13 DEF Reload, vars
<1>14. same => UNCHANGED Held!vars
  BY DEF Held!vars
<1> HIDE DEF same, IInv, TypeOK, Exclusion, Aimed, SetAsideInv, LiveStagingKept, OnMachine,
        Contents, PCs, Locked, Building, Retiring, SettingAside,
        dirs, procVars, saveVars, linkVars, bounds
<1> QED
  BY <1>1, <1>2, <1>3, <1>4, <1>5, <1>6, <1>7, <1>8, <1>9, <1>10, <1>11, <1>12, <1>13,
     <1>14
  DEF Next, Build, Retire, Save, Held!Next

(* The store keeps the promise of HeldIndexes: a version leaves the machine *)
(* in one step, and never while a stored record or `current` names it.      *)
THEOREM Implementation == Spec => ImplementsHeldIndexes
<1>1. Spec => [](IInv)
  BY Invariant
<1>2. IInv /\ [Next]_vars => [Held!Next]_Held!vars
  BY StepImplements
<1> QED
  BY <1>1, <1>2, InitImplements, PTL DEF Spec, ImplementsHeldIndexes, Held!Spec

(* What HeldIndexes promises: a version that a record pins, or that         *)
(* `current` was pointed at, is on this machine, as the retire of an index  *)
(* still named is refused.                                                 *)
THEOREM NamedStaysHeld == Held!Spec => []Held!NamedIsHeld
<1>1. Held!Init => Held!NamedIsHeld
  BY DEF Held!Init, Held!NamedIsHeld
<1>2. Held!NamedIsHeld /\ [Held!Next]_Held!vars => Held!NamedIsHeld'
  BY DEF Held!NamedIsHeld, Held!Next, Held!vars, Held!Add, Held!Drop, Held!Pin, Held!Link
<1> QED
  BY <1>1, <1>2, PTL DEF Held!Spec

(* And so it is in the store, because the store implements HeldIndexes.     *)
COROLLARY NamedIsOnTheMachine == Spec => []Held!NamedIsHeld
BY Implementation, NamedStaysHeld, PTL DEF ImplementsHeldIndexes
-----------------------------------------------------------------------------
(* The crawl of the listings: what is in the cache is what was read, so that *)
(* a replay is the crawl again, for any notes, listings and page size.      *)
(*                                                                         *)
(* A crawl in progress leaves a trail of entries behind it, from the start  *)
(* to where it is, each leading to the next.  It only writes where it       *)
(* stands, ahead of its trail, and the lock keeps every other crawl out.    *)
(* So when it ends the trail is whole, and until an entry is written again  *)
(* whoever reads offline is somewhere on it.                                *)

RunFields ==
    [pc : {"idle", "reading", "read", "refused", "failed", "done"}, i : Nat, page : Nat,
     stale : BOOLEAN, rows : Nat, seen : SUBSET Notes, counts : SUBSET Nat,
     got : SUBSET (Notes \X Venues), refresh : BOOLEAN, again : SUBSET (Venues \X Nat),
     moved : BOOLEAN, touched : BOOLEAN]

(* A run reads a listing that there is, and every page it has read had a    *)
(* note it had not seen.                                                   *)
Runs == {r \in RunFields : /\ r.pc = "reading" => r.i \in 1..Len(Listings)
                           /\ r.page <= Cardinality(r.seen)}

LEMMA VenueListed == ASSUME NEW i \in 1..Len(Listings) PROVE Listings[i] \in Venues
BY CrawlAssumption DEF Venues, Range

LEMMA SeenFinite ==
    ASSUME NEW s \in SUBSET Notes
    PROVE  IsFiniteSet(s) /\ Cardinality(s) \in Nat /\ Cardinality(s) <= MaxPage
BY CrawlAssumption, FS_Subset, FS_CardinalityType DEF MaxPage

LEMMA EmptyCard == Cardinality({}) = 0
BY FS_EmptySet

LEMMA IdleFields ==
    ASSUME NEW b \in BOOLEAN
    PROVE  /\ Idle \in Runs /\ [Idle EXCEPT !.refresh = b] \in Runs
           /\ [Idle EXCEPT !.touched = b] \in Runs
<1>1. Idle \in RunFields /\ Idle.pc = "idle" /\ Idle.page = 0 /\ Idle.seen = {}
  BY DEF Idle, RunFields
<1>2. ASSUME NEW r \in RunFields, r.pc = "idle", r.page = 0, r.seen = {} PROVE r \in Runs
  <2>1. r.page <= Cardinality(r.seen)
    BY <1>2, EmptyCard
  <2>2. r.pc # "reading"
    BY <1>2
  <2> QED
    BY <1>2, <2>1, <2>2 DEF Runs
<1>3. /\ [Idle EXCEPT !.refresh = b] \in RunFields /\ [Idle EXCEPT !.refresh = b].pc = "idle"
      /\ [Idle EXCEPT !.refresh = b].page = 0 /\ [Idle EXCEPT !.refresh = b].seen = {}
  BY DEF Idle, RunFields
<1>4. /\ [Idle EXCEPT !.touched = b] \in RunFields /\ [Idle EXCEPT !.touched = b].pc = "idle"
      /\ [Idle EXCEPT !.touched = b].page = 0 /\ [Idle EXCEPT !.touched = b].seen = {}
  BY DEF Idle, RunFields
<1> QED
  BY <1>1, <1>2, <1>3, <1>4

(* At the start of a listing, field by field.                               *)
Begins(a, i, got, r) ==
    /\ a \in Runs
    /\ a.pc = IF i > Len(Listings) THEN "read" ELSE "reading"
    /\ a.i = i /\ a.page = 0 /\ a.rows = 0 /\ a.seen = {} /\ a.counts = {} /\ a.got = got
    /\ a.stale = FALSE /\ a.refresh = r.refresh /\ a.again = r.again
    /\ a.moved = r.moved /\ a.touched = r.touched

LEMMA AtFields ==
    ASSUME NEW r \in Runs, NEW i \in Nat \ {0}, NEW got \in SUBSET (Notes \X Venues)
    PROVE  Begins(At(i, got, r), i, got, r)
<1> DEFINE a == At(i, got, r)
<1>1. r \in RunFields
  BY DEF Runs
<1>2. /\ a.pc = IF i > Len(Listings) THEN "read" ELSE "reading"
      /\ a.i = i /\ a.page = 0 /\ a.rows = 0 /\ a.seen = {} /\ a.counts = {} /\ a.got = got
      /\ a.stale = FALSE /\ a.refresh = r.refresh /\ a.again = r.again
    /\ a.moved = r.moved /\ a.touched = r.touched
  BY <1>1 DEF At, RunFields
<1>3. a \in RunFields
  BY <1>1 DEF At, RunFields
<1> HIDE DEF a
<1>4. Len(Listings) \in Nat
  BY CrawlAssumption
<1>5. a.pc = "reading" => a.i \in 1..Len(Listings)
  BY <1>2, <1>4
<1>6. a.page <= Cardinality(a.seen)
  BY <1>2, EmptyCard
<1>7. a \in Runs
  BY <1>3, <1>5, <1>6 DEF Runs
<1>8. Begins(a, i, got, r)
  BY <1>2, <1>7 DEF Begins
<1> QED
  BY <1>8 DEF a

(* The three ways a page is taken, field by field.                          *)
Refuses(r, e) == Repeats(r, e) \/ Conflicts(r, e)

Rows(r, e) == r.rows + Cardinality(e.items)
Seen(r, e) == r.seen \cup e.items
Counts(r, e) == r.counts \cup {e.count}
Got(r, e) == r.got \cup {<<n, Listed(r)>> : n \in e.items}
Disagreeing(r, e) == Rows(r, e) # Cardinality(Seen(r, e)) \/ Counts(r, e) # {Rows(r, e)}

Takes(t, r, e) ==
    /\ t \in Runs
    /\ t.refresh = r.refresh /\ t.again = r.again /\ t.moved = r.moved /\ t.touched = r.touched
    /\ \/ /\ Refuses(r, e)
          /\ t.pc = "refused" /\ t.i = r.i /\ t.page = r.page /\ t.stale = r.stale
          /\ t.rows = r.rows /\ t.seen = r.seen /\ t.counts = r.counts /\ t.got = r.got
       \/ /\ ~Refuses(r, e) /\ Cardinality(e.items) = PageSize
          /\ t.pc = "reading" /\ t.i = r.i /\ t.page = r.page + 1 /\ t.stale = r.stale
          /\ t.rows = Rows(r, e) /\ t.seen = Seen(r, e) /\ t.counts = Counts(r, e)
          /\ t.got = Got(r, e)
       \/ /\ ~Refuses(r, e) /\ Cardinality(e.items) # PageSize /\ Disagreeing(r, e)
          /\ t.pc = "refused" /\ t.i = r.i /\ t.page = r.page /\ t.stale = r.stale
          /\ t.rows = Rows(r, e) /\ t.seen = Seen(r, e) /\ t.counts = Counts(r, e)
          /\ t.got = Got(r, e)
       \/ /\ ~Refuses(r, e) /\ Cardinality(e.items) # PageSize /\ ~Disagreeing(r, e)
          /\ t.pc = IF r.i + 1 > Len(Listings) THEN "read" ELSE "reading"
          /\ t.i = r.i + 1 /\ t.page = 0 /\ t.stale = FALSE
          /\ t.rows = 0 /\ t.seen = {} /\ t.counts = {} /\ t.got = Got(r, e)

LEMMA TakeFields ==
    ASSUME NEW r \in Runs, r.pc = "reading", NEW e \in Entries
    PROVE  Takes(Take(r, e), r, e)
<1> DEFINE t == Take(r, e)
<1>1. r \in RunFields /\ r.i \in 1..Len(Listings) /\ r.page <= Cardinality(r.seen)
      /\ Listings[r.i] \in Venues
  BY VenueListed DEF Runs
<1>2. e.items \in SUBSET Notes /\ e.count \in Nat
  BY DEF Entries
<1>3. Cardinality(e.items) \in Nat /\ Cardinality(r.seen) \in Nat
  BY <1>1, <1>2, SeenFinite DEF RunFields
<1> DEFINE read == [r EXCEPT !.rows = @ + Cardinality(e.items),
                             !.seen = @ \cup e.items,
                             !.counts = @ \cup {e.count},
                             !.got = @ \cup {<<n, Listed(r)>> : n \in e.items}]
<1>4. /\ read.pc = "reading" /\ read.i = r.i /\ read.page = r.page /\ read.stale = r.stale
      /\ read.rows = Rows(r, e) /\ read.seen = Seen(r, e) /\ read.counts = Counts(r, e)
      /\ read.got = Got(r, e)
      /\ read.refresh = r.refresh /\ read.again = r.again /\ read.moved = r.moved /\ read.touched = r.touched
  BY <1>1 DEF RunFields, Rows, Seen, Counts, Got
<1>5. Got(r, e) \in SUBSET (Notes \X Venues)
  BY <1>1, <1>2 DEF Got, Listed, RunFields
<1>6. read \in RunFields
  <2>1. read = [r EXCEPT !.rows = Rows(r, e), !.seen = Seen(r, e), !.counts = Counts(r, e),
                         !.got = Got(r, e)]
    BY <1>1 DEF RunFields, Rows, Seen, Counts, Got
  <2>2. Rows(r, e) \in Nat /\ Seen(r, e) \in SUBSET Notes /\ Counts(r, e) \in SUBSET Nat
    BY <1>1, <1>2, <1>3 DEF RunFields, Rows, Seen, Counts
  <2> QED
    BY <1>1, <1>5, <2>1, <2>2 DEF RunFields
<1>7. Cardinality(r.seen) <= Cardinality(Seen(r, e)) /\ Cardinality(Seen(r, e)) \in Nat
      /\ Seen(r, e) \in SUBSET Notes
  <2>1. Seen(r, e) \in SUBSET Notes /\ r.seen \subseteq Seen(r, e)
    BY <1>1, <1>2 DEF Seen, RunFields
  <2> QED
    BY <2>1, SeenFinite, FS_Subset
<1>8. read \in Runs
  <2> HIDE DEF read
  <2>1. read.page <= Cardinality(read.seen)
    <3>1. r.page \in Nat /\ r.page <= Cardinality(Seen(r, e))
      BY <1>1, <1>3, <1>7 DEF RunFields
    <3> QED
      BY <1>4, <3>1
  <2> QED
    BY <1>1, <1>4, <1>6, <2>1 DEF Runs
<1>9. t = IF Repeats(r, e) \/ Conflicts(r, e) THEN [r EXCEPT !.pc = "refused"]
          ELSE IF Cardinality(e.items) = PageSize THEN [read EXCEPT !.page = @ + 1]
          ELSE IF Disagrees(read) THEN [read EXCEPT !.pc = "refused"]
          ELSE At(r.i + 1, read.got, read)
  BY DEF Take
<1> SUFFICES Takes(t, r, e)
  BY DEF t
<1> HIDE DEF t
<1>10. Disagrees(read) <=> Disagreeing(r, e)
  BY <1>4 DEF Disagrees, Disagreeing
<1> HIDE DEF read
<1>11. CASE Refuses(r, e)
  <2>1. t = [r EXCEPT !.pc = "refused"]
    BY <1>9, <1>11 DEF Refuses
  <2>2. /\ t \in Runs
        /\ t.refresh = r.refresh /\ t.again = r.again /\ t.moved = r.moved /\ t.touched = r.touched
        /\ t.pc = "refused" /\ t.i = r.i /\ t.page = r.page /\ t.stale = r.stale
        /\ t.rows = r.rows /\ t.seen = r.seen /\ t.counts = r.counts /\ t.got = r.got
    BY <1>1, <2>1 DEF Runs, RunFields
  <2> QED
    BY <1>11, <2>2 DEF Takes
<1>12. CASE ~Refuses(r, e) /\ Cardinality(e.items) = PageSize
  <2>1. t = [read EXCEPT !.page = @ + 1]
    BY <1>9, <1>12 DEF Refuses
  <2>2. r.seen # Seen(r, e)
    <3>1. e.items # {}
      BY <1>12, FS_EmptySet, CrawlAssumption
    <3> QED
      BY <1>12, <3>1 DEF Refuses, Repeats, Seen
  <2>3. Cardinality(r.seen) < Cardinality(Seen(r, e))
    <3>1. r.seen \subseteq Seen(r, e)
      BY DEF Seen
    <3> QED
      BY <1>3, <1>7, <2>2, <3>1, SeenFinite, FS_Subset
  <2>4. t.page = r.page + 1 /\ t.seen = Seen(r, e) /\ t.pc = "reading" /\ t.i = r.i
    BY <1>4, <1>8, <2>1 DEF Runs, RunFields
  <2>5. t \in RunFields
    BY <1>6, <2>1 DEF RunFields
  <2>6. t \in Runs
    BY <1>1, <1>3, <1>7, <2>3, <2>4, <2>5 DEF Runs, RunFields
  <2>7. /\ t.refresh = read.refresh /\ t.again = read.again /\ t.moved = read.moved /\ t.touched = read.touched
        /\ t.stale = read.stale /\ t.rows = read.rows /\ t.counts = read.counts
        /\ t.got = read.got
    BY <1>6, <2>1 DEF RunFields
  <2> QED
    BY <1>4, <1>12, <2>4, <2>6, <2>7 DEF Takes
<1>13. CASE ~Refuses(r, e) /\ Cardinality(e.items) # PageSize /\ Disagreeing(r, e)
  <2>1. t = [read EXCEPT !.pc = "refused"]
    BY <1>9, <1>10, <1>13 DEF Refuses
  <2>2. /\ t \in Runs
        /\ t.refresh = read.refresh /\ t.again = read.again /\ t.moved = read.moved /\ t.touched = read.touched
        /\ t.pc = "refused" /\ t.i = read.i /\ t.page = read.page /\ t.stale = read.stale
        /\ t.rows = read.rows /\ t.seen = read.seen /\ t.counts = read.counts
        /\ t.got = read.got
    BY <1>8, <2>1 DEF Runs, RunFields
  <2> QED
    BY <1>4, <1>13, <2>2 DEF Takes
<1>14. CASE ~Refuses(r, e) /\ Cardinality(e.items) # PageSize /\ ~Disagreeing(r, e)
  <2>1. PICK j \in Nat \ {0} : j = r.i + 1
    BY <1>1, CrawlAssumption
  <2>2. PICK g \in SUBSET (Notes \X Venues) : g = Got(r, e)
    BY <1>5
  <2>3. PICK w \in Runs : w = read
    BY <1>8
  <2>4. t = At(j, g, w)
    BY <1>4, <1>9, <1>10, <1>14, <2>1, <2>2, <2>3 DEF Refuses
  <2>5. Begins(t, j, g, w)
    BY <2>4, AtFields
  <2> QED
    BY <1>4, <1>14, <2>1, <2>2, <2>3, <2>5 DEF Begins, Takes
<1> QED
  BY <1>11, <1>12, <1>13, <1>14
-----------------------------------------------------------------------------
(* Two runs that have read the same.                                        *)
Alike(a, b) ==
    /\ a.pc = b.pc /\ a.i = b.i /\ a.page = b.page /\ a.rows = b.rows
    /\ a.seen = b.seen /\ a.counts = b.counts /\ a.got = b.got

LEMMA TakeAlike ==
    ASSUME NEW a \in Runs, NEW b \in Runs, Alike(a, b), a.pc = "reading", NEW e \in Entries
    PROVE  Alike(Take(a, e), Take(b, e))
<1> DEFINE s == Take(a, e)
           t == Take(b, e)
<1>1. Takes(s, a, e) /\ Takes(t, b, e)
  BY TakeFields DEF Alike
<1> HIDE DEF s, t
<1>2. /\ Rows(a, e) = Rows(b, e) /\ Seen(a, e) = Seen(b, e) /\ Counts(a, e) = Counts(b, e)
      /\ Got(a, e) = Got(b, e)
  BY DEF Alike, Rows, Seen, Counts, Got, Listed
<1>3. Refuses(a, e) <=> Refuses(b, e)
  BY DEF Alike, Refuses, Repeats, Conflicts, Listed
<1>4. Disagreeing(a, e) <=> Disagreeing(b, e)
  BY <1>2 DEF Disagreeing
<1>5. a.i = b.i /\ a.page = b.page /\ a.rows = b.rows
      /\ a.seen = b.seen /\ a.counts = b.counts /\ a.got = b.got
  BY DEF Alike
<1>6. Alike(s, t)
  BY <1>1, <1>2, <1>3, <1>4, <1>5 DEF Takes, Alike
<1> QED
  BY <1>6 DEF s, t
-----------------------------------------------------------------------------
(* A trail through a cache: the runs, flags aside, that a reading passes     *)
(* through.  A set that each member's next page leads back into stands for  *)
(* the whole reading, so nothing has to be said of its length or order but   *)
(* that no page is read twice.                                             *)

Spot(r) == <<Listed(r), r.page>>

AtStart == At(1, {}, Idle)

Readable(c, r) == r.pc = "reading" /\ c[Spot(r)] \in Entries /\ ~c[Spot(r)].raw

On(T, r) == \E x \in T : Alike(x, r)

Follows(c, x, T) == Readable(c, x) /\ On(T, Take(x, c[Spot(x)]))

Earlier(a, b) == a.i < b.i \/ (a.i = b.i /\ a.page < b.page)

(* From the start to where r is.                                            *)
Trail(c, T, r) ==
    /\ T \subseteq Runs /\ On(T, AtStart) /\ On(T, r)
    /\ \A x \in T : Alike(x, r) \/ (Follows(c, x, T) /\ Earlier(x, r))

(* From the start to the end: a replay that fails nowhere and gives `got`.   *)
Whole(c, T, got) ==
    /\ T \subseteq Runs /\ On(T, AtStart)
    /\ \A x \in T : (x.pc = "read" /\ x.got = got) \/ Follows(c, x, T)

LEMMA SpotOfRun ==
    ASSUME NEW r \in Runs, r.pc = "reading"
    PROVE  Spot(r) \in Venues \X Pages
<1>1. r.i \in 1..Len(Listings) /\ r.page \in Nat /\ r.seen \in SUBSET Notes
      /\ r.page <= Cardinality(r.seen)
  BY DEF Runs, RunFields
<1>2. r.page \in Pages
  <2>1. MaxPage \in Nat
    BY CrawlAssumption, FS_CardinalityType DEF MaxPage
  <2> QED
    BY <1>1, <2>1, SeenFinite DEF Pages
<1> QED
  BY <1>1, <1>2, VenueListed DEF Spot, Listed

(* A finished reading is whole.                                             *)
LEMMA TrailEnds ==
    ASSUME NEW c, NEW T, NEW r, Trail(c, T, r), r.pc = "read"
    PROVE  Whole(c, T, r.got)
BY DEF Trail, Whole, Alike

(* Whoever is on a whole trail can read on, stays on it, and ends as it does.*)
LEMMA WholeGoesOn ==
    ASSUME NEW c, NEW T, NEW got, Whole(c, T, got), NEW r \in Runs, On(T, r)
    PROVE  /\ r.pc \in {"reading", "read"}
           /\ r.pc = "read" => r.got = got
           /\ r.pc = "reading" => Readable(c, r) /\ On(T, Take(r, c[Spot(r)]))
<1>1. PICK x \in T : Alike(x, r)
  BY DEF On
<1>2. (x.pc = "read" /\ x.got = got) \/ Follows(c, x, T)
  BY DEF Whole
<1>3. ASSUME r.pc = "reading"
      PROVE  Readable(c, r) /\ On(T, Take(r, c[Spot(r)]))
  <2>1. Follows(c, x, T) /\ x \in Runs /\ Spot(x) = Spot(r) /\ x.pc = "reading"
    BY <1>1, <1>2, <1>3 DEF Alike, Spot, Listed, Whole
  <2>2. PICK y \in T : Alike(y, Take(x, c[Spot(r)]))
    BY <2>1 DEF Follows, On
  <2>3. c[Spot(r)] \in Entries /\ ~c[Spot(r)].raw
    BY <2>1 DEF Follows, Readable
  <2>4. Alike(Take(x, c[Spot(r)]), Take(r, c[Spot(r)]))
    BY <1>1, <2>1, <2>3, TakeAlike
  <2>5. Alike(y, Take(r, c[Spot(r)]))
    BY <2>2, <2>4 DEF Alike
  <2> QED
    BY <1>3, <2>2, <2>3, <2>5 DEF On, Readable
<1> QED
  BY <1>1, <1>2, <1>3 DEF Alike, Follows, Readable

(* A trail is what it was when a page that it has not reached is written.    *)
LEMMA TrailOutlivesWrite ==
    ASSUME NEW c \in [Venues \X Pages -> Entries \cup {Nothing}],
           NEW T, NEW r \in Runs, r.pc = "reading", Trail(c, T, r), NEW e
    PROVE  Trail([c EXCEPT ![Spot(r)] = e], T, r)
<1> DEFINE d == [c EXCEPT ![Spot(r)] = e]
<1>1. ASSUME NEW x \in T, ~Alike(x, r)
      PROVE  Follows(d, x, T) /\ Earlier(x, r)
  <2>1. x \in Runs /\ Follows(c, x, T) /\ Earlier(x, r) /\ x.pc = "reading"
    BY <1>1 DEF Trail, Follows, Readable
  <2>2. Spot(x) \in Venues \X Pages
    BY <2>1, SpotOfRun
  <2>3. Spot(x) # Spot(r)
    <3>1. x.i \in 1..Len(Listings) /\ r.i \in 1..Len(Listings) /\ x.page \in Nat /\ r.page \in Nat
      BY <2>1 DEF Runs, RunFields
    <3>2. Listings[x.i] = Listings[r.i] => x.i = r.i
      BY <3>1, CrawlAssumption DEF IsInjective
    <3>3. x.i # r.i \/ x.page # r.page
      BY <2>1, <3>1 DEF Earlier
    <3> QED
      BY <3>2, <3>3 DEF Spot, Listed
  <2>4. d[Spot(x)] = c[Spot(x)]
    BY <2>2, <2>3
  <2> HIDE DEF d
  <2> QED
    BY <2>1, <2>4 DEF Follows, Readable
<1> HIDE DEF d
<1>2. Trail(d, T, r)
  BY <1>1 DEF Trail
<1> QED
  BY <1>2 DEF d

(* A page taken makes the trail longer, unless it is refused.               *)
LEMMA TrailGoesOn ==
    ASSUME NEW c, NEW T, NEW r \in Runs, Trail(c, T, r), Readable(c, r),
           Take(r, c[Spot(r)]).pc # "refused"
    PROVE  \E U : Trail(c, U, Take(r, c[Spot(r)]))
<1> DEFINE e == c[Spot(r)]
           t == Take(r, e)
           U == T \cup {t}
<1>1. e \in Entries /\ r.pc = "reading" /\ Takes(t, r, e) /\ t.pc # "refused"
  BY TakeFields DEF Readable
<1>2. t \in Runs /\ Alike(t, t)
  BY <1>1 DEF Takes, Alike
<1>3. Earlier(r, t)
  <2>1. r.i \in Nat /\ r.page \in Nat
    BY DEF Runs, RunFields
  <2> HIDE DEF t, e
  <2> QED
    BY <1>1, <2>1 DEF Takes, Earlier
<1>4. ASSUME NEW x \in T
      PROVE  Follows(c, x, U) /\ Earlier(x, t)
  <2>1. x \in Runs
    BY DEF Trail
  <2>2. CASE Alike(x, r)
    <3>1. Readable(c, x) /\ Spot(x) = Spot(r)
      BY <2>2 DEF Alike, Readable, Spot, Listed
    <3>2. Alike(Take(x, e), t)
      BY <1>1, <2>1, <2>2, <3>1, TakeAlike DEF Readable
    <3>3. Alike(t, Take(x, e))
      BY <3>2 DEF Alike
    <3>4. On(U, Take(x, c[Spot(x)]))
      BY <3>1, <3>3 DEF On
    <3>5. Earlier(x, t)
      <4> HIDE DEF t
      <4> QED
        BY <1>3, <2>2 DEF Alike, Earlier
    <3> QED
      BY <3>1, <3>4, <3>5 DEF Follows
  <2>3. CASE ~Alike(x, r)
    <3>1. Follows(c, x, T) /\ Earlier(x, r)
      BY <2>3 DEF Trail
    <3>2. Follows(c, x, U)
      BY <3>1 DEF Follows, On
    <3>3. x.i \in Nat /\ r.i \in Nat /\ t.i \in Nat /\ x.page \in Nat /\ r.page \in Nat /\ t.page \in Nat
      BY <1>2, <2>1 DEF Runs, RunFields
    <3>4. Earlier(x, t)
      <4> HIDE DEF t
      <4> QED
        BY <1>3, <3>1, <3>3 DEF Earlier
    <3> QED
      BY <3>2, <3>4
  <2> QED
    BY <2>2, <2>3
<1>5. U \subseteq Runs /\ On(U, AtStart) /\ On(U, t)
  BY <1>2 DEF Trail, On
<1> HIDE DEF U, t
<1>6. \A x \in U : x \in T \/ x = t
  BY DEF U
<1>7. Trail(c, U, t)
  BY <1>2, <1>4, <1>5, <1>6 DEF Trail
<1> QED
  BY <1>7 DEF t

(* Whatever its flags, a run starts where every other does.                  *)
LEMMA StartFields ==
    ASSUME NEW f \in Runs
    PROVE  /\ At(1, {}, f) \in Runs /\ Alike(At(1, {}, f), AtStart) /\ Alike(At(1, {}, f), At(1, {}, f))
           /\ At(1, {}, f).pc \in {"reading", "read"}
           /\ At(1, {}, f).stale = FALSE /\ At(1, {}, f).refresh = f.refresh
           /\ At(1, {}, f).moved = f.moved /\ At(1, {}, f).touched = f.touched
<1>1. Begins(At(1, {}, f), 1, {}, f) /\ Begins(AtStart, 1, {}, Idle)
  <2>1. PICK i \in Nat \ {0} : i = 1
    OBVIOUS
  <2>2. PICK got \in SUBSET (Notes \X Venues) : got = {}
    OBVIOUS
  <2>3. PICK g \in Runs : g = Idle
    BY IdleFields
  <2>4. Begins(At(i, got, f), i, got, f) /\ Begins(At(i, got, g), i, got, g)
    BY AtFields
  <2> QED
    BY <2>1, <2>2, <2>3, <2>4 DEF AtStart
<1> DEFINE a == At(1, {}, f)
<1> HIDE DEF a
<1>2. /\ a \in Runs /\ Alike(a, AtStart) /\ Alike(a, a)
      /\ a.pc \in {"reading", "read"}
      /\ a.stale = FALSE /\ a.refresh = f.refresh /\ a.moved = f.moved /\ a.touched = f.touched
  BY <1>1 DEF Begins, Alike, a
<1> QED
  BY <1>2 DEF a

(* A run that starts is its own trail.                                      *)
LEMMA TrailBegins ==
    ASSUME NEW c, NEW r \in Runs, Alike(r, AtStart)
    PROVE  Trail(c, {r}, r)
BY DEF Trail, On, Alike

LEMMA OnAlike ==
    ASSUME NEW T, NEW r, NEW s, Alike(r, s)
    PROVE  On(T, r) <=> On(T, s)
BY DEF On, Alike

LEMMA TrailAlike ==
    ASSUME NEW c, NEW T, NEW r, NEW s, Alike(r, s), Trail(c, T, r)
    PROVE  Trail(c, T, s)
BY DEF Trail, On, Alike, Earlier

-----------------------------------------------------------------------------
CrawlTyped ==
    /\ server \in [Venues -> SUBSET Notes] /\ clock \in Nat
    /\ cache \in [Venues \X Pages -> Entries \cup {Nothing}]
    /\ run \in [Crawlers -> Runs]
    /\ finished \in Seq(SUBSET (Notes \X Venues)) /\ dirty \in BOOLEAN

(* The lock is its holder's alone, and a replay neither refetches nor is      *)
(* untouched by what is not yet a finished crawl's.                         *)
LockHeld == \A p \in Ingesters : Running(p) => lock = p

BuilderOffline ==
    /\ run[Builder].refresh = FALSE /\ run[Builder].stale = FALSE
    /\ dirty => run[Builder].touched = TRUE

(* What a live crawl has read is in the cache, page by page.                *)
LiveTrails == \A p \in Ingesters : Running(p) => \E T : Trail(cache, T, run[p])

(* A cache nobody wrote to since a crawl finished replays as that crawl, and *)
(* whoever reads it now is on the way to the same end.                      *)
Replays(T) ==
    /\ Whole(cache, T, Last(finished))
    /\ \A p \in Ingesters : Running(p) => On(T, run[p])
    /\ Running(Builder) /\ run[Builder].touched = FALSE => On(T, run[Builder])

CleanReplays == ~dirty /\ finished # <<>> => \E T : Replays(T)

BuilderInv ==
    run[Builder].touched = FALSE =>
        /\ run[Builder].pc \notin {"failed", "refused"}
        /\ run[Builder].pc # "idle" => finished # <<>>
        /\ run[Builder].pc = "done" => run[Builder].got = Last(finished)

CacheInv == CrawlTyped /\ LockHeld /\ BuilderOffline /\ LiveTrails /\ CleanReplays /\ BuilderInv

LEMMA CacheInvInit == CrawlInit => CacheInv
<1> SUFFICES ASSUME CrawlInit PROVE CacheInv
  OBVIOUS
<1>1. run = [p \in Crawlers |-> Idle] /\ Idle \in Runs /\ Builder \in Crawlers
      /\ Idle.pc = "idle" /\ Idle.refresh = FALSE /\ Idle.stale = FALSE /\ Idle.touched = FALSE
  BY IdleFields DEF CrawlInit, Idle, Crawlers
<1>2. CrawlTyped
  <2>1. server \in [Venues -> SUBSET Notes]
    BY CrawlAssumption DEF CrawlInit
  <2>2. cache \in [Venues \X Pages -> Entries \cup {Nothing}]
    BY DEF CrawlInit, Entries
  <2>3. run \in [Crawlers -> Runs]
    BY <1>1
  <2>4. clock \in Nat /\ dirty \in BOOLEAN /\ finished = <<>>
    BY DEF CrawlInit
  <2> QED
    BY <2>1, <2>2, <2>3, <2>4 DEF CrawlTyped
<1>3. \A p \in Crawlers : ~Running(p)
  BY <1>1 DEF Running
<1>4. BuilderOffline /\ BuilderInv
  BY <1>1 DEF BuilderOffline, BuilderInv, CrawlInit
<1>5. finished = <<>>
  BY DEF CrawlInit
<1> QED
  BY <1>2, <1>3, <1>4, <1>5 DEF CacheInv, LockHeld, LiveTrails, CleanReplays, Crawlers

(* A run that goes on to a state alike the one it was in: nothing is read.   *)
LEMMA NothingRead ==
    ASSUME CacheInv, CrawlTyped', UNCHANGED <<cache, lock, finished, dirty>>,
           \A p \in Crawlers :
              /\ Alike(run[p], run'[p]) /\ run'[p].stale = run[p].stale
              /\ run'[p].refresh = run[p].refresh /\ run'[p].touched = run[p].touched
    PROVE  CacheInv'
<1>1. \A p \in Crawlers : /\ Running(p)' <=> Running(p)
                          /\ \A T : On(T, run[p]) => On(T, run'[p])
                          /\ \A T : Trail(cache, T, run[p]) => Trail(cache, T, run'[p])
  <2>1. \A p \in Crawlers : Running(p)' <=> Running(p)
    BY DEF Running, Alike
  <2> QED
    BY <2>1, OnAlike, TrailAlike
<1>2. Builder \in Crawlers /\ Ingesters \subseteq Crawlers
  BY DEF Crawlers
<1>3. LockHeld'
  BY <1>1, <1>2 DEF CacheInv, LockHeld
<1>4. BuilderOffline' /\ BuilderInv'
  BY <1>2 DEF CacheInv, BuilderOffline, BuilderInv, Alike
<1>5. LiveTrails'
  BY <1>1, <1>2 DEF CacheInv, LiveTrails
<1>6. CleanReplays'
  <2>1. ASSUME NEW T, Replays(T) PROVE Replays(T)'
    BY <1>1, <1>2, <2>1 DEF Replays
  <2> QED
    BY <2>1 DEF CacheInv, CleanReplays
<1> QED
  BY <1>3, <1>4, <1>5, <1>6 DEF CacheInv

(* One run moves on, and nothing else changes but the lock.                 *)
LEMMA RunMoves ==
    ASSUME CacheInv, UNCHANGED <<cache, server, clock, finished, dirty>>,
           NEW p \in Crawlers, NEW t \in Runs, run' = [run EXCEPT ![p] = t],
           \A q \in Ingesters \ {p} : Running(q) => lock' = q,
           p \in Ingesters /\ t.pc \in {"reading", "read"} =>
              /\ lock' = p
              /\ \E T : Trail(cache, T, t)
              /\ \A T : Replays(T) => On(T, t),
           p = Builder =>
              /\ t.refresh = FALSE /\ t.stale = FALSE /\ (dirty => t.touched = TRUE)
              /\ t.touched = FALSE =>
                    /\ t.pc \notin {"failed", "refused"}
                    /\ t.pc # "idle" => finished # <<>>
                    /\ t.pc = "done" => t.got = Last(finished)
                    /\ t.pc \in {"reading", "read"} => \A T : Replays(T) => On(T, t)
    PROVE  CacheInv'
<1>1. /\ Builder \in Crawlers /\ Ingesters \subseteq Crawlers /\ Builder \notin Ingesters
      /\ \A q \in Crawlers : q = Builder \/ q \in Ingesters
  BY CrawlAssumption DEF Crawlers
<1>2. /\ run'[p] = t /\ run' \in [Crawlers -> Runs]
      /\ \A q \in Crawlers : q # p => run'[q] = run[q]
  BY DEF CacheInv, CrawlTyped
<1>3. CrawlTyped'
  BY <1>2 DEF CacheInv, CrawlTyped
<1>4. /\ \A q \in Crawlers : q # p => (Running(q)' <=> Running(q))
      /\ Running(p)' <=> t.pc \in {"reading", "read"}
  BY <1>2 DEF Running
<1>5. LockHeld'
  BY <1>1, <1>4 DEF LockHeld
<1>6. BuilderOffline'
  BY <1>1, <1>2 DEF CacheInv, BuilderOffline
<1>7. BuilderInv'
  BY <1>1, <1>2 DEF CacheInv, BuilderInv
<1>8. LiveTrails'
  BY <1>1, <1>2, <1>4 DEF CacheInv, LiveTrails
<1>9. CleanReplays'
  <2>1. ASSUME NEW T, Replays(T) PROVE Replays(T)'
    <3>1. Whole(cache, T, Last(finished))'
      BY <2>1 DEF Replays
    <3>2. ASSUME NEW q \in Ingesters, Running(q)' PROVE On(T, run'[q])
      BY <1>1, <1>2, <1>4, <2>1, <3>2 DEF Replays
    <3>3. ASSUME Running(Builder)', run'[Builder].touched = FALSE PROVE On(T, run'[Builder])
      BY <1>1, <1>2, <1>4, <2>1, <3>3 DEF Replays
    <3> QED
      BY <3>1, <3>2, <3>3 DEF Replays
  <2> QED
    BY <2>1 DEF CacheInv, CleanReplays
<1> QED
  BY <1>3, <1>5, <1>6, <1>7, <1>8, <1>9 DEF CacheInv

LEMMA LockIsAlone ==
    ASSUME CacheInv, NEW p \in Ingesters, Running(p) \/ lock = Nothing
    PROVE  \A q \in Ingesters \ {p} : ~Running(q)
BY CrawlAssumption DEF CacheInv, LockHeld

LEMMA StartIngestKeeps ==
    ASSUME CacheInv, NEW p \in Crawlers, StartIngest(p)
    PROVE  CacheInv'
<1>1. p \in Ingesters /\ p # Builder /\ lock' = p /\ lock = Nothing
  BY CrawlAssumption DEF StartIngest, Live
<1>2. PICK refresh \in BOOLEAN : run' = [run EXCEPT ![p] = At(1, {}, [Idle EXCEPT !.refresh = refresh])]
  BY DEF StartIngest, Continues
<1> DEFINE t == At(1, {}, [Idle EXCEPT !.refresh = refresh])
<1>3. t \in Runs /\ Alike(t, AtStart) /\ t.pc \in {"reading", "read"}
  BY StartFields, IdleFields
<1> HIDE DEF t
<1>4. run' = [run EXCEPT ![p] = t]
  BY <1>2 DEF t
<1>5. Trail(cache, {t}, t)
  BY <1>3, TrailBegins
<1>6. ASSUME NEW T, Replays(T) PROVE On(T, t)
  <2>1. On(T, AtStart)
    BY <1>6 DEF Replays, Whole
  <2> QED
    BY <1>3, <2>1, OnAlike
<1>7. UNCHANGED <<cache, server, clock, finished, dirty>>
  BY DEF StartIngest
<1>8. \A q \in Ingesters \ {p} : ~Running(q)
  BY <1>1, LockIsAlone
<1> QED
  BY <1>1, <1>3, <1>4, <1>5, <1>6, <1>7, <1>8, RunMoves

LEMMA StartReplayKeeps ==
    ASSUME CacheInv, StartReplay
    PROVE  CacheInv'
<1> DEFINE t == At(1, {}, [Idle EXCEPT !.touched = dirty])
<1>1. dirty \in BOOLEAN /\ Builder \in Crawlers
  BY DEF CacheInv, CrawlTyped, Crawlers
<1>2. /\ [Idle EXCEPT !.touched = dirty].touched = dirty
      /\ [Idle EXCEPT !.touched = dirty].refresh = FALSE
  BY DEF Idle
<1>3. /\ t \in Runs /\ Alike(t, AtStart) /\ t.pc \in {"reading", "read"}
      /\ t.refresh = FALSE /\ t.stale = FALSE /\ t.touched = dirty
  BY <1>1, <1>2, StartFields, IdleFields
<1>4. run' = [run EXCEPT ![Builder] = t] /\ finished # <<>> /\ lock' = lock
  BY DEF StartReplay, Continues
<1> HIDE DEF t
<1>5. ASSUME NEW T, Replays(T) PROVE On(T, t)
  <2>1. On(T, AtStart)
    BY <1>5 DEF Replays, Whole
  <2> QED
    BY <1>3, <2>1, OnAlike
<1>6. UNCHANGED <<cache, server, clock, finished, dirty>>
  BY DEF StartReplay
<1>7. \A q \in Ingesters \ {Builder} : Running(q) => lock' = q
  BY <1>4 DEF CacheInv, LockHeld
<1>8. Builder \notin Ingesters /\ (dirty => t.touched = TRUE)
  BY <1>3, CrawlAssumption
<1> QED
  BY <1>1, <1>3, <1>4, <1>5, <1>6, <1>7, <1>8, RunMoves

(* A page of the cache that may answer can be read, and offline any entry of *)
(* the public layout may.                                                  *)
LEMMA HitReads ==
    ASSUME CacheInv, NEW p \in Crawlers, run[p].pc = "reading"
    PROVE  /\ run[p] \in Runs /\ Cached(p) = cache[Spot(run[p])] /\ Wanted(p) = Spot(run[p])
           /\ Spot(run[p]) \in Venues \X Pages
           /\ Cached(p) # Nothing => Cached(p) \in Entries
           /\ Hit(p) => Readable(cache, run[p])
           /\ p = Builder /\ Readable(cache, run[p]) => Hit(p)
<1>1. run[p] \in Runs /\ cache \in [Venues \X Pages -> Entries \cup {Nothing}]
  BY DEF CacheInv, CrawlTyped
<1>2. Cached(p) = cache[Spot(run[p])] /\ Wanted(p) = Spot(run[p])
  BY DEF Cached, Wanted, Spot
<1>3. Spot(run[p]) \in Venues \X Pages
  BY <1>1, SpotOfRun
<1>4. Cached(p) # Nothing => Cached(p) \in Entries
  BY <1>1, <1>2, <1>3
<1>5. Hit(p) => Readable(cache, run[p])
  BY <1>2, <1>4 DEF Hit, Readable
<1>6. p = Builder /\ Readable(cache, run[p]) => Hit(p)
  BY <1>2, CrawlAssumption DEF Hit, Readable, Live, Asks, CacheInv, BuilderOffline
<1> QED
  BY <1>1, <1>2, <1>3, <1>4, <1>5, <1>6

LEMMA TakeCachedKeeps ==
    ASSUME CacheInv, NEW p \in Crawlers, TakeCached(p)
    PROVE  CacheInv'
<1> DEFINE r == run[p]
           t == Take(r, cache[Spot(r)])
<1>1. /\ r \in Runs /\ r.pc = "reading" /\ Readable(cache, r) /\ Cached(p) = cache[Spot(r)]
      /\ Running(p)
  BY HitReads DEF TakeCached, Running
<1>2. Takes(t, r, cache[Spot(r)])
  BY <1>1, TakeFields DEF Readable
<1>3. /\ run' = [run EXCEPT ![p] = t]
      /\ IF t.pc = "refused" THEN Ends(p) ELSE lock' = lock
      /\ UNCHANGED <<cache, server, clock, finished, dirty>>
  BY <1>1 DEF TakeCached, Continues
<1> HIDE DEF t
<1>4. t \in Runs /\ t.refresh = r.refresh /\ t.touched = r.touched
      /\ (r.stale = FALSE => t.stale = FALSE) /\ t.pc \in {"reading", "read", "refused"}
  BY <1>2 DEF Takes
<1>5. ASSUME NEW T, Replays(T), On(T, r)
      PROVE  On(T, t) /\ t.pc # "refused"
  <2>1. Whole(cache, T, Last(finished))
    BY <1>5 DEF Replays
  <2>2. On(T, t)
    BY <1>1, <1>5, <2>1, WholeGoesOn DEF t
  <2> QED
    BY <1>4, <2>1, <2>2, WholeGoesOn
<1>6. CASE p \in Ingesters
  <2>1. p # Builder /\ lock = p
    BY <1>1, <1>6, CrawlAssumption DEF CacheInv, LockHeld
  <2>2. \A q \in Ingesters \ {p} : ~Running(q)
    BY <1>1, <1>6, LockIsAlone
  <2>3. ASSUME t.pc \in {"reading", "read"}
        PROVE  /\ lock' = p
               /\ \E T : Trail(cache, T, t)
               /\ \A T : Replays(T) => On(T, t)
    <3>1. lock' = p
      BY <1>3, <2>1, <2>3
    <3>2. \E T : Trail(cache, T, t)
      <4>1. PICK T : Trail(cache, T, r)
        BY <1>1, <1>6 DEF CacheInv, LiveTrails
      <4> QED
        BY <1>1, <2>3, <4>1, TrailGoesOn DEF t
    <3>3. ASSUME NEW T, Replays(T) PROVE On(T, t)
      <4>1. On(T, r)
        BY <1>1, <1>6, <3>3 DEF Replays
      <4> QED
        BY <1>5, <3>3, <4>1
    <3> QED
      BY <3>1, <3>2, <3>3
  <2> QED
    BY <1>3, <1>4, <2>1, <2>2, <2>3, RunMoves
<1>7. CASE p = Builder
  <2>1. p \notin Ingesters
    BY <1>7, CrawlAssumption
  <2>2. \A q \in Ingesters \ {p} : Running(q) => lock' = q
    BY <1>3, <2>1 DEF CacheInv, LockHeld, Ends, Live
  <2>3. t.refresh = FALSE /\ t.stale = FALSE /\ (dirty => t.touched = TRUE)
    BY <1>4, <1>7 DEF CacheInv, BuilderOffline
  <2>4. ASSUME t.touched = FALSE
        PROVE  /\ t.pc \notin {"failed", "refused"}
               /\ t.pc # "idle" => finished # <<>>
               /\ t.pc = "done" => t.got = Last(finished)
               /\ t.pc \in {"reading", "read"} => \A T : Replays(T) => On(T, t)
    <3>1. finished # <<>> /\ ~dirty
      BY <1>1, <1>4, <1>7, <2>3, <2>4 DEF CacheInv, BuilderInv
    <3>2. PICK T : Replays(T)
      BY <3>1 DEF CacheInv, CleanReplays
    <3>3. \A U : Replays(U) => On(U, r)
      BY <1>1, <1>4, <1>7, <2>4 DEF Replays
    <3> QED
      BY <1>4, <1>5, <3>1, <3>2, <3>3
  <2> QED
    BY <1>3, <1>4, <2>1, <2>2, <2>3, <2>4, RunMoves
<1> QED
  BY <1>6, <1>7 DEF Crawlers

LEMMA FailsOrDiesKeeps ==
    ASSUME CacheInv, NEW p \in Crawlers, Fails(p) \/ Dies(p)
    PROVE  CacheInv'
<1>1. run[p] \in Runs /\ Running(p)
  BY DEF CacheInv, CrawlTyped, Fails, Dies, Running
<1>2. PICK how \in {"failed", "idle"} :
        /\ run' = [run EXCEPT ![p] = Over(p, how)] /\ Ends(p)
        /\ how = "failed" => Fails(p)
        /\ UNCHANGED <<cache, server, clock, finished, dirty>>
  BY DEF Fails, Dies, Continues
<1> DEFINE t == Over(p, how)
<1>3. CASE p \in Ingesters
  <2>1. t = Idle /\ t \in Runs /\ t.pc = "idle" /\ p # Builder
    BY <1>3, IdleFields, CrawlAssumption DEF Over, Live, Idle
  <2>2. \A q \in Ingesters \ {p} : ~Running(q)
    BY <1>1, <1>3, LockIsAlone
  <2> HIDE DEF t
  <2>3. run' = [run EXCEPT ![p] = t]
    BY <1>2 DEF t
  <2> QED
    BY <1>2, <2>1, <2>2, <2>3, RunMoves
<1>4. CASE p = Builder
  <2>1. p \notin Ingesters
    BY <1>4, CrawlAssumption
  <2>2. t = [run[p] EXCEPT !.pc = how]
    BY <2>1 DEF Over, Live
  <2>3. t \in Runs /\ t.pc = how /\ t.refresh = run[p].refresh /\ t.stale = run[p].stale
        /\ t.touched = run[p].touched
    BY <1>1, <2>2 DEF Runs, RunFields
  <2> HIDE DEF t
  <2>4. run' = [run EXCEPT ![p] = t]
    BY <1>2 DEF t
  <2>5. t.refresh = FALSE /\ t.stale = FALSE /\ (dirty => t.touched = TRUE)
    BY <1>4, <2>3 DEF CacheInv, BuilderOffline
  <2>6. \A q \in Ingesters \ {p} : Running(q) => lock' = q
    BY <1>2, <2>1 DEF CacheInv, LockHeld, Ends, Live
  <2>7. ASSUME t.touched = FALSE, how = "failed"
        PROVE  FALSE
    <3>1. run[p].pc = "reading" /\ ~Hit(p)
      BY <1>2, <2>7 DEF Fails
    <3>2. finished # <<>> /\ ~dirty
      BY <1>4, <2>3, <2>5, <2>7, <3>1 DEF CacheInv, BuilderInv
    <3>3. PICK T : Replays(T)
      BY <3>2 DEF CacheInv, CleanReplays
    <3>4. On(T, run[p]) /\ Whole(cache, T, Last(finished))
      BY <1>1, <1>4, <2>3, <2>7, <3>3 DEF Replays
    <3>5. Readable(cache, run[p])
      BY <1>1, <3>1, <3>4, WholeGoesOn
    <3> QED
      BY <1>4, <3>1, <3>5, HitReads
  <2> QED
    BY <1>2, <2>1, <2>3, <2>4, <2>5, <2>6, <2>7, RunMoves
<1> QED
  BY <1>3, <1>4 DEF Crawlers

(* What the server answers is an entry of the cache's layout.                *)
LEMMA EntryTyped ==
    ASSUME CrawlTyped, NEW l \in Venues, NEW k
    PROVE  /\ Entry(l, k) \in Entries /\ Entry(l, k).raw = FALSE
           /\ Entry(l, k).items = PageOf(l, k) /\ Entry(l, k).count = Cardinality(server[l])
<1>1. server[l] \in SUBSET Notes
  BY DEF CrawlTyped
<1>2. PageOf(l, k) \in SUBSET Notes /\ Cardinality(server[l]) \in Nat
  BY <1>1, SeenFinite DEF PageOf, Slice
<1> QED
  BY <1>2 DEF Entry, Entries, CrawlTyped

(* The flags that a listing is fetched again are nothing read.               *)
Flagged(r, b, g) == [r EXCEPT !.stale = @ \/ b, !.again = @ \cup g]

LEMMA StaleAlike ==
    ASSUME NEW r \in Runs, r.pc = "reading", NEW b \in BOOLEAN,
           NEW g \in SUBSET (Venues \X Nat),
           NEW s, s = Flagged(r, b, g)
    PROVE  /\ s \in Runs /\ Alike(r, s) /\ s.pc = "reading" /\ Listed(s) = Listed(r)
           /\ s.page = r.page /\ s.refresh = r.refresh /\ s.moved = r.moved
           /\ s.stale = (r.stale \/ b) /\ s.again = r.again \cup g
<1>1. r \in RunFields /\ r.i \in 1..Len(Listings) /\ r.page <= Cardinality(r.seen)
  BY DEF Runs
<1>2. (r.stale \/ b) \in BOOLEAN /\ r.again \cup g \in SUBSET (Venues \X Nat)
  BY <1>1 DEF RunFields
<1>3. /\ s \in RunFields /\ s.stale = (r.stale \/ b) /\ s.again = r.again \cup g /\ s.pc = "reading"
      /\ s.i = r.i /\ s.page = r.page /\ s.rows = r.rows /\ s.seen = r.seen
      /\ s.counts = r.counts /\ s.got = r.got /\ s.refresh = r.refresh /\ s.moved = r.moved
  BY <1>1, <1>2 DEF RunFields, Flagged
<1> QED
  BY <1>1, <1>3 DEF Runs, Alike, Listed

LEMMA FetchKeeps ==
    ASSUME CacheInv, NEW p \in Crawlers, Fetch(p)
    PROVE  CacheInv'
<1> DEFINE aged == ~Asks(p) /\ Cached(p) # Nothing /\ ~Cached(p).raw
           entry == Entry(Listed(run[p]), run[p].page)
           again == IF aged \/ run[p].refresh THEN {Wanted(p)} ELSE {}
           r == [run[p] EXCEPT !.stale = @ \/ aged, !.again = @ \cup again]
           t == Take(r, entry)
<1>1. /\ p \in Ingesters /\ p # Builder /\ Builder \in Crawlers
      /\ run[p].pc = "reading" /\ Running(p) /\ lock = p
  BY CrawlAssumption DEF Fetch, Live, Running, CacheInv, LockHeld, Crawlers
<1>2. /\ cache' = [cache EXCEPT ![Spot(run[p])] = entry]
      /\ run' = [run EXCEPT ![p] = t, ![Builder].touched = TRUE]
      /\ IF t.pc = "refused" THEN Ends(p) ELSE lock' = lock
      /\ dirty' = TRUE /\ UNCHANGED <<server, clock, finished>>
  BY DEF Fetch, Wanted, Spot
<1>3. run[p] \in Runs /\ Spot(run[p]) \in Venues \X Pages
  BY <1>1, HitReads
<1>4. r \in Runs /\ Alike(run[p], r) /\ Spot(r) = Spot(run[p]) /\ r.pc = "reading"
  <2>1. again \in SUBSET (Venues \X Nat) /\ aged \in BOOLEAN
    BY <1>1, <1>3, HitReads DEF Pages
  <2>r. r = Flagged(run[p], aged, again)
    BY DEF Flagged
  <2> HIDE DEF aged, again, r
  <2>2. /\ r \in Runs /\ Alike(run[p], r) /\ r.pc = "reading" /\ Listed(r) = Listed(run[p])
        /\ r.page = run[p].page
    BY <1>1, <1>3, <2>1, <2>r, StaleAlike
  <2> QED
    BY <2>2 DEF Spot
<1>5. entry \in Entries /\ entry.raw = FALSE
  <2>1. Listed(run[p]) \in Venues
    BY <1>1, <1>3, VenueListed DEF Runs, Listed
  <2> QED
    BY <2>1, EntryTyped DEF CacheInv
<1>6. Takes(t, r, entry)
  BY <1>4, <1>5, TakeFields
<1> HIDE DEF r, entry
<1>7. cache' \in [Venues \X Pages -> Entries \cup {Nothing}] /\ cache'[Spot(r)] = entry
  BY <1>2, <1>3, <1>4, <1>5 DEF CacheInv, CrawlTyped
<1>8. Readable(cache', r)
  BY <1>4, <1>5, <1>7 DEF Readable
<1>9. ASSUME t.pc # "refused" PROVE \E T : Trail(cache', T, t)
  <2>1. PICK T : Trail(cache, T, run[p])
    BY <1>1 DEF CacheInv, LiveTrails
  <2>2. Trail(cache, T, r)
    BY <1>4, <2>1, TrailAlike
  <2>3. Trail(cache', T, r)
    BY <1>2, <1>4, <2>2, TrailOutlivesWrite DEF CacheInv, CrawlTyped
  <2> QED
    BY <1>4, <1>7, <1>8, <1>9, <2>3, TrailGoesOn
<1> HIDE DEF t
<1>10. t \in Runs /\ t.pc \in {"reading", "read", "refused"}
  BY <1>4, <1>6 DEF Takes
<1> DEFINE b == [run[Builder] EXCEPT !.touched = TRUE]
<1>11. b \in Runs /\ b.touched = TRUE /\ b.refresh = FALSE /\ b.stale = FALSE
  <2>1. /\ run[Builder] \in Runs /\ run[Builder].refresh = FALSE /\ run[Builder].stale = FALSE
    BY <1>1 DEF CacheInv, CrawlTyped, BuilderOffline
  <2>2. /\ b \in RunFields /\ b.touched = TRUE /\ b.refresh = FALSE /\ b.stale = FALSE
        /\ b.pc = run[Builder].pc /\ b.i = run[Builder].i /\ b.page = run[Builder].page
        /\ b.seen = run[Builder].seen
    BY <2>1 DEF Runs, RunFields
  <2> HIDE DEF b
  <2> QED
    BY <2>1, <2>2 DEF Runs
<1>12. /\ run' \in [Crawlers -> Runs] /\ run'[p] = t /\ run'[Builder] = b
       /\ \A q \in Crawlers \ {p, Builder} : run'[q] = run[q]
  <2>1. run \in [Crawlers -> Runs]
    BY DEF CacheInv, CrawlTyped
  <2>2. run' = [q \in Crawlers |-> IF q = Builder THEN b ELSE IF q = p THEN t ELSE run[q]]
    BY <1>1, <1>2, <2>1
  <2> HIDE DEF b
  <2> QED
    BY <1>1, <1>10, <1>11, <2>1, <2>2
<1> HIDE DEF b
<1>13. CrawlTyped'
  BY <1>2, <1>7, <1>12 DEF CacheInv, CrawlTyped
<1>14. \A q \in Ingesters : Running(q)' => q = p /\ t.pc # "refused"
  <2>1. \A q \in Ingesters \ {p} : ~Running(q) /\ q \in Crawlers \ {p, Builder}
    BY <1>1, LockIsAlone, CrawlAssumption DEF Crawlers
  <2> QED
    BY <1>1, <1>12, <2>1 DEF Running
<1>15. LockHeld'
  BY <1>1, <1>2, <1>14 DEF LockHeld
<1>16. BuilderOffline' /\ BuilderInv' /\ CleanReplays'
  BY <1>2, <1>11, <1>12 DEF BuilderOffline, BuilderInv, CleanReplays
<1>17. LiveTrails'
  BY <1>9, <1>12, <1>14 DEF LiveTrails
<1> QED
  BY <1>13, <1>15, <1>16, <1>17 DEF CacheInv

LEMMA FinishKeeps ==
    ASSUME CacheInv, NEW p \in Crawlers, Finish(p)
    PROVE  CacheInv'
<1>1. run[p] \in Runs /\ Running(p) /\ run[p].pc = "read"
  BY DEF CacheInv, CrawlTyped, Finish, Running
<1>2. CASE p = Builder
  <2>1. p \notin Ingesters
    BY <1>2, CrawlAssumption
  <2> DEFINE t == [run[p] EXCEPT !.pc = "done"]
  <2>2. run' = [run EXCEPT ![p] = t] /\ UNCHANGED <<cache, server, clock, finished, dirty, lock>>
    BY <2>1 DEF Finish, Continues, Over, Ends, Live
  <2>3. t \in Runs /\ t.pc = "done" /\ t.refresh = run[p].refresh /\ t.stale = run[p].stale
        /\ t.touched = run[p].touched /\ t.got = run[p].got
    BY <1>1 DEF Runs, RunFields
  <2> HIDE DEF t
  <2>4. t.refresh = FALSE /\ t.stale = FALSE /\ (dirty => t.touched = TRUE)
    BY <1>2, <2>3 DEF CacheInv, BuilderOffline
  <2>5. ASSUME t.touched = FALSE
        PROVE  finished # <<>> /\ t.got = Last(finished)
    <3>1. finished # <<>> /\ ~dirty
      BY <1>1, <1>2, <2>3, <2>4, <2>5 DEF CacheInv, BuilderInv
    <3>2. PICK T : Replays(T)
      BY <3>1 DEF CacheInv, CleanReplays
    <3>3. On(T, run[p]) /\ Whole(cache, T, Last(finished))
      BY <1>1, <1>2, <2>3, <2>5, <3>2 DEF Replays
    <3> QED
      BY <1>1, <2>3, <3>1, <3>3, WholeGoesOn
  <2>6. \A q \in Ingesters \ {p} : Running(q) => lock' = q
    BY <2>2 DEF CacheInv, LockHeld
  <2> QED
    BY <1>2, <2>1, <2>2, <2>3, <2>4, <2>5, <2>6, RunMoves
<1>3. CASE p \in Ingesters
  <2>1. p # Builder /\ Builder \in Crawlers
    BY <1>3, CrawlAssumption DEF Crawlers
  <2>2. /\ run' = [run EXCEPT ![p] = Idle] /\ dirty' = FALSE
        /\ finished' = Append(finished, run[p].got) /\ UNCHANGED <<cache, server, clock>>
    BY <1>3 DEF Finish, Continues, Over, Live
  <2>3. run[p].got \in SUBSET (Notes \X Venues)
    BY <1>1 DEF Runs, RunFields
  <2>4. finished' \in Seq(SUBSET (Notes \X Venues)) /\ finished' # <<>>
        /\ Last(finished') = run[p].got
    BY <2>2, <2>3 DEF CacheInv, CrawlTyped, Last
  <2>5. /\ run' \in [Crawlers -> Runs] /\ run'[p] = Idle /\ Idle.pc = "idle"
        /\ \A q \in Crawlers \ {p} : run'[q] = run[q]
    BY <2>2, IdleFields DEF CacheInv, CrawlTyped, Idle
  <2>6. CrawlTyped'
    BY <2>2, <2>4, <2>5 DEF CacheInv, CrawlTyped
  <2>7. \A q \in Ingesters : ~Running(q)'
    <3>1. \A q \in Ingesters \ {p} : ~Running(q) /\ q \in Crawlers \ {p}
      BY <1>1, <1>3, LockIsAlone DEF Crawlers
    <3> QED
      BY <2>5, <3>1 DEF Running
  <2>8. LockHeld' /\ LiveTrails' /\ BuilderOffline'
    BY <2>1, <2>2, <2>5, <2>7 DEF CacheInv, LockHeld, LiveTrails, BuilderOffline
  <2>9. ASSUME run[Builder].touched = FALSE
        PROVE  /\ dirty = FALSE
               /\ finished # <<>> => run[p].got = Last(finished) /\ \E T : Replays(T)
    <3>1. dirty = FALSE
      BY <2>9 DEF CacheInv, BuilderOffline, CrawlTyped
    <3>2. ASSUME finished # <<>> PROVE run[p].got = Last(finished) /\ \E T : Replays(T)
      <4>1. PICK T : Replays(T)
        BY <3>1, <3>2 DEF CacheInv, CleanReplays
      <4>2. Whole(cache, T, Last(finished)) /\ On(T, run[p])
        BY <1>1, <1>3, <4>1 DEF Replays
      <4> QED
        BY <1>1, <4>1, <4>2, WholeGoesOn
    <3> QED
      BY <3>1, <3>2
  <2>10. BuilderInv'
    BY <2>1, <2>4, <2>5, <2>9 DEF CacheInv, BuilderInv
  <2>11. \E T : Replays(T)'
    <3>1. CASE run[Builder].touched = FALSE /\ finished # <<>>
      <4>1. PICK T : Replays(T)
        BY <2>9, <3>1
      <4>2. Whole(cache, T, Last(finished)) /\ (Running(Builder) => On(T, run[Builder]))
        BY <3>1, <4>1 DEF Replays
      <4>3. Replays(T)'
        BY <2>1, <2>2, <2>4, <2>5, <2>7, <2>9, <3>1, <4>2 DEF Replays, Running
      <4> QED
        BY <4>3
    <3>2. CASE ~(run[Builder].touched = FALSE /\ finished # <<>>)
      <4>1. PICK T : Trail(cache, T, run[p])
        BY <1>1, <1>3 DEF CacheInv, LiveTrails
      <4>2. Whole(cache', T, Last(finished'))
        BY <1>1, <2>2, <2>4, <4>1, TrailEnds
      <4>3. ~(Running(Builder)' /\ run'[Builder].touched = FALSE)
        BY <2>1, <2>5, <3>2 DEF CacheInv, BuilderInv, Running
      <4>4. Replays(T)'
        BY <2>7, <4>2, <4>3 DEF Replays
      <4> QED
        BY <4>4
    <3> QED
      BY <3>1, <3>2
  <2> QED
    BY <2>6, <2>8, <2>10, <2>11 DEF CacheInv, CleanReplays
<1> QED
  BY <1>2, <1>3 DEF Crawlers

LEMMA ChangeKeeps ==
    ASSUME CacheInv, Change
    PROVE  CacheInv'
<1>1. PICK at \in [Notes -> Venues \cup {Nothing}] :
        server' = [l \in Venues |-> {n \in Notes : at[n] = l}]
  BY DEF Change
<1>2. server' \in [Venues -> SUBSET Notes]
  BY <1>1
<1>3. run' = [p \in Crawlers |-> [run[p] EXCEPT !.moved = @ \/ Running(p)]]
      /\ UNCHANGED <<cache, clock, lock, finished, dirty>>
  BY DEF Change
<1>4. ASSUME NEW p \in Crawlers
      PROVE  /\ run'[p] \in Runs /\ Alike(run[p], run'[p]) /\ run'[p].stale = run[p].stale
             /\ run'[p].refresh = run[p].refresh /\ run'[p].touched = run[p].touched
  <2>1. run[p] \in Runs /\ run'[p] = [run[p] EXCEPT !.moved = run[p].moved \/ Running(p)]
    BY <1>3 DEF CacheInv, CrawlTyped
  <2>2. (run[p].moved \/ Running(p)) \in BOOLEAN
    BY <2>1 DEF Runs, RunFields
  <2> QED
    BY <2>1, <2>2 DEF Runs, RunFields, Alike
<1>5. CrawlTyped'
  BY <1>2, <1>3, <1>4 DEF CacheInv, CrawlTyped
<1> QED
  BY <1>3, <1>4, <1>5, NothingRead

LEMMA CacheInvStep == CacheInv /\ [CrawlNext]_crawlVars => CacheInv'
<1> SUFFICES ASSUME CacheInv, [CrawlNext]_crawlVars PROVE CacheInv'
  OBVIOUS
<1>1. CASE Tick \/ UNCHANGED crawlVars
  <2>1. UNCHANGED <<server, cache, lock, run, finished, dirty>> /\ clock' \in Nat
    BY <1>1 DEF Tick, crawlVars, CacheInv, CrawlTyped
  <2>2. CrawlTyped'
    BY <2>1 DEF CacheInv, CrawlTyped
  <2> QED
    BY <2>1, <2>2, NothingRead DEF Alike
<1> QED
  BY <1>1, StartIngestKeeps, StartReplayKeeps, TakeCachedKeeps, FetchKeeps, FailsOrDiesKeeps,
     FinishKeeps, ChangeKeeps DEF CrawlNext

(* The invariant of the cache and of everyone who reads it.                 *)
THEOREM CacheInvariant == CrawlSpec => []CacheInv
BY CacheInvInit, CacheInvStep, PTL DEF CrawlSpec

(* A replay of what nobody wrote to since its crawl finished neither fails   *)
(* nor gives anything but that crawl: it is on the way to the same end.     *)
THEOREM ReplaysAreTheCrawl == CrawlSpec => []OfflineReplaysCrawl
<1>1. CacheInv => OfflineReplaysCrawl
  BY DEF CacheInv, CrawlTyped, Crawlers, Runs, RunFields, BuilderInv, OfflineReplaysCrawl
<1> QED
  BY <1>1, CacheInvariant, PTL

(* An API that ignores the offset is never looped on: every full page that  *)
(* is taken brings a note, so a run is never past as many pages as notes.   *)
THEOREM PagesAreBounded == CrawlSpec => []OffsetBounded
<1>1. CacheInv => OffsetBounded
  <2> SUFFICES ASSUME CacheInv, NEW p \in Crawlers PROVE run[p].page <= MaxPage
    BY DEF OffsetBounded
  <2>1. run[p].seen \in SUBSET Notes /\ run[p].page \in Nat /\ run[p].page <= Cardinality(run[p].seen)
    BY DEF CacheInv, CrawlTyped, Runs, RunFields
  <2> QED
    BY <2>1, SeenFinite DEF MaxPage
<1> QED
  BY <1>1, CacheInvariant, PTL
-----------------------------------------------------------------------------
(* What a crawl reads anew of a listing is what the server lists, page by     *)
(* page.                                                                   *)
(*                                                                         *)
(* Pages are slices of ranks: those up to a short one make up the set they   *)
(* are of, and are never refused for it.  A run that fetches a listing from  *)
(* its first page on, because that page had expired or a refresh was asked   *)
(* for, fetches all the rest of it too, so no page of the cache gets in.     *)

(* The notes of a listing have the ranks from 0 on, each its own.            *)
LEMMA Ranks ==
    ASSUME NEW s \in SUBSET Notes
    PROVE  /\ \A n \in s : Rank(s, n) \in 0..(Cardinality(s) - 1)
           /\ \A r \in 0..(Cardinality(s) - 1) : \E n \in s : Rank(s, n) = r
           /\ \A m, n \in s : Rank(s, m) = Rank(s, n) => m = n
<1> DEFINE low(n) == {m \in s : m < n}
           f == [n \in s |-> Rank(s, n)]
           N == Cardinality(s)
<1>1. IsFiniteSet(s) /\ N \in Nat /\ s \subseteq Nat
  BY SeenFinite, CrawlAssumption
<1>2. ASSUME NEW n \in s PROVE Rank(s, n) \in 0..(N - 1)
  <2>1. low(n) \in SUBSET s /\ n \notin low(n)
    BY <1>1
  <2>2. Cardinality(low(n)) \in Nat /\ Cardinality(low(n)) <= N /\ Cardinality(low(n)) # N
    BY <1>1, <2>1, FS_Subset, FS_CardinalityType
  <2> QED
    BY <1>1, <2>2 DEF Rank
<1>3. ASSUME NEW m \in s, NEW n \in s, m < n PROVE Rank(s, m) < Rank(s, n)
  <2>1. low(m) \in SUBSET low(n) /\ m \in low(n) /\ m \notin low(m) /\ low(n) \in SUBSET s
    <3>1. \A k \in s : k \in Nat
      BY <1>1
    <3>2. \A k \in s : k < m => k < n
      BY <1>3, <3>1
    <3> QED
      BY <1>3, <3>1, <3>2
  <2>2. IsFiniteSet(low(n)) /\ IsFiniteSet(low(m))
    BY <1>1, <2>1, FS_Subset
  <2>3. /\ Cardinality(low(m)) <= Cardinality(low(n)) /\ Cardinality(low(m)) # Cardinality(low(n))
        /\ Cardinality(low(m)) \in Nat /\ Cardinality(low(n)) \in Nat
    BY <2>1, <2>2, FS_Subset, FS_CardinalityType
  <2> QED
    BY <2>3 DEF Rank
<1>4. \A m, n \in s : Rank(s, m) = Rank(s, n) => m = n
  <2> SUFFICES ASSUME NEW m \in s, NEW n \in s, m # n PROVE Rank(s, m) # Rank(s, n)
    OBVIOUS
  <2>1. m < n \/ n < m
    BY <1>1
  <2>2. Rank(s, m) \in Nat /\ Rank(s, n) \in Nat
    BY <1>2
  <2> QED
    BY <1>3, <2>1, <2>2
<1>5. f \in Injection(s, 0..(N - 1))
  <2>1. f \in [s -> 0..(N - 1)]
    BY <1>2
  <2>2. \A m, n \in s : f[m] = f[n] => m = n
    BY <1>4
  <2> QED
    BY <2>1, <2>2 DEF Injection, IsInjective
<1>6. IsFiniteSet(0..(N - 1)) /\ Cardinality(0..(N - 1)) = N
  <2>1. PICK M \in Nat : M = N
    BY <1>1
  <2>2. IsFiniteSet(0..(M - 1)) /\ Cardinality(0..(M - 1)) = M
    <3>1. M - 1 \in Int
      BY <2>1
    <3>2. Cardinality(0..(M - 1)) = IF 0 > M - 1 THEN 0 ELSE (M - 1) - 0 + 1
      BY <3>1, FS_Interval
    <3> QED
      BY <2>1, <3>1, <3>2, FS_Interval
  <2> QED
    BY <2>1, <2>2
<1>7. f \in Surjection(s, 0..(N - 1))
  BY <1>5, <1>6, FS_Injection
<1>8. \A r \in 0..(N - 1) : \E n \in s : f[n] = r
  BY <1>7 DEF Surjection
<1> QED
  BY <1>2, <1>4, <1>8

(* So as many notes as ranks are within any bounds.                         *)
LEMMA RanksWithin ==
    ASSUME NEW s \in SUBSET Notes, NEW a \in Nat, NEW b \in Int, b < Cardinality(s)
    PROVE  Cardinality({n \in s : Rank(s, n) \in a..b}) = IF a > b THEN 0 ELSE b - a + 1
<1> DEFINE t == {n \in s : Rank(s, n) \in a..b}
           f == [r \in a..b |-> CHOOSE n \in s : Rank(s, n) = r]
<1>1. Cardinality(s) \in Nat
  BY SeenFinite
<1>2. ASSUME NEW r \in a..b PROVE f[r] \in t /\ Rank(s, f[r]) = r
  <2>1. \E n \in s : Rank(s, n) = r
    BY <1>1, Ranks
  <2>2. f[r] \in s /\ Rank(s, f[r]) = r
    BY <2>1
  <2> QED
    BY <2>2
<1>3. f \in [a..b -> t]
  BY <1>2
<1> HIDE DEF f
<1>4. \A q, r \in a..b : f[q] = f[r] => q = r
  BY <1>2
<1>5. \A n \in t : \E r \in a..b : f[r] = n
  <2> SUFFICES ASSUME NEW n \in t PROVE f[Rank(s, n)] = n
    OBVIOUS
  <2>1. Rank(s, n) \in a..b /\ n \in s
    OBVIOUS
  <2>2. f[Rank(s, n)] \in s /\ Rank(s, f[Rank(s, n)]) = Rank(s, n)
    BY <1>2, <2>1
  <2> QED
    BY <2>1, <2>2, Ranks
<1> HIDE DEF t
<1>6. f \in Bijection(a..b, t)
  BY <1>3, <1>4, <1>5 DEF Bijection, Injection, Surjection, IsInjective
<1>7. Cardinality(t) = Cardinality(a..b)
  <2>1. ExistsBijection(a..b, t) /\ IsFiniteSet(a..b)
    BY <1>6, FS_Interval DEF ExistsBijection
  <2> QED
    BY <2>1, FS_Bijection
<1> QED
  BY <1>7, FS_Interval DEF t

(* The notes before a page.                                                *)
Before(k) == k * PageSize

(* What a run holds of a listing.                                           *)
GotOf(r, l) == {n \in Notes : <<n, l>> \in r.got}

(* A run that reads a listing as page after page of the one set of notes.    *)
Sliced(r, S) ==
    /\ Before(r.page) <= Cardinality(S)
    /\ r.rows = Before(r.page)
    /\ r.seen = {n \in S : Rank(S, n) < Before(r.page)}
    /\ r.counts \subseteq {Cardinality(S)}
    /\ GotOf(r, Listed(r)) = r.seen

(* Nothing is read of what lies ahead.                                      *)
Outset(r) ==
    /\ r.pc = "read" => r.i > Len(Listings)
    /\ r.pc = "reading" =>
         /\ \A j \in 1..Len(Listings) :
              r.i < j \/ (r.i = j /\ r.page = 0) => GotOf(r, Listings[j]) = {}
         /\ r.page = 0 => r.rows = 0 /\ r.seen = {} /\ r.counts = {}

(* A refresh of a server that stands still has so far what is listed.        *)
Refreshed(r) ==
    /\ r.pc # "refused"
    /\ r.pc = "reading" => Sliced(r, server[Listed(r)])
    /\ r.pc \in {"reading", "read"} =>
         \A j \in 1..Len(Listings) : j < r.i => GotOf(r, Listings[j]) = server[Listings[j]]

Parted == \A l, m \in Venues : l # m => server[l] \cap server[m] = {}

RefreshInv ==
    /\ Parted
    /\ \A p \in Ingesters : run[p].pc \in {"idle", "reading", "read", "refused"} /\ Outset(run[p])
    /\ \A p \in Ingesters : run[p].refresh /\ ~run[p].moved /\ ~deaf => Refreshed(run[p])

LEMMA Befores ==
    ASSUME NEW k \in Nat
    PROVE  /\ Before(k) \in Nat /\ Before(k + 1) = Before(k) + PageSize
           /\ k = 0 => Before(k) = 0
           /\ \A j \in Nat : j <= k => Before(j) <= Before(k)
<1>1. PageSize \in Nat \ {0}
  BY CrawlAssumption
<1>2. k * PageSize \in Nat /\ (k + 1) * PageSize = k * PageSize + PageSize
  BY <1>1
<1>3. k = 0 => k * PageSize = 0
  BY <1>1
<1>4. ASSUME NEW j \in Nat, j <= k PROVE j * PageSize <= k * PageSize
  <2>1. PICK d \in Nat : k = j + d
    BY <1>4
  <2>2. k * PageSize = j * PageSize + d * PageSize /\ d * PageSize \in Nat /\ j * PageSize \in Nat
    BY <1>1, <2>1
  <2> QED
    BY <2>2
<1> QED
  BY <1>2, <1>3, <1>4 DEF Before

(* A page of S, and the pages before it.                                    *)
Paged(S, k) ==
    /\ Slice(S, k) \in SUBSET S
    /\ {n \in S : Rank(S, n) < Before(k)} \cap Slice(S, k) = {}
    /\ {n \in S : Rank(S, n) < Before(k)} \cup Slice(S, k)
         = {n \in S : Rank(S, n) < Before(k + 1)}
    /\ Before(k + 1) <= Cardinality(S) => Cardinality(Slice(S, k)) = PageSize
    /\ Before(k + 1) > Cardinality(S) =>
         /\ Cardinality(Slice(S, k)) = Cardinality(S) - Before(k)
         /\ Cardinality(Slice(S, k)) # PageSize
         /\ S = {n \in S : Rank(S, n) < Before(k + 1)}

LEMMA PagesOfSet ==
    ASSUME NEW S \in SUBSET Notes, NEW k \in Nat, Before(k) <= Cardinality(S)
    PROVE  Paged(S, k)
<1> DEFINE N == Cardinality(S)
<1>1. N \in Nat /\ PageSize \in Nat \ {0}
  BY SeenFinite, CrawlAssumption
<1>2. PICK b \in Nat : b = Before(k)
  BY Befores
<1>3. Before(k + 1) = b + PageSize
  BY <1>2, Befores
<1>4. \A n \in S : Rank(S, n) \in Nat /\ Rank(S, n) < N
  BY <1>1, Ranks
<1>5. Slice(S, k) = {n \in S : Rank(S, n) \in b..(b + PageSize - 1)}
  BY <1>2 DEF Slice, Before
<1>6. /\ Slice(S, k) \in SUBSET S
      /\ {n \in S : Rank(S, n) < b} \cap Slice(S, k) = {}
      /\ {n \in S : Rank(S, n) < b} \cup Slice(S, k) = {n \in S : Rank(S, n) < b + PageSize}
  BY <1>1, <1>4, <1>5
<1>7. ASSUME b + PageSize <= N PROVE Cardinality(Slice(S, k)) = PageSize
  <2>1. PICK c \in Int : c = b + PageSize - 1
    BY <1>1
  <2>2. c < N /\ ~(b > c) /\ c - b + 1 = PageSize
    BY <1>1, <1>7, <2>1
  <2>3. Cardinality({n \in S : Rank(S, n) \in b..c}) = IF b > c THEN 0 ELSE c - b + 1
    BY <2>2, RanksWithin
  <2> QED
    BY <1>5, <2>1, <2>2, <2>3
<1>8. ASSUME b + PageSize > N
      PROVE  /\ Cardinality(Slice(S, k)) = N - b /\ Cardinality(Slice(S, k)) # PageSize
             /\ S = {n \in S : Rank(S, n) < b + PageSize}
  <2>1. PICK c \in Int : c = N - 1
    BY <1>1
  <2>2. Slice(S, k) = {n \in S : Rank(S, n) \in b..c}
    BY <1>1, <1>4, <1>5, <1>8, <2>1
  <2>3. Cardinality({n \in S : Rank(S, n) \in b..c}) = IF b > c THEN 0 ELSE c - b + 1
    BY <1>1, <2>1, RanksWithin
  <2>4. Cardinality(Slice(S, k)) = N - b
    BY <1>1, <1>2, <2>1, <2>2, <2>3
  <2> QED
    BY <1>1, <1>4, <1>8, <2>4
<1> QED
  BY <1>1, <1>2, <1>3, <1>6, <1>7, <1>8 DEF Paged

(* A page taken of S: on to the next one, or S is read.                      *)
Turned(t, r, S) ==
    IF Before(r.page + 1) <= Cardinality(S)
    THEN /\ t.pc = "reading" /\ t.i = r.i /\ t.page = r.page + 1 /\ t.stale = r.stale
         /\ Sliced(t, S)
    ELSE /\ t.pc \in {"reading", "read"} /\ t.i = r.i + 1 /\ t.page = 0
         /\ GotOf(t, Listed(r)) = S

(* Of a run that reads S page by page, the page is never found wanting: it   *)
(* is refused only for a note of another listing.                           *)
LEMMA SliceTaken ==
    ASSUME NEW r \in Runs, r.pc = "reading", NEW S \in SUBSET Notes, Sliced(r, S),
           NEW e \in Entries, e.items = Slice(S, r.page), e.count = Cardinality(S)
    PROVE  IF Conflicts(r, e) THEN Take(r, e).pc = "refused" ELSE Turned(Take(r, e), r, S)
<1> DEFINE t == Take(r, e)
           N == Cardinality(S)
<1>1. Takes(t, r, e)
  BY TakeFields
<1> HIDE DEF t
<1>2. PICK k \in Nat : k = r.page
  BY DEF Runs, RunFields
<1>3. /\ Before(k) <= N /\ r.rows = Before(k)
      /\ r.seen = {n \in S : Rank(S, n) < Before(k)}
      /\ r.counts \subseteq {N} /\ GotOf(r, Listed(r)) = r.seen
  BY <1>2 DEF Sliced
<1>4. /\ N \in Nat /\ Before(k) \in Nat /\ Before(k + 1) = Before(k) + PageSize
      /\ PageSize \in Nat \ {0}
  BY SeenFinite, Befores, CrawlAssumption
<1>5. Paged(S, k) /\ e.items = Slice(S, k)
  BY <1>2, <1>3, PagesOfSet
<1>6. ~Repeats(r, e)
  BY <1>3, <1>5 DEF Repeats, Paged
<1>7. Seen(r, e) = {n \in S : Rank(S, n) < Before(k + 1)}
  BY <1>3, <1>5 DEF Seen, Paged
<1>8. r.got \in SUBSET (Notes \X Venues) /\ Listed(r) \in Venues
  BY VenueListed DEF Runs, RunFields, Listed
<1>9. ASSUME t.got = Got(r, e) PROVE GotOf(t, Listed(r)) = Seen(r, e)
  <2>1. e.items \subseteq Notes
    BY DEF Entries
  <2> QED
    BY <1>3, <1>9, <2>1 DEF GotOf, Got, Seen
<1>10. Counts(r, e) = {N}
  BY <1>3 DEF Counts
<1>11. CASE Conflicts(r, e)
  <2>1. Refuses(r, e)
    BY <1>11 DEF Refuses
  <2>2. t.pc = "refused"
    BY <1>1, <2>1 DEF Takes
  <2> QED
    BY <1>11, <2>2 DEF t
<1>12. CASE ~Conflicts(r, e) /\ Before(k + 1) <= N
  <2>1. ~Refuses(r, e) /\ Cardinality(e.items) = PageSize
    BY <1>5, <1>6, <1>12 DEF Refuses, Paged
  <2>2. /\ t.pc = "reading" /\ t.i = r.i /\ t.page = k + 1 /\ t.stale = r.stale
        /\ t.rows = Rows(r, e) /\ t.seen = Seen(r, e) /\ t.counts = Counts(r, e)
        /\ t.got = Got(r, e)
    BY <1>1, <1>2, <2>1 DEF Takes
  <2>3. Rows(r, e) = Before(k + 1)
    BY <1>3, <1>4, <2>1 DEF Rows
  <2>4. Listed(t) = Listed(r)
    BY <2>2 DEF Listed
  <2>5. Sliced(t, S)
    BY <1>7, <1>9, <1>10, <1>12, <2>2, <2>3, <2>4 DEF Sliced
  <2>6. Turned(t, r, S)
    BY <1>2, <1>12, <2>2, <2>5 DEF Turned
  <2> QED
    BY <1>12, <2>6 DEF t
<1>13. CASE ~Conflicts(r, e) /\ ~(Before(k + 1) <= N)
  <2>1. /\ ~Refuses(r, e) /\ Cardinality(e.items) = N - Before(k)
        /\ Cardinality(e.items) # PageSize /\ S = Seen(r, e)
    BY <1>4, <1>5, <1>6, <1>7, <1>13 DEF Refuses, Paged
  <2>2. Rows(r, e) = N
    BY <1>3, <1>4, <2>1 DEF Rows
  <2>3. ~Disagreeing(r, e)
    BY <1>10, <2>1, <2>2 DEF Disagreeing
  <2>4. /\ t.pc = IF r.i + 1 > Len(Listings) THEN "read" ELSE "reading"
        /\ t.i = r.i + 1 /\ t.page = 0 /\ t.got = Got(r, e)
    BY <1>1, <2>1, <2>3 DEF Takes
  <2>5. Turned(t, r, S)
    BY <1>2, <1>9, <1>13, <2>1, <2>4 DEF Turned
  <2> QED
    BY <1>13, <2>5 DEF t
<1> QED
  BY <1>2, <1>11, <1>12, <1>13

(* What is held of another listing stays, and what lies ahead stays unread.  *)
LEMMA OtherGot ==
    ASSUME NEW r \in Runs, r.pc = "reading", NEW e \in Entries, NEW t, Takes(t, r, e),
           NEW l, l # Listed(r)
    PROVE  GotOf(t, l) = GotOf(r, l)
<1>1. t.got = r.got \/ t.got = Got(r, e)
  BY DEF Takes
<1> QED
  BY <1>1 DEF GotOf, Got

LEMMA OutsetTaken ==
    ASSUME NEW r \in Runs, r.pc = "reading", Outset(r), NEW e \in Entries, NEW t, Takes(t, r, e)
    PROVE  Outset(t)
<1>1. r.i \in 1..Len(Listings) /\ r.page \in Nat /\ Len(Listings) \in Nat
  BY CrawlAssumption DEF Runs, RunFields
<1>2. ASSUME NEW j \in 1..Len(Listings), r.i < j
      PROVE  GotOf(t, Listings[j]) = {}
  <2>1. Listings[j] # Listed(r)
    BY <1>1, <1>2, CrawlAssumption DEF IsInjective, Listed
  <2>2. GotOf(t, Listings[j]) = GotOf(r, Listings[j])
    BY <2>1, OtherGot
  <2> QED
    BY <1>2, <2>2 DEF Outset
<1>3. CASE t.pc = "refused"
  BY <1>3 DEF Outset
<1>4. CASE t.i = r.i /\ t.page = r.page + 1 /\ t.pc = "reading"
  <2>1. t.page # 0 /\ t.pc # "read"
    BY <1>1, <1>4
  <2>2. \A j \in 1..Len(Listings) : t.i < j => GotOf(t, Listings[j]) = {}
    BY <1>2, <1>4
  <2> QED
    BY <2>1, <2>2 DEF Outset
<1>5. CASE /\ t.pc = IF r.i + 1 > Len(Listings) THEN "read" ELSE "reading"
           /\ t.i = r.i + 1 /\ t.page = 0 /\ t.rows = 0 /\ t.seen = {} /\ t.counts = {}
  <2>1. \A j \in 1..Len(Listings) : t.i < j \/ t.i = j => r.i < j
    BY <1>1, <1>5
  <2>2. \A j \in 1..Len(Listings) : t.i < j \/ t.i = j => GotOf(t, Listings[j]) = {}
    BY <1>2, <2>1
  <2>3. t.pc = "read" => t.i > Len(Listings)
    BY <1>5
  <2> QED
    BY <1>5, <2>2, <2>3 DEF Outset
<1> QED
  BY <1>3, <1>4, <1>5 DEF Takes

(* A run at the start of a listing reads it as any set's first page.         *)
LEMMA OutsetSliced ==
    ASSUME NEW r \in Runs, r.pc = "reading", r.page = 0, Outset(r), NEW S \in SUBSET Notes
    PROVE  Sliced(r, S)
<1>1. r.i \in 1..Len(Listings) /\ Cardinality(S) \in Nat
  BY SeenFinite DEF Runs
<1>2. GotOf(r, Listed(r)) = {} /\ r.rows = 0 /\ r.seen = {} /\ r.counts = {}
  BY <1>1 DEF Outset, Listed
<1>3. Before(0) = 0
  BY Befores
<1>4. {n \in S : Rank(S, n) < 0} = {}
  BY <1>1, Ranks
<1> QED
  BY <1>1, <1>2, <1>3, <1>4 DEF Sliced

(* Refreshes.                                                              *)
LEMMA RefreshInvInit == CrawlInit => RefreshInv
<1> SUFFICES ASSUME CrawlInit PROVE RefreshInv
  OBVIOUS
<1>1. PICK held : server = [l \in Venues |-> IF l = Listings[1] THEN held ELSE {}]
  BY DEF CrawlInit
<1>2. Parted
  BY <1>1 DEF Parted
<1>3. \A p \in Ingesters : run[p] = Idle
  BY DEF CrawlInit, Crawlers
<1>4. Idle.pc = "idle" /\ Idle.refresh = FALSE
  BY DEF Idle
<1> QED
  BY <1>2, <1>3, <1>4 DEF RefreshInv, Outset

(* One ingest moves on, and the server stands still.                        *)
LEMMA RefreshMoves ==
    ASSUME RefreshInv, UNCHANGED <<server, deaf>>,
           NEW p \in Ingesters, NEW t, run'[p] = t,
           \A q \in Ingesters \ {p} : run'[q] = run[q],
           t.pc \in {"idle", "reading", "read", "refused"}, Outset(t),
           t.refresh /\ ~t.moved /\ ~deaf => Refreshed(t)
    PROVE  RefreshInv'
<1>1. Parted'
  BY DEF RefreshInv, Parted
<1>2. ASSUME NEW q \in Ingesters
      PROVE  /\ run'[q].pc \in {"idle", "reading", "read", "refused"} /\ Outset(run'[q])
             /\ run'[q].refresh /\ ~run'[q].moved /\ ~deaf => Refreshed(run'[q])
  <2>1. CASE q = p
    BY <2>1
  <2>2. CASE q # p
    <3>1. run'[q] = run[q]
      BY <2>2
    <3> QED
      BY <3>1 DEF RefreshInv
  <2> QED
    BY <2>1, <2>2
<1>3. \A q \in Ingesters : Refreshed(run'[q]) => Refreshed(run[q])'
  BY DEF Refreshed, Sliced
<1>4. \A q \in Ingesters : Outset(run'[q]) => Outset(run[q])'
  BY DEF Outset
<1> QED
  BY <1>1, <1>2, <1>3, <1>4 DEF RefreshInv

(* A page fetched by a refresh is what the server lists, and no note of it   *)
(* is on another listing.                                                  *)
LEMMA RefreshFetches ==
    ASSUME CacheInv, Parted, NEW r \in Runs, r.pc = "reading", Outset(r), Refreshed(r), ~deaf,
           NEW t, t = Take(r, Entry(Listed(r), r.page))
    PROVE  Outset(t) /\ Refreshed(t)
<1> DEFINE l == Listed(r)
           S == server[l]
           e == Entry(l, r.page)
<1>1. /\ l \in Venues /\ S \in SUBSET Notes /\ r.i \in 1..Len(Listings)
      /\ r.got \in SUBSET (Notes \X Venues) /\ Len(Listings) \in Nat
  BY VenueListed, CrawlAssumption DEF Runs, RunFields, Listed, CacheInv, CrawlTyped
<1>2. e \in Entries /\ e.items = Slice(S, r.page) /\ e.count = Cardinality(S)
  BY <1>1, EntryTyped DEF CacheInv, PageOf
<1>3. Sliced(r, S)
  BY DEF Refreshed
<1>4. Takes(t, r, e)
  BY <1>2, TakeFields
<1>5. \A m \in Venues \ {l} : \E j \in 1..Len(Listings) : m = Listings[j] /\ j # r.i
  BY <1>1 DEF Venues, Range, Listed
<1>6. \A j \in 1..Len(Listings) : j # r.i => Listings[j] # l
  BY <1>1, CrawlAssumption DEF IsInjective, Listed
<1>7. ASSUME NEW j \in 1..Len(Listings), j # r.i
      PROVE  GotOf(r, Listings[j]) = IF j < r.i THEN server[Listings[j]] ELSE {}
  <2>1. CASE j < r.i
    <3>1. GotOf(r, Listings[j]) = server[Listings[j]]
      BY <2>1 DEF Refreshed
    <3> QED
      BY <2>1, <3>1
  <2>2. CASE ~(j < r.i)
    <3>1. r.i < j
      BY <1>1, <1>7, <2>2
    <3>2. GotOf(r, Listings[j]) = {}
      BY <3>1 DEF Outset
    <3> QED
      BY <2>2, <3>2
  <2> QED
    BY <2>1, <2>2
<1>8. ~Conflicts(r, e)
  <2> SUFFICES ASSUME NEW n \in e.items, NEW m \in Venues \ {l}, <<n, m>> \in r.got PROVE FALSE
    BY DEF Conflicts
  <2>1. n \in GotOf(r, m) /\ n \in S
    BY <1>1, <1>2 DEF GotOf, Slice
  <2>2. PICK j \in 1..Len(Listings) : m = Listings[j] /\ j # r.i
    BY <1>5
  <2>3. n \in server[m]
    BY <1>7, <2>1, <2>2
  <2> QED
    BY <1>1, <2>1, <2>3 DEF Parted
<1>9. Turned(t, r, S)
  BY <1>2, <1>3, <1>1, <1>8, SliceTaken
<1>10. \A j \in 1..Len(Listings) : j < r.i => GotOf(t, Listings[j]) = server[Listings[j]]
  BY <1>1, <1>2, <1>4, <1>6, <1>7, OtherGot
<1> HIDE DEF e
<1>11. Outset(t)
  BY <1>2, <1>4, OutsetTaken
<1>12. CASE t.pc = "reading" /\ t.i = r.i /\ Sliced(t, S)
  <2>1. Listed(t) = l /\ \A j \in 1..Len(Listings) : j < t.i => GotOf(t, Listings[j]) = server[Listings[j]]
    BY <1>10, <1>12 DEF Listed
  <2>2. Sliced(t, server[Listed(t)])
    BY <1>12, <2>1
  <2> QED
    BY <1>11, <1>12, <2>1, <2>2 DEF Refreshed
<1>13. CASE t.pc \in {"reading", "read"} /\ t.i = r.i + 1 /\ t.page = 0 /\ GotOf(t, l) = S
  <2>1. \A j \in 1..Len(Listings) : j < t.i => GotOf(t, Listings[j]) = server[Listings[j]]
    BY <1>1, <1>10, <1>13 DEF Listed
  <2>2. ASSUME t.pc = "reading" PROVE Sliced(t, server[Listed(t)])
    <3>1. t \in Runs
      BY <1>4 DEF Takes
    <3>2. server[Listed(t)] \in SUBSET Notes
      BY <2>2, <3>1, VenueListed DEF Runs, Listed, CacheInv, CrawlTyped
    <3> QED
      BY <1>11, <1>13, <2>2, <3>1, <3>2, OutsetSliced
  <2>3. t.pc # "refused"
    BY <1>13
  <2> QED
    BY <1>11, <2>1, <2>2, <2>3 DEF Refreshed
<1> QED
  BY <1>9, <1>11, <1>12, <1>13 DEF Turned

(* Whatever is not an ingest's own step leaves the refreshes as they are.     *)
LEMMA RefreshStays ==
    ASSUME RefreshInv, UNCHANGED <<server, deaf>>, \A q \in Ingesters : run'[q] = run[q]
    PROVE  RefreshInv'
<1>1. Parted'
  BY DEF RefreshInv, Parted
<1>2. ASSUME NEW q \in Ingesters
      PROVE  /\ run'[q].pc \in {"idle", "reading", "read", "refused"} /\ Outset(run'[q])
             /\ run'[q].refresh /\ ~run'[q].moved /\ ~deaf => Refreshed(run'[q])
  BY DEF RefreshInv
<1>3. \A q \in Ingesters : Refreshed(run'[q]) => Refreshed(run[q])'
  BY DEF Refreshed, Sliced
<1>4. \A q \in Ingesters : Outset(run'[q]) => Outset(run[q])'
  BY DEF Outset
<1> QED
  BY <1>1, <1>2, <1>3, <1>4 DEF RefreshInv

LEMMA RefreshInvStep == CacheInv /\ RefreshInv /\ [CrawlNext]_crawlVars => RefreshInv'
<1> SUFFICES ASSUME CacheInv, RefreshInv, [CrawlNext]_crawlVars PROVE RefreshInv'
  OBVIOUS
<1>runs. run \in [Crawlers -> Runs] /\ Ingesters \subseteq Crawlers /\ Builder \in Crawlers
         /\ Builder \notin Ingesters /\ \A q \in Crawlers \ Ingesters : q = Builder
  BY CrawlAssumption DEF CacheInv, CrawlTyped, Crawlers
<1>1. ASSUME NEW p \in Ingesters, StartIngest(p) PROVE RefreshInv'
  <2>1. PICK refresh \in BOOLEAN : run' = [run EXCEPT ![p] = At(1, {}, [Idle EXCEPT !.refresh = refresh])]
    BY <1>1 DEF StartIngest, Continues
  <2>2. PICK f \in Runs : f = [Idle EXCEPT !.refresh = refresh]
    BY IdleFields
  <2>3. PICK i \in Nat \ {0} : i = 1
    OBVIOUS
  <2>4. PICK got \in SUBSET (Notes \X Venues) : got = {}
    OBVIOUS
  <2>5. PICK t : t = At(i, got, f)
    OBVIOUS
  <2>6. Begins(t, 1, {}, f)
    BY <2>3, <2>4, <2>5, AtFields
  <2>7. run'[p] = t /\ (\A q \in Ingesters \ {p} : run'[q] = run[q]) /\ UNCHANGED <<server, deaf>>
    BY <1>1, <1>runs, <2>1, <2>2, <2>3, <2>4, <2>5 DEF StartIngest
  <2>8. t \in Runs /\ t.pc \in {"reading", "read"} /\ t.i = 1 /\ t.page = 0
    BY <2>6 DEF Begins
  <2>9. \A l : GotOf(t, l) = {}
    BY <2>6 DEF Begins, GotOf
  <2>10. Outset(t)
    BY <2>6, <2>9 DEF Begins, Outset
  <2>11. Refreshed(t)
    <3>1. ASSUME t.pc = "reading" PROVE Sliced(t, server[Listed(t)])
      <4>1. server[Listed(t)] \in SUBSET Notes
        BY <2>8, <3>1, VenueListed DEF Runs, Listed, CacheInv, CrawlTyped
      <4> QED
        BY <2>8, <2>10, <3>1, <4>1, OutsetSliced
    <3>2. \A j \in 1..Len(Listings) : ~(j < t.i)
      BY <2>8
    <3> QED
      BY <2>8, <3>1, <3>2 DEF Refreshed
  <2> QED
    BY <2>7, <2>8, <2>10, <2>11, RefreshMoves
<1>2. ASSUME NEW p \in Ingesters, TakeCached(p) PROVE RefreshInv'
  <2>1. run[p].pc = "reading" /\ Hit(p) /\ UNCHANGED <<server, deaf>> /\ run[p] \in Runs
        /\ run' = [run EXCEPT ![p] = Take(run[p], Cached(p))] /\ Outset(run[p])
    BY <1>2, <1>runs DEF TakeCached, Continues, RefreshInv
  <2>2. Cached(p) \in Entries
    BY <2>1, <1>runs, HitReads DEF Hit
  <2>3. PICK t : t = Take(run[p], Cached(p))
    OBVIOUS
  <2>4. Takes(t, run[p], Cached(p))
    BY <2>1, <2>2, <2>3, TakeFields
  <2>5. Outset(t)
    BY <2>1, <2>2, <2>4, OutsetTaken
  <2>6. t.refresh = FALSE /\ t.pc \in {"reading", "read", "refused"}
    <3>1. run[p].refresh = FALSE
      BY <2>1 DEF Hit, Asks, Runs, RunFields
    <3> QED
      BY <2>4, <3>1 DEF Takes
  <2>7. run'[p] = t /\ \A q \in Ingesters \ {p} : run'[q] = run[q]
    BY <1>runs, <2>1, <2>3
  <2> QED
    BY <2>1, <2>5, <2>6, <2>7, RefreshMoves
<1>3. ASSUME NEW p \in Ingesters, Fetch(p) PROVE RefreshInv'
  <2> DEFINE aged == ~Asks(p) /\ Cached(p) # Nothing /\ ~Cached(p).raw
             again == IF aged \/ run[p].refresh THEN {Wanted(p)} ELSE {}
             r == [run[p] EXCEPT !.stale = @ \/ aged, !.again = @ \cup again]
             e == Entry(Listed(run[p]), run[p].page)
  <2>1. run[p].pc = "reading" /\ UNCHANGED <<server, deaf>> /\ run[p] \in Runs
        /\ run' = [run EXCEPT ![p] = Take(r, e), ![Builder].touched = TRUE] /\ Outset(run[p])
    BY <1>3, <1>runs DEF Fetch, RefreshInv
  <2>2. /\ r \in Runs /\ Alike(run[p], r) /\ r.pc = "reading" /\ Listed(r) = Listed(run[p])
        /\ r.page = run[p].page /\ r.refresh = run[p].refresh /\ r.moved = run[p].moved
    <3>1. again \in SUBSET (Venues \X Nat) /\ aged \in BOOLEAN
      BY <2>1, <1>runs, HitReads DEF Pages
    <3>2. r = Flagged(run[p], aged, again)
      BY DEF Flagged
    <3> HIDE DEF aged, again, r
    <3> QED
      BY <2>1, <3>1, <3>2, StaleAlike
  <2> HIDE DEF r
  <2>3. PICK t : t = Take(r, e)
    OBVIOUS
  <2>4. e \in Entries
    BY <2>1, VenueListed, EntryTyped DEF Runs, Listed, CacheInv
  <2>5. Takes(t, r, e)
    BY <2>2, <2>3, <2>4, TakeFields
  <2>6. Outset(r) /\ (Refreshed(run[p]) => Refreshed(r))
    BY <2>1, <2>2 DEF Outset, Refreshed, Alike, GotOf, Sliced
  <2>7. Outset(t)
    BY <2>2, <2>4, <2>5, <2>6, OutsetTaken
  <2>8. ASSUME t.refresh, ~t.moved, ~deaf PROVE Refreshed(t)
    <3>1. Refreshed(r)
      BY <2>2, <2>5, <2>6, <2>8 DEF Takes, RefreshInv
    <3>2. e = Entry(Listed(r), r.page)
      BY <2>2
    <3> QED
      BY <2>2, <2>3, <2>6, <2>8, <3>1, <3>2, RefreshFetches DEF RefreshInv
  <2>9. run'[p] = t /\ \A q \in Ingesters \ {p} : run'[q] = run[q]
    BY <1>runs, <2>1, <2>3
  <2>10. t.pc \in {"idle", "reading", "read", "refused"}
    BY <2>5 DEF Takes
  <2> QED
    BY <2>1, <2>7, <2>8, <2>9, <2>10, RefreshMoves
<1>4. ASSUME NEW p \in Ingesters, Fails(p) \/ Dies(p) \/ Finish(p) PROVE RefreshInv'
  <2>1. run' = [run EXCEPT ![p] = Idle] /\ UNCHANGED <<server, deaf>>
    BY <1>4 DEF Fails, Dies, Finish, Continues, Over, Live
  <2>2. Idle.pc = "idle" /\ Idle.refresh = FALSE
    BY DEF Idle
  <2>3. run'[p] = Idle /\ \A q \in Ingesters \ {p} : run'[q] = run[q]
    BY <1>runs, <2>1
  <2>4. Outset(Idle)
    BY <2>2 DEF Outset
  <2> QED
    BY <2>1, <2>2, <2>3, <2>4, RefreshMoves
<1>5. CASE Change
  <2>1. PICK at \in [Notes -> Venues \cup {Nothing}] :
          server' = [l \in Venues |-> {n \in Notes : at[n] = l}]
    BY <1>5 DEF Change
  <2>2. Parted'
    BY <2>1 DEF Parted
  <2>3. ASSUME NEW p \in Ingesters
        PROVE  /\ run'[p] = [run[p] EXCEPT !.moved = run[p].moved \/ Running(p)]
               /\ run'[p].pc = run[p].pc /\ run'[p].refresh = run[p].refresh
               /\ run'[p].i = run[p].i /\ run'[p].page = run[p].page /\ run'[p].got = run[p].got
               /\ run'[p].rows = run[p].rows /\ run'[p].seen = run[p].seen
               /\ run'[p].counts = run[p].counts
               /\ run'[p].moved = FALSE => run[p].moved = FALSE /\ ~Running(p)
    <3>1. run[p] \in RunFields /\ run'[p] = [run[p] EXCEPT !.moved = run[p].moved \/ Running(p)]
      BY <1>5, <1>runs DEF Change, Runs
    <3>2. Running(p) \in BOOLEAN
      BY DEF Running
    <3> QED
      BY <3>1, <3>2 DEF RunFields
  <2>4. \A p \in Ingesters : Outset(run[p])'
    <3> SUFFICES ASSUME NEW p \in Ingesters PROVE Outset(run'[p])
      BY DEF Outset
    <3>1. Outset(run[p]) /\ \A l : GotOf(run'[p], l) = GotOf(run[p], l)
      BY <2>3 DEF RefreshInv, GotOf
    <3>2. /\ run'[p].pc = run[p].pc /\ run'[p].i = run[p].i /\ run'[p].page = run[p].page
          /\ run'[p].rows = run[p].rows /\ run'[p].seen = run[p].seen
          /\ run'[p].counts = run[p].counts
      BY <2>3
    <3> QED
      BY <3>1, <3>2 DEF Outset
  <2>5. ASSUME NEW p \in Ingesters, run'[p].refresh, ~run'[p].moved, ~deaf'
        PROVE  Refreshed(run[p])'
    <3>1. deaf' = deaf
      BY <1>5 DEF Change
    <3>2. run'[p].moved \in BOOLEAN /\ run[p].moved \in BOOLEAN
      <4>1. CacheInv'
        BY <1>5, ChangeKeeps
      <4> QED
        BY <4>1, <1>runs DEF CacheInv, CrawlTyped, Runs, RunFields
    <3>3. ~Running(p) /\ Refreshed(run[p])
      BY <2>3, <2>5, <3>1, <3>2 DEF RefreshInv
    <3> QED
      BY <2>3, <3>3 DEF Refreshed, Running
  <2> QED
    BY <2>2, <2>3, <2>4, <2>5 DEF RefreshInv
<1>6. ASSUME NEW p \in Crawlers \ Ingesters,
             StartIngest(p) \/ TakeCached(p) \/ Fetch(p) \/ Fails(p) \/ Dies(p) \/ Finish(p)
      PROVE  RefreshInv'
  <2>1. ~Live(p) /\ ~StartIngest(p) /\ ~Fetch(p)
    BY DEF Live, StartIngest, Fetch
  <2>2. /\ UNCHANGED <<server, deaf>>
        /\ \E t : run' = [run EXCEPT ![p] = t]
    BY <1>6, <2>1 DEF TakeCached, Fails, Dies, Finish, Continues
  <2> QED
    BY <1>runs, <2>2, RefreshStays
<1>7. CASE StartReplay
  <2>1. UNCHANGED <<server, deaf>> /\ \E t : run' = [run EXCEPT ![Builder] = t]
    BY <1>7 DEF StartReplay, Continues
  <2> QED
    BY <1>runs, <2>1, RefreshStays
<1>8. CASE Tick \/ UNCHANGED crawlVars
  BY <1>8, RefreshStays DEF Tick, crawlVars
<1> QED
  BY <1>1, <1>2, <1>3, <1>4, <1>5, <1>6, <1>7, <1>8 DEF CrawlNext, Crawlers

(* Listings read anew.                                                      *)

(* A listing whose first page was fetched again is, so far, what the server   *)
(* lists, and no page of the cache answers for it.                          *)
Anew(r, listed) ==
    /\ r.pc = "reading" /\ <<Listed(r), 0>> \in r.again =>
         (r.refresh \/ r.stale) /\ Sliced(r, listed[Listed(r)])
    /\ r.pc \in {"reading", "read"} =>
         \A j \in 1..Len(Listings) : j < r.i /\ <<Listings[j], 0>> \in r.again =>
             GotOf(r, Listings[j]) = listed[Listings[j]]
    /\ r.pc = "reading" =>
         \A j \in 1..Len(Listings) : r.i < j \/ (r.i = j /\ r.page = 0) =>
             <<Listings[j], 0>> \notin r.again

AnewInv == \A p \in Ingesters : ~run[p].moved /\ ~deaf => Anew(run[p], server)

(* A run goes on from a page: what holds of the listing it reads is what has  *)
(* to be said.                                                              *)
LEMMA AnewTaken ==
    ASSUME NEW listed, NEW r \in Runs, r.pc = "reading", NEW e \in Entries, NEW t, Takes(t, r, e),
           \A j \in 1..Len(Listings) : j < r.i /\ <<Listings[j], 0>> \in r.again =>
               GotOf(r, Listings[j]) = listed[Listings[j]],
           \A j \in 1..Len(Listings) : r.i < j => <<Listings[j], 0>> \notin r.again,
           t.pc # "refused" /\ <<Listed(r), 0>> \in r.again =>
               (r.refresh \/ r.stale) /\ Turned(t, r, listed[Listed(r)])
    PROVE  Anew(t, listed)
<1>1. r.i \in 1..Len(Listings) /\ r.page \in Nat /\ Len(Listings) \in Nat
  BY CrawlAssumption DEF Runs, RunFields
<1>2. ASSUME NEW j \in 1..Len(Listings), j < r.i, <<Listings[j], 0>> \in r.again
      PROVE  GotOf(t, Listings[j]) = listed[Listings[j]]
  <2>1. Listings[j] # Listed(r)
    BY <1>1, <1>2, CrawlAssumption DEF IsInjective, Listed
  <2>2. GotOf(t, Listings[j]) = GotOf(r, Listings[j])
    BY <2>1, OtherGot
  <2> QED
    BY <1>2, <2>2
<1>3. t.again = r.again /\ t.refresh = r.refresh
  BY DEF Takes
<1>4. CASE t.pc = "refused"
  BY <1>4 DEF Anew
<1>5. CASE t.pc = "reading" /\ t.i = r.i /\ t.page = r.page + 1 /\ t.stale = r.stale
  <2>1. Listed(t) = Listed(r) /\ t.page # 0
    BY <1>1, <1>5 DEF Listed
  <2>2. ASSUME <<Listed(t), 0>> \in t.again
        PROVE  (t.refresh \/ t.stale) /\ Sliced(t, listed[Listed(t)])
    <3>1. (r.refresh \/ r.stale) /\ Turned(t, r, listed[Listed(r)])
      BY <1>3, <1>5, <2>1, <2>2
    <3>2. Sliced(t, listed[Listed(r)])
      BY <1>1, <1>5, <3>1 DEF Turned
    <3> QED
      BY <1>3, <1>5, <2>1, <3>1, <3>2
  <2>3. \A j \in 1..Len(Listings) : j < t.i /\ <<Listings[j], 0>> \in t.again =>
            GotOf(t, Listings[j]) = listed[Listings[j]]
    BY <1>2, <1>3, <1>5
  <2>4. \A j \in 1..Len(Listings) : t.i < j => <<Listings[j], 0>> \notin t.again
    BY <1>3, <1>5
  <2> QED
    BY <2>1, <2>2, <2>3, <2>4 DEF Anew
<1>6. CASE t.pc \in {"reading", "read"} /\ t.i = r.i + 1 /\ t.page = 0
  <2>1. ASSUME NEW j \in 1..Len(Listings), j < t.i, <<Listings[j], 0>> \in t.again
        PROVE  GotOf(t, Listings[j]) = listed[Listings[j]]
    <3>1. CASE j < r.i
      BY <1>2, <1>3, <2>1, <3>1
    <3>2. CASE j = r.i
      <4>1. Listings[j] = Listed(r) /\ t.pc # "refused" /\ <<Listed(r), 0>> \in r.again
        BY <1>3, <1>6, <2>1, <3>2 DEF Listed
      <4>2. Turned(t, r, listed[Listed(r)])
        BY <4>1
      <4>3. GotOf(t, Listed(r)) = listed[Listed(r)]
        BY <1>1, <1>6, <4>2 DEF Turned
      <4> QED
        BY <4>1, <4>3
    <3> QED
      BY <1>1, <1>6, <2>1, <3>1, <3>2
  <2>2. \A j \in 1..Len(Listings) : t.i <= j => <<Listings[j], 0>> \notin t.again
    BY <1>1, <1>3, <1>6
  <2>3. ASSUME t.pc = "reading" PROVE <<Listed(t), 0>> \notin t.again
    <3>1. t.i \in 1..Len(Listings)
      BY <2>3 DEF Takes, Runs
    <3> QED
      BY <2>2, <3>1 DEF Listed
  <2>4. \A j \in 1..Len(Listings) : t.i < j \/ t.i = j => <<Listings[j], 0>> \notin t.again
    BY <1>1, <1>6, <2>2
  <2> QED
    BY <2>1, <2>3, <2>4 DEF Anew
<1>7. \/ t.pc = "refused"
      \/ t.pc = "reading" /\ t.i = r.i /\ t.page = r.page + 1 /\ t.stale = r.stale
      \/ t.pc \in {"reading", "read"} /\ t.i = r.i + 1 /\ t.page = 0
  BY DEF Takes
<1> QED
  BY <1>4, <1>5, <1>6, <1>7

LEMMA AnewFetched ==
    ASSUME CacheInv, ~deaf, NEW p \in Ingesters, run[p].pc = "reading", Outset(run[p]),
           Anew(run[p], server),
           NEW b \in BOOLEAN, NEW g, g = (IF b \/ run[p].refresh THEN {Wanted(p)} ELSE {}),
           NEW t, t = Take(Flagged(run[p], b, g), Entry(Listed(run[p]), run[p].page))
    PROVE  Anew(t, server)
<1> DEFINE r == Flagged(run[p], b, g)
           l == Listed(run[p])
           S == server[l]
           e == Entry(l, run[p].page)
<1>1. /\ run[p] \in Runs /\ l \in Venues /\ S \in SUBSET Notes
      /\ run[p].i \in 1..Len(Listings) /\ run[p].page \in Nat
      /\ g \in SUBSET (Venues \X Nat) /\ Wanted(p) = <<l, run[p].page>>
  <2>1. run[p] \in Runs /\ server \in [Venues -> SUBSET Notes]
    BY DEF CacheInv, CrawlTyped, Crawlers
  <2>2. run[p].i \in 1..Len(Listings) /\ run[p].page \in Nat
    BY <2>1 DEF Runs, RunFields
  <2>3. l \in Venues
    BY <2>2, VenueListed DEF Listed
  <2>4. Wanted(p) = <<l, run[p].page>>
    BY DEF Wanted
  <2> QED
    BY <2>1, <2>2, <2>3, <2>4
<1>2. /\ r \in Runs /\ Alike(run[p], r) /\ r.pc = "reading" /\ Listed(r) = l
      /\ r.page = run[p].page /\ r.refresh = run[p].refresh
      /\ r.stale = (run[p].stale \/ b) /\ r.again = run[p].again \cup g
  BY <1>1, StaleAlike
<1>3. e \in Entries /\ e.items = Slice(S, r.page) /\ e.count = Cardinality(S)
  BY <1>1, <1>2, EntryTyped DEF CacheInv, PageOf
<1> HIDE DEF r, e
<1>4. Takes(t, r, e) /\ t = Take(r, e)
  BY <1>2, <1>3, TakeFields DEF r, e
<1>5. \A m \in Venues : GotOf(r, m) = GotOf(run[p], m)
  BY <1>2 DEF Alike, GotOf
<1>6. r.i = run[p].i
  BY <1>2 DEF Alike
<1>7. ASSUME NEW j \in 1..Len(Listings), j # r.i
      PROVE  <<Listings[j], 0>> \in r.again <=> <<Listings[j], 0>> \in run[p].again
  <2>1. Listings[j] # l
    BY <1>1, <1>6, <1>7, CrawlAssumption DEF IsInjective, Listed
  <2>2. <<Listings[j], 0>> \notin g
    BY <1>1, <2>1
  <2> QED
    BY <1>2, <2>2
<1>8. ASSUME NEW j \in 1..Len(Listings), j < r.i, <<Listings[j], 0>> \in r.again
      PROVE  GotOf(r, Listings[j]) = server[Listings[j]]
  <2>1. <<Listings[j], 0>> \in run[p].again
    BY <1>1, <1>6, <1>7, <1>8
  <2>2. GotOf(run[p], Listings[j]) = server[Listings[j]]
    BY <1>6, <1>8, <2>1 DEF Anew
  <2> QED
    BY <1>5, <2>2, VenueListed
<1>9. \A j \in 1..Len(Listings) : r.i < j => <<Listings[j], 0>> \notin r.again
  BY <1>1, <1>6, <1>7 DEF Anew
<1>10. ASSUME t.pc # "refused", <<l, 0>> \in r.again
       PROVE  (r.refresh \/ r.stale) /\ Turned(t, r, S)
  <2>1. (r.refresh \/ r.stale) /\ Sliced(r, S)
    <3>1. CASE <<l, 0>> \in run[p].again
      <4>1. (run[p].refresh \/ run[p].stale) /\ Sliced(run[p], S)
        BY <3>1 DEF Anew
      <4>2. Sliced(r, S)
        BY <1>1, <1>2, <1>5, <4>1 DEF Sliced, Alike
      <4> QED
        BY <1>2, <4>1, <4>2
    <3>2. CASE <<l, 0>> \in g
      <4>1. r.page = 0 /\ (b \/ run[p].refresh)
        BY <1>1, <1>2, <3>2
      <4>2. Outset(r)
        BY <1>1, <1>2, <1>5, VenueListed DEF Outset, Alike
      <4>3. Sliced(r, S)
        BY <1>1, <1>2, <4>1, <4>2, OutsetSliced
      <4> QED
        BY <1>2, <4>1, <4>3
    <3> QED
      BY <1>2, <1>10, <3>1, <3>2
  <2>2. ~Conflicts(r, e) /\ Turned(t, r, S)
    BY <1>1, <1>2, <1>3, <1>4, <1>10, <2>1, SliceTaken
  <2> QED
    BY <2>1, <2>2
<1> QED
  BY <1>2, <1>3, <1>4, <1>8, <1>9, <1>10, AnewTaken

LEMMA AnewInvStep == CacheInv /\ RefreshInv /\ AnewInv /\ [CrawlNext]_crawlVars => AnewInv'
<1> SUFFICES ASSUME CacheInv, RefreshInv, AnewInv, [CrawlNext]_crawlVars PROVE AnewInv'
  OBVIOUS
<1>runs. /\ run \in [Crawlers -> Runs] /\ Ingesters \subseteq Crawlers /\ Builder \in Crawlers
         /\ Builder \notin Ingesters /\ \A q \in Crawlers \ Ingesters : q = Builder
  BY CrawlAssumption DEF CacheInv, CrawlTyped, Crawlers
<1>1. ASSUME NEW p \in Ingesters, StartIngest(p) PROVE AnewInv'
  <2>1. PICK refresh \in BOOLEAN : run' = [run EXCEPT ![p] = At(1, {}, [Idle EXCEPT !.refresh = refresh])]
    BY <1>1 DEF StartIngest, Continues
  <2>2. PICK f \in Runs : f = [Idle EXCEPT !.refresh = refresh]
    BY IdleFields
  <2>3. f.again = {}
    BY <2>2 DEF Idle
  <2>4. PICK i \in Nat \ {0} : i = 1
    OBVIOUS
  <2>5. PICK got \in SUBSET (Notes \X Venues) : got = {}
    OBVIOUS
  <2>6. PICK t : t = At(i, got, f)
    OBVIOUS
  <2>7. t.again = {}
    <3>1. Begins(t, i, got, f)
      BY <2>6, AtFields
    <3> QED
      BY <2>3, <3>1 DEF Begins
  <2>8. Anew(t, server)
    BY <2>7 DEF Anew
  <2>9. run'[p] = t /\ (\A q \in Ingesters \ {p} : run'[q] = run[q]) /\ UNCHANGED <<server, deaf>>
    BY <1>1, <1>runs, <2>1, <2>2, <2>4, <2>5, <2>6 DEF StartIngest
  <2> QED
    BY <2>8, <2>9 DEF AnewInv
<1>2. ASSUME NEW p \in Ingesters, TakeCached(p) PROVE AnewInv'
  <2>1. /\ run[p].pc = "reading" /\ Hit(p) /\ UNCHANGED <<server, deaf>> /\ run[p] \in Runs
        /\ run' = [run EXCEPT ![p] = Take(run[p], Cached(p))]
    BY <1>2, <1>runs DEF TakeCached, Continues
  <2>2. Cached(p) \in Entries
    BY <2>1, <1>runs, HitReads DEF Hit
  <2>3. PICK t : t = Take(run[p], Cached(p))
    OBVIOUS
  <2>4. Takes(t, run[p], Cached(p))
    BY <2>1, <2>2, <2>3, TakeFields
  <2>5. run'[p] = t /\ \A q \in Ingesters \ {p} : run'[q] = run[q]
    BY <1>runs, <2>1, <2>3
  <2>6. ASSUME ~t.moved, ~deaf PROVE Anew(t, server)
    <3>1. Anew(run[p], server)
      BY <2>4, <2>6 DEF Takes, AnewInv
    <3>2. <<Listed(run[p]), 0>> \notin run[p].again
      BY <2>1, <3>1 DEF Anew, Hit, Asks
    <3>3. /\ \A j \in 1..Len(Listings) : j < run[p].i /\ <<Listings[j], 0>> \in run[p].again =>
               GotOf(run[p], Listings[j]) = server[Listings[j]]
          /\ \A j \in 1..Len(Listings) : run[p].i < j => <<Listings[j], 0>> \notin run[p].again
      BY <2>1, <3>1 DEF Anew
    <3> QED
      BY <2>1, <2>2, <2>4, <3>2, <3>3, AnewTaken
  <2> QED
    BY <2>1, <2>5, <2>6 DEF AnewInv
<1>3. ASSUME NEW p \in Ingesters, Fetch(p) PROVE AnewInv'
  <2> DEFINE aged == ~Asks(p) /\ Cached(p) # Nothing /\ ~Cached(p).raw
             again == IF aged \/ run[p].refresh THEN {Wanted(p)} ELSE {}
             e == Entry(Listed(run[p]), run[p].page)
  <2>1. /\ run[p].pc = "reading" /\ UNCHANGED <<server, deaf>> /\ run[p] \in Runs
        /\ run' = [run EXCEPT ![p] = Take(Flagged(run[p], aged, again), e),
                              ![Builder].touched = TRUE]
        /\ Outset(run[p])
    BY <1>3, <1>runs DEF Fetch, RefreshInv, Flagged
  <2>2. PICK b \in BOOLEAN : b = aged
    OBVIOUS
  <2>3. PICK g : g = IF b \/ run[p].refresh THEN {Wanted(p)} ELSE {}
    OBVIOUS
  <2>4. PICK r : r = Flagged(run[p], b, g)
    OBVIOUS
  <2>5. PICK t : t = Take(r, e)
    OBVIOUS
  <2>6. t.moved = run[p].moved
    <3>1. g \in SUBSET (Venues \X Nat)
      BY <2>1, <2>3, <1>runs, HitReads DEF Pages
    <3>e. e \in Entries
      BY <2>1, VenueListed, EntryTyped DEF Runs, Listed, CacheInv
    <3>2. r \in Runs /\ r.pc = "reading" /\ r.moved = run[p].moved
      BY <2>1, <2>4, <3>1, StaleAlike
    <3>3. Takes(t, r, e)
      BY <2>5, <3>2, <3>e, TakeFields
    <3> QED
      BY <3>2, <3>3 DEF Takes
  <2>7. ASSUME ~t.moved, ~deaf PROVE Anew(t, server)
    <3>1. Anew(run[p], server)
      BY <2>6, <2>7 DEF AnewInv
    <3> QED
      BY <2>1, <2>3, <2>4, <2>5, <2>7, <3>1, AnewFetched
  <2>8. run'[p] = t /\ \A q \in Ingesters \ {p} : run'[q] = run[q]
    BY <1>runs, <2>1, <2>2, <2>3, <2>4, <2>5
  <2> QED
    BY <2>1, <2>7, <2>8 DEF AnewInv
<1>4. ASSUME NEW p \in Ingesters, Fails(p) \/ Dies(p) \/ Finish(p) PROVE AnewInv'
  <2>1. run' = [run EXCEPT ![p] = Idle] /\ UNCHANGED <<server, deaf>>
    BY <1>4 DEF Fails, Dies, Finish, Continues, Over, Live
  <2>2. Anew(Idle, server)
    BY DEF Idle, Anew
  <2>3. run'[p] = Idle /\ \A q \in Ingesters \ {p} : run'[q] = run[q]
    BY <1>runs, <2>1
  <2> QED
    BY <2>1, <2>2, <2>3 DEF AnewInv
<1>5. CASE Change
  <2> SUFFICES ASSUME NEW p \in Ingesters, ~run'[p].moved PROVE Anew(run'[p], server')
    BY DEF AnewInv
  <2>1. run[p] \in RunFields /\ run'[p] = [run[p] EXCEPT !.moved = run[p].moved \/ Running(p)]
    BY <1>5, <1>runs DEF Change, Runs
  <2>2. run'[p].pc = run[p].pc /\ ~Running(p)
    BY <2>1 DEF RunFields
  <2> QED
    BY <2>2 DEF Anew, Running
<1>6. ASSUME NEW p \in Crawlers \ Ingesters,
             StartIngest(p) \/ TakeCached(p) \/ Fetch(p) \/ Fails(p) \/ Dies(p) \/ Finish(p)
      PROVE  AnewInv'
  <2>1. ~Live(p) /\ ~StartIngest(p) /\ ~Fetch(p)
    BY DEF Live, StartIngest, Fetch
  <2>2. UNCHANGED <<server, deaf>> /\ \E t : run' = [run EXCEPT ![p] = t]
    BY <1>6, <2>1 DEF TakeCached, Fails, Dies, Finish, Continues
  <2> QED
    BY <1>runs, <2>2 DEF AnewInv
<1>7. CASE StartReplay
  <2>1. UNCHANGED <<server, deaf>> /\ \E t : run' = [run EXCEPT ![Builder] = t]
    BY <1>7 DEF StartReplay, Continues
  <2> QED
    BY <1>runs, <2>1 DEF AnewInv
<1>8. CASE Tick \/ UNCHANGED crawlVars
  BY <1>8 DEF Tick, crawlVars, AnewInv
<1> QED
  BY <1>1, <1>2, <1>3, <1>4, <1>5, <1>6, <1>7, <1>8 DEF CrawlNext, Crawlers

(* A refresh of a server that stands still repairs whatever the cache holds,  *)
(* a listing whose first page had expired or was refreshed is read anew to   *)
(* its end, whoever died before, and no run asks for a page past the last.   *)
THEOREM ListingsWhole == CrawlSpec => []ListingsAreWhole
<1>1. CacheInv /\ RefreshInv => RefreshRepairs
  <2> SUFFICES ASSUME CacheInv, RefreshInv, NEW p \in Ingesters,
                      run[p].refresh, ~run[p].moved, ~deaf, run[p].pc \in {"refused", "read"}
               PROVE  /\ run[p].pc = "read"
                      /\ run[p].got = {note \in Notes \X Venues : note[1] \in server[note[2]]}
    BY DEF RefreshRepairs
  <2>1. Refreshed(run[p]) /\ Outset(run[p]) /\ run[p] \in Runs
    BY DEF RefreshInv, CacheInv, CrawlTyped, Crawlers
  <2>2. run[p].pc = "read" /\ run[p].i > Len(Listings) /\ run[p].i \in Nat /\ Len(Listings) \in Nat
        /\ run[p].got \in SUBSET (Notes \X Venues)
    BY <2>1, CrawlAssumption DEF Refreshed, Outset, Runs, RunFields
  <2>3. \A j \in 1..Len(Listings) : GotOf(run[p], Listings[j]) = server[Listings[j]]
    BY <2>1, <2>2 DEF Refreshed
  <2>4. \A l \in Venues : GotOf(run[p], l) = server[l]
    BY <2>3 DEF Venues, Range
  <2>5. \A n \in Notes, l \in Venues : <<n, l>> \in run[p].got <=> n \in server[l]
    BY <2>4 DEF GotOf
  <2> QED
    BY <2>2, <2>5
<1>2. CacheInv /\ RefreshInv /\ AnewInv => ExpiredListingsAreReread
  <2> SUFFICES ASSUME CacheInv, RefreshInv, AnewInv, NEW p \in Ingesters, NEW l \in Venues,
                      run[p].pc = "read", ~run[p].moved, ~deaf, <<l, 0>> \in run[p].again
               PROVE  GotOf(run[p], l) = server[l]
    BY DEF ExpiredListingsAreReread, Holds, GotOf
  <2>1. PICK j \in 1..Len(Listings) : l = Listings[j]
    BY DEF Venues, Range
  <2>2. run[p].i > Len(Listings) /\ run[p].i \in Nat /\ Len(Listings) \in Nat
    BY CrawlAssumption DEF RefreshInv, Outset, CacheInv, CrawlTyped, Crawlers, Runs, RunFields
  <2>3. Anew(run[p], server) /\ j < run[p].i
    BY <2>2 DEF AnewInv
  <2> QED
    BY <2>1, <2>3 DEF Anew
<1>3. CrawlSpec => [](RefreshInv /\ AnewInv)
  <2>1. CrawlInit => AnewInv
    <3>1. CrawlInit => \A p \in Ingesters : run[p] = Idle
      BY DEF CrawlInit, Crawlers
    <3> QED
      BY <3>1 DEF AnewInv, Anew, Idle
  <2> QED
    BY <2>1, RefreshInvInit, RefreshInvStep, AnewInvStep, CacheInvariant, PTL DEF CrawlSpec
<1>4. RefreshRepairs /\ ExpiredListingsAreReread /\ OffsetBounded => ListingsAreWhole
  BY DEF ListingsAreWhole
<1> QED
  BY <1>1, <1>2, <1>3, <1>4, CacheInvariant, PagesAreBounded, PTL
-----------------------------------------------------------------------------
(* Pages of several moments that meet in a run.                              *)
(*                                                                         *)
(* Every page of the cache is of some moment, and says how many notes that   *)
(* moment had.  A run keeps a listing only if all its pages said the number   *)
(* of notes it has, so they are all of moments with as many.                 *)

PageOfMoment(e, listed) == \E m \in listed : e.items \subseteq m /\ e.count = Cardinality(m)

Mixed(r, listed) ==
    /\ r.pc = "reading" =>
         /\ GotOf(r, Listed(r)) = r.seen
         /\ \A c \in r.counts : \E m \in listed[Listed(r)] : Cardinality(m) = c
         /\ \A n \in r.seen : \E m \in listed[Listed(r)] : n \in m /\ Cardinality(m) \in r.counts
         /\ r.page = 0 => r.seen = {} /\ r.counts = {}
         /\ \A j \in 1..Len(Listings) : r.i < j => GotOf(r, Listings[j]) = {}
    /\ r.pc \in {"reading", "read", "done"} =>
         \A j \in 1..Len(Listings) : j < r.i => CountKept(listed[Listings[j]], GotOf(r, Listings[j]))
    /\ r.pc \in {"read", "done"} => r.i > Len(Listings)

MixInv ==
    /\ \A l \in Venues : server[l] \in moments[l]
    /\ \A l \in Venues, k \in Pages :
         cache[<<l, k>>] # Nothing /\ ~cache[<<l, k>>].raw => PageOfMoment(cache[<<l, k>>], moments[l])
    /\ \A p \in Crawlers : Mixed(run[p], moments)
    /\ \A got \in Range(finished), l \in Venues : CountKept(moments[l], Holds(got, l))

(* What counted once counts for good: moments are only added.                *)
LEMMA MixedGrows ==
    ASSUME NEW r, NEW M, NEW N, \A l \in Venues : M[l] \subseteq N[l], Mixed(r, M), r \in Runs
    PROVE  Mixed(r, N)
<1>1. ASSUME NEW l \in Venues, NEW held, CountKept(M[l], held) PROVE CountKept(N[l], held)
  BY <1>1 DEF CountKept
<1>2. r.pc = "reading" => Listed(r) \in Venues
  BY VenueListed DEF Runs, Listed
<1>3. ASSUME NEW j \in 1..Len(Listings), CountKept(M[Listings[j]], GotOf(r, Listings[j]))
      PROVE  CountKept(N[Listings[j]], GotOf(r, Listings[j]))
  BY <1>1, <1>3, VenueListed
<1> QED
  BY <1>2, <1>3 DEF Mixed

LEMMA MixedTaken ==
    ASSUME NEW M, NEW r \in Runs, r.pc = "reading", Mixed(r, M), NEW e \in Entries,
           PageOfMoment(e, M[Listed(r)]), NEW t, Takes(t, r, e)
    PROVE  Mixed(t, M)
<1> DEFINE l == Listed(r)
<1>1. /\ r.i \in 1..Len(Listings) /\ r.page \in Nat /\ Len(Listings) \in Nat
      /\ r.got \in SUBSET (Notes \X Venues) /\ l \in Venues /\ e.items \subseteq Notes
  BY VenueListed, CrawlAssumption DEF Runs, RunFields, Listed, Entries
<1>2. PICK m \in M[l] : e.items \subseteq m /\ e.count = Cardinality(m)
  BY DEF PageOfMoment
<1>3. /\ GotOf(r, l) = r.seen
      /\ \A c \in r.counts : \E x \in M[l] : Cardinality(x) = c
      /\ \A n \in r.seen : \E x \in M[l] : n \in x /\ Cardinality(x) \in r.counts
  BY DEF Mixed
<1>4. /\ \A c \in Counts(r, e) : \E x \in M[l] : Cardinality(x) = c
      /\ \A n \in Seen(r, e) : \E x \in M[l] : n \in x /\ Cardinality(x) \in Counts(r, e)
  BY <1>2, <1>3 DEF Counts, Seen
<1>5. ASSUME NEW j \in 1..Len(Listings), j # r.i PROVE GotOf(t, Listings[j]) = GotOf(r, Listings[j])
  <2>1. Listings[j] # l
    BY <1>1, <1>5, CrawlAssumption DEF IsInjective, Listed
  <2> QED
    BY <2>1, OtherGot
<1>6. ASSUME t.got = Got(r, e) PROVE GotOf(t, l) = Seen(r, e)
  BY <1>1, <1>3, <1>6 DEF GotOf, Got, Seen
<1>7. /\ \A j \in 1..Len(Listings) : r.i < j => GotOf(t, Listings[j]) = {}
      /\ \A j \in 1..Len(Listings) : j < r.i => CountKept(M[Listings[j]], GotOf(t, Listings[j]))
  <2>1. ASSUME NEW j \in 1..Len(Listings), r.i < j PROVE GotOf(t, Listings[j]) = {}
    <3>1. GotOf(r, Listings[j]) = {}
      BY <2>1 DEF Mixed
    <3>2. j # r.i
      BY <1>1, <2>1
    <3> QED
      BY <1>5, <3>1, <3>2
  <2>2. ASSUME NEW j \in 1..Len(Listings), j < r.i
        PROVE  CountKept(M[Listings[j]], GotOf(t, Listings[j]))
    <3>1. CountKept(M[Listings[j]], GotOf(r, Listings[j])) /\ j # r.i
      BY <1>1, <2>2 DEF Mixed
    <3> QED
      BY <1>5, <3>1
  <2> QED
    BY <2>1, <2>2
<1>8. CASE t.pc = "refused"
  BY <1>8 DEF Mixed
<1>9. CASE /\ t.pc = "reading" /\ t.i = r.i /\ t.page = r.page + 1
           /\ t.seen = Seen(r, e) /\ t.counts = Counts(r, e) /\ t.got = Got(r, e)
  <2>1. Listed(t) = l /\ t.page # 0
    BY <1>1, <1>9 DEF Listed
  <2> QED
    BY <1>4, <1>6, <1>7, <1>9, <2>1 DEF Mixed
<1>10. CASE /\ ~Disagreeing(r, e)
            /\ t.pc = IF r.i + 1 > Len(Listings) THEN "read" ELSE "reading"
            /\ t.i = r.i + 1 /\ t.page = 0 /\ t.seen = {} /\ t.counts = {} /\ t.got = Got(r, e)
  <2>1. Counts(r, e) = {Cardinality(Seen(r, e))}
    BY <1>10 DEF Disagreeing
  <2>2. CountKept(M[l], Seen(r, e))
    <3>1. \E x \in M[l] : Cardinality(x) = Cardinality(Seen(r, e))
      BY <1>4, <2>1
    <3>2. \A n \in Seen(r, e) : \E x \in M[l] : n \in x /\ Cardinality(x) = Cardinality(Seen(r, e))
      BY <1>4, <2>1
    <3> QED
      BY <3>1, <3>2 DEF CountKept
  <2>3. ASSUME NEW j \in 1..Len(Listings), j < t.i
        PROVE  CountKept(M[Listings[j]], GotOf(t, Listings[j]))
    <3>1. CASE j = r.i
      BY <1>6, <1>10, <2>2, <3>1 DEF Listed
    <3>2. CASE j < r.i
      BY <1>7, <3>2
    <3> QED
      BY <1>1, <1>10, <2>3, <3>1, <3>2
  <2>4. ASSUME t.pc = "reading" PROVE GotOf(t, Listed(t)) = {}
    <3>1. t.i \in 1..Len(Listings) /\ r.i < t.i
      BY <1>1, <1>10, <2>4
    <3> QED
      BY <1>7, <3>1 DEF Listed
  <2>5. ASSUME NEW j \in 1..Len(Listings), t.i < j PROVE GotOf(t, Listings[j]) = {}
    <3>1. r.i < j
      BY <1>1, <1>10, <2>5
    <3> QED
      BY <1>7, <3>1
  <2>6. t.pc \in {"read", "done"} => t.i > Len(Listings)
    BY <1>10
  <2> QED
    BY <1>10, <2>3, <2>4, <2>5, <2>6 DEF Mixed
<1> QED
  BY <1>8, <1>9, <1>10 DEF Takes

(* A run that starts has mixed nothing.                                      *)
LEMMA MixedBegins ==
    ASSUME NEW M, NEW f \in Runs
    PROVE  Mixed(At(1, {}, f), M)
<1>1. PICK i \in Nat \ {0} : i = 1
  OBVIOUS
<1>2. PICK got \in SUBSET (Notes \X Venues) : got = {}
  OBVIOUS
<1>3. PICK t : t = At(i, got, f)
  OBVIOUS
<1>4. Begins(t, i, got, f)
  BY <1>3, AtFields
<1>5. \A l : GotOf(t, l) = {}
  BY <1>2, <1>4 DEF Begins, GotOf
<1>6. \A j \in 1..Len(Listings) : ~(j < t.i)
  BY <1>1, <1>4 DEF Begins
<1>7. t.seen = {} /\ t.counts = {} /\ (t.pc \in {"read", "done"} => t.i > Len(Listings))
  BY <1>4 DEF Begins
<1>8. Mixed(t, M)
  BY <1>5, <1>6, <1>7 DEF Mixed
<1> QED
  BY <1>1, <1>2, <1>3, <1>8

(* A run is over: what it read is as it was, or forgotten.                   *)
LEMMA MixedEnds ==
    ASSUME CacheInv, NEW p \in Crawlers, NEW M, Mixed(run[p], M),
           NEW how \in {"failed", "idle", "done"}, how = "done" => run[p].pc = "read"
    PROVE  Mixed(Over(p, how), M)
<1>1. CASE Over(p, how) = Idle
  BY <1>1 DEF Idle, Mixed
<1>2. CASE Over(p, how) = [run[p] EXCEPT !.pc = how]
  <2>1. PICK t : t = [run[p] EXCEPT !.pc = how]
    OBVIOUS
  <2>2. t.pc = how /\ t.i = run[p].i /\ t.got = run[p].got
    <3>1. run[p] \in RunFields
      BY DEF CacheInv, CrawlTyped, Runs
    <3> QED
      BY <2>1, <3>1 DEF RunFields
  <2>3. \A l : GotOf(t, l) = GotOf(run[p], l)
    BY <2>2 DEF GotOf
  <2>4. CASE how \in {"failed", "idle"}
    <3>1. t.pc \notin {"reading", "read", "done"}
      BY <2>2, <2>4
    <3>2. Mixed(t, M)
      BY <3>1 DEF Mixed
    <3> QED
      BY <1>2, <2>1, <3>2
  <2>5. CASE how = "done"
    <3>1. /\ run[p].i > Len(Listings)
          /\ \A j \in 1..Len(Listings) :
               j < run[p].i => CountKept(M[Listings[j]], GotOf(run[p], Listings[j]))
      BY <2>5 DEF Mixed
    <3>2. \A j \in 1..Len(Listings) :
              j < t.i => CountKept(M[Listings[j]], GotOf(t, Listings[j]))
      BY <2>2, <2>3, <3>1
    <3>3. Mixed(t, M)
      BY <2>2, <2>5, <3>1, <3>2 DEF Mixed
    <3> QED
      BY <1>2, <2>1, <3>3
  <2> QED
    BY <2>4, <2>5
<1> QED
  BY <1>1, <1>2 DEF Over

LEMMA MixInvInit == CrawlInit => MixInv
<1> SUFFICES ASSUME CrawlInit PROVE MixInv
  OBVIOUS
<1>1. \A l \in Venues : server[l] \in moments[l]
  BY DEF CrawlInit
<1>2. ASSUME NEW l \in Venues, NEW k \in Pages
      PROVE  cache[<<l, k>>] = Nothing \/ cache[<<l, k>>].raw
  BY DEF CrawlInit
<1>3. \A p \in Crawlers : run[p] = Idle
  BY DEF CrawlInit
<1>4. Mixed(Idle, moments)
  BY DEF Idle, Mixed
<1>5. Range(finished) = {}
  BY DEF CrawlInit, Range
<1> QED
  BY <1>1, <1>2, <1>3, <1>4, <1>5 DEF MixInv

(* One run moves on, and nothing else does.                                  *)
LEMMA MixMoves ==
    ASSUME MixInv, CacheInv, UNCHANGED <<server, cache, moments, finished>>,
           NEW p \in Crawlers, NEW t, run' = [run EXCEPT ![p] = t], Mixed(t, moments)
    PROVE  MixInv'
<1>1. \A q \in Crawlers : run'[q] = IF q = p THEN t ELSE run[q]
  BY DEF CacheInv, CrawlTyped
<1>2. \A q \in Crawlers : Mixed(run'[q], moments)
  BY <1>1 DEF MixInv
<1> QED
  BY <1>2 DEF MixInv

LEMMA MixInvStep == CacheInv /\ MixInv /\ [CrawlNext]_crawlVars => MixInv'
<1> SUFFICES ASSUME CacheInv, MixInv, [CrawlNext]_crawlVars PROVE MixInv'
  OBVIOUS
<1>runs. run \in [Crawlers -> Runs] /\ Builder \in Crawlers
  BY DEF CacheInv, CrawlTyped, Crawlers
<1>1. ASSUME NEW p \in Crawlers, StartIngest(p) PROVE MixInv'
  <2>1. PICK refresh \in BOOLEAN : run' = [run EXCEPT ![p] = At(1, {}, [Idle EXCEPT !.refresh = refresh])]
    BY <1>1 DEF StartIngest, Continues
  <2>2. Mixed(At(1, {}, [Idle EXCEPT !.refresh = refresh]), moments)
    BY MixedBegins, IdleFields
  <2>3. UNCHANGED <<server, cache, moments, finished>>
    BY <1>1 DEF StartIngest
  <2> QED
    BY <2>1, <2>2, <2>3, MixMoves
<1>2. CASE StartReplay
  <2>1. /\ run' = [run EXCEPT ![Builder] = At(1, {}, [Idle EXCEPT !.touched = dirty])]
        /\ UNCHANGED <<server, cache, moments, finished>>
    BY <1>2 DEF StartReplay, Continues
  <2>2. Mixed(At(1, {}, [Idle EXCEPT !.touched = dirty]), moments)
    BY MixedBegins, IdleFields DEF CacheInv, CrawlTyped
  <2> QED
    BY <1>runs, <2>1, <2>2, MixMoves
<1>3. ASSUME NEW p \in Crawlers, TakeCached(p) PROVE MixInv'
  <2>1. /\ run[p].pc = "reading" /\ Hit(p) /\ run[p] \in Runs
        /\ run' = [run EXCEPT ![p] = Take(run[p], Cached(p))]
        /\ UNCHANGED <<server, cache, moments, finished>>
    BY <1>3, <1>runs DEF TakeCached, Continues
  <2>2. /\ Cached(p) \in Entries /\ Cached(p) = cache[<<Listed(run[p]), run[p].page>>]
        /\ <<Listed(run[p]), run[p].page>> \in Venues \X Pages
    BY <2>1, HitReads DEF Hit, Spot
  <2>3. PageOfMoment(Cached(p), moments[Listed(run[p])])
    BY <2>1, <2>2 DEF MixInv, Hit
  <2>4. Takes(Take(run[p], Cached(p)), run[p], Cached(p))
    BY <2>1, <2>2, TakeFields
  <2>5. Mixed(Take(run[p], Cached(p)), moments)
    BY <2>1, <2>2, <2>3, <2>4, MixedTaken DEF MixInv
  <2> QED
    BY <2>1, <2>5, MixMoves
<1>4. ASSUME NEW p \in Crawlers, Fetch(p) PROVE MixInv'
  <2> DEFINE aged == ~Asks(p) /\ Cached(p) # Nothing /\ ~Cached(p).raw
             again == IF aged \/ run[p].refresh THEN {Wanted(p)} ELSE {}
  <2>1. /\ run[p].pc = "reading" /\ run[p] \in Runs /\ UNCHANGED <<server, moments, finished>>
        /\ cache' = [cache EXCEPT ![Wanted(p)] = Entry(Listed(run[p]), run[p].page)]
        /\ run' = [run EXCEPT ![p] = Take(Flagged(run[p], aged, again),
                                          Entry(Listed(run[p]), run[p].page)),
                              ![Builder].touched = TRUE]
    BY <1>4, <1>runs DEF Fetch, Flagged
  <2>2. PICK l \in Venues : l = Listed(run[p])
    BY <2>1, VenueListed DEF Runs, Listed
  <2>3. PICK e \in Entries : e = Entry(l, run[p].page)
    BY <2>2, EntryTyped DEF CacheInv
  <2>4. PageOfMoment(e, moments[l])
    <3>1. e.items = PageOf(l, run[p].page) /\ e.count = Cardinality(server[l])
      BY <2>2, <2>3, EntryTyped DEF CacheInv
    <3> QED
      BY <2>2, <3>1 DEF PageOfMoment, MixInv, PageOf, Slice
  <2>5. PICK r : r = Flagged(run[p], aged, again)
    OBVIOUS
  <2>6. r \in Runs /\ Alike(run[p], r) /\ r.pc = "reading" /\ Listed(r) = l
    <3>1. again \in SUBSET (Venues \X Nat) /\ aged \in BOOLEAN
      BY <2>1, HitReads DEF Pages
    <3> HIDE DEF aged, again
    <3> QED
      BY <2>1, <2>2, <2>5, <3>1, StaleAlike
  <2>7. Mixed(r, moments)
    BY <2>6 DEF MixInv, Mixed, Alike, GotOf, Listed
  <2>8. PICK t : t = Take(r, e)
    OBVIOUS
  <2>9. Mixed(t, moments)
    BY <2>3, <2>4, <2>6, <2>7, <2>8, TakeFields, MixedTaken
  <2>10. ASSUME NEW q \in Crawlers PROVE Mixed(run'[q], moments)
    <3>1. PICK b : b = [run[Builder] EXCEPT !.touched = TRUE]
      OBVIOUS
    <3>2. p # Builder
      BY <1>4, CrawlAssumption DEF Fetch, Live
    <3>3. run' = [x \in Crawlers |-> IF x = Builder THEN b ELSE IF x = p THEN t ELSE run[x]]
      BY <1>runs, <2>1, <2>2, <2>3, <2>5, <2>8, <3>1, <3>2
    <3>4. Mixed(b, moments)
      <4>1. run[Builder] \in RunFields /\ Mixed(run[Builder], moments)
        BY <1>runs DEF MixInv, Runs
      <4>2. /\ b.pc = run[Builder].pc /\ b.i = run[Builder].i /\ b.page = run[Builder].page
            /\ b.seen = run[Builder].seen /\ b.counts = run[Builder].counts
            /\ b.got = run[Builder].got
        BY <3>1, <4>1 DEF RunFields
      <4> QED
        BY <4>1, <4>2 DEF Mixed, GotOf, Listed
    <3> QED
      BY <2>9, <3>3, <3>4 DEF MixInv
  <2>11. ASSUME NEW m \in Venues, NEW k \in Pages, cache'[<<m, k>>] # Nothing, ~cache'[<<m, k>>].raw
         PROVE  PageOfMoment(cache'[<<m, k>>], moments[m])
    <3>1. CASE <<m, k>> = Wanted(p)
      <4>1. m = l
        BY <2>2, <3>1 DEF Wanted
      <4>2. cache'[<<m, k>>] = e
        BY <2>1, <2>2, <2>3, <3>1 DEF CacheInv, CrawlTyped
      <4> QED
        BY <2>4, <4>1, <4>2
    <3>2. CASE <<m, k>> # Wanted(p)
      <4>1. cache'[<<m, k>>] = cache[<<m, k>>]
        BY <2>1, <3>2 DEF CacheInv, CrawlTyped
      <4> QED
        BY <2>11, <4>1 DEF MixInv
    <3> QED
      BY <3>1, <3>2
  <2> QED
    BY <2>1, <2>10, <2>11 DEF MixInv
<1>5. ASSUME NEW p \in Crawlers, Fails(p) \/ Dies(p) PROVE MixInv'
  <2>1. PICK how \in {"failed", "idle"} :
          run' = [run EXCEPT ![p] = Over(p, how)] /\ UNCHANGED <<server, cache, moments, finished>>
    BY <1>5 DEF Fails, Dies, Continues
  <2>2. Mixed(Over(p, how), moments)
    BY MixedEnds DEF MixInv
  <2> QED
    BY <2>1, <2>2, MixMoves
<1>6. ASSUME NEW p \in Crawlers, Finish(p) PROVE MixInv'
  <2>1. /\ run[p].pc = "read" /\ run[p] \in Runs /\ UNCHANGED <<server, cache, moments>>
        /\ run' = [run EXCEPT ![p] = Over(p, "done")]
    BY <1>6, <1>runs DEF Finish, Continues
  <2>2. Mixed(Over(p, "done"), moments)
    BY <2>1, MixedEnds DEF MixInv
  <2>3. \A q \in Crawlers : Mixed(run'[q], moments)
    <3>1. \A q \in Crawlers : run'[q] = IF q = p THEN Over(p, "done") ELSE run[q]
      BY <1>runs, <2>1
    <3> QED
      BY <2>2, <3>1 DEF MixInv
  <2>4. ASSUME NEW l \in Venues PROVE CountKept(moments[l], Holds(run[p].got, l))
    <3>1. PICK j \in 1..Len(Listings) : l = Listings[j]
      BY <2>4 DEF Venues, Range
    <3>2. j < run[p].i /\ Mixed(run[p], moments)
      <4>1. run[p].i > Len(Listings) /\ run[p].i \in Nat /\ Len(Listings) \in Nat
        BY <2>1, CrawlAssumption DEF MixInv, Mixed, Runs, RunFields
      <4> QED
        BY <4>1 DEF MixInv
    <3> QED
      BY <2>1, <3>1, <3>2 DEF Mixed, GotOf, Holds
  <2>5. \A got \in Range(finished') : got \in Range(finished) \/ got = run[p].got
    <3>1. CASE finished' = finished
      BY <3>1
    <3>2. CASE finished' = Append(finished, run[p].got)
      <4>1. finished \in Seq(SUBSET (Notes \X Venues)) /\ run[p].got \in SUBSET (Notes \X Venues)
        BY <2>1 DEF CacheInv, CrawlTyped, Runs, RunFields
      <4> QED
        BY <3>2, <4>1 DEF Range
    <3> QED
      BY <1>6, <3>1, <3>2 DEF Finish
  <2> QED
    BY <2>1, <2>3, <2>4, <2>5 DEF MixInv
<1>7. CASE Change
  <2>1. /\ moments' = [l \in Venues |-> moments[l] \cup {server'[l]}]
        /\ run' = [p \in Crawlers |-> [run[p] EXCEPT !.moved = @ \/ Running(p)]]
        /\ UNCHANGED <<cache, finished>>
    BY <1>7 DEF Change
  <2>2. \A l \in Venues : moments[l] \subseteq moments'[l] /\ server'[l] \in moments'[l]
    BY <2>1
  <2>3. ASSUME NEW p \in Crawlers PROVE Mixed(run'[p], moments')
    <3>1. run[p] \in Runs /\ run'[p] = [run[p] EXCEPT !.moved = run[p].moved \/ Running(p)]
      BY <1>runs, <2>1
    <3>2. PICK t : t = run'[p]
      OBVIOUS
    <3>3. /\ t.pc = run[p].pc /\ t.i = run[p].i /\ t.page = run[p].page /\ t.seen = run[p].seen
          /\ t.counts = run[p].counts /\ t.got = run[p].got
      BY <3>1, <3>2 DEF Runs, RunFields
    <3>4. Mixed(run[p], moments')
      BY <2>2, <3>1, MixedGrows DEF MixInv
    <3>5. Mixed(t, moments')
      BY <3>3, <3>4 DEF Mixed, GotOf, Listed
    <3> QED
      BY <3>2, <3>5
  <2>4. ASSUME NEW l \in Venues, NEW held, CountKept(moments[l], held) PROVE CountKept(moments'[l], held)
    BY <2>2, <2>4 DEF CountKept
  <2>5. ASSUME NEW l \in Venues, NEW e, PageOfMoment(e, moments[l]) PROVE PageOfMoment(e, moments'[l])
    BY <2>2, <2>5 DEF PageOfMoment
  <2> QED
    BY <2>1, <2>2, <2>3, <2>4, <2>5 DEF MixInv
<1>8. CASE Tick \/ UNCHANGED crawlVars
  BY <1>8 DEF Tick, crawlVars, MixInv
<1> QED
  BY <1>1, <1>2, <1>3, <1>4, <1>5, <1>6, <1>7, <1>8 DEF CrawlNext

(* Whatever pages meet in a crawl or in a replay, what is kept of a listing   *)
(* is as many notes as were once listed there, each at a time when there     *)
(* were as many.                                                           *)
THEOREM MixesCounted == CrawlSpec => []MixesKeepTheCount
<1>1. CacheInv /\ MixInv => MixesKeepTheCount
  <2> SUFFICES ASSUME CacheInv, MixInv, NEW l \in Venues,
                      NEW p \in Crawlers, run[p].pc \in {"read", "done"}
               PROVE  CountKept(moments[l], Holds(run[p].got, l))
    BY DEF MixesKeepTheCount, MixInv
  <2>1. PICK j \in 1..Len(Listings) : l = Listings[j]
    BY DEF Venues, Range
  <2>2. run[p].i > Len(Listings) /\ run[p].i \in Nat /\ Len(Listings) \in Nat
    BY CrawlAssumption DEF MixInv, Mixed, CacheInv, CrawlTyped, Runs, RunFields
  <2>3. j < run[p].i /\ Mixed(run[p], moments)
    BY <2>2 DEF MixInv
  <2> QED
    BY <2>1, <2>3 DEF Mixed, GotOf, Holds
<1> QED
  BY <1>1, MixInvInit, MixInvStep, CacheInvariant, PTL DEF CrawlSpec
-----------------------------------------------------------------------------
(* The crawler's client: it waits as it is asked to and no longer, whatever  *)
(* its policy and whatever the server names.                                *)
(*                                                                         *)
(* What the server asked for is slept before the next request goes out, so  *)
(* the client owes nothing whenever it sends.                               *)

ClientTyped ==
    /\ policy \in Policies
    /\ stage \in {"idle", "sending", "sleeping", "aborted"}
    /\ then \in {"idle", "sending", "aborted"}
    /\ since \in 0..policy.min_interval /\ sleep \in Nat /\ owed \in Nat
    /\ attempt \in 0..policy.attempts /\ early = FALSE

(* An attempt is left to a request that is, or is about to be, sent.        *)
AttemptsLeft ==
    (stage = "sending" \/ (stage = "sleeping" /\ then = "sending")) => attempt < policy.attempts

(* What the server asked for is over before a request can go out, and a     *)
(* sleep that ends in one is long enough.                                  *)
DebtsSlept ==
    /\ stage \in {"idle", "sending"} => owed = 0
    /\ stage = "sleeping" /\ then # "aborted" => owed <= sleep

ClientInv == ClientTyped /\ AttemptsLeft /\ DebtsSlept /\ WaitsHold

LEMMA PolicyTyped ==
    ASSUME policy \in Policies
    PROVE  /\ policy.min_interval \in Nat /\ policy.attempts \in Nat \ {0}
           /\ policy.backoff[1] \in Nat /\ policy.backoff[2] \in Nat /\ policy.jitter \in Nat
           /\ policy.hint_pad \in Nat /\ policy.max_wait \in Nat
           /\ \A n \in 0..policy.attempts : 2 ^ n \in Nat
BY ClientAssumption DEF Rules

(* A wait before the next attempt is as long as the answer asked for, and no *)
(* longer than the policy allows.                                          *)
LEMMA RetryWaits ==
    ASSUME policy \in Policies, attempt \in 0..policy.attempts,
           NEW hint \in Hints \cup {Unnamed}, NEW jitter \in 0..policy.jitter,
           RetryWait(hint, jitter) # Unnamed
    PROVE  /\ RetryWait(hint, jitter) \in Nat
           /\ Asked(hint) \in Nat /\ Asked(hint) <= RetryWait(hint, jitter)
           /\ RetryWait(hint, jitter) <= policy.max_wait + policy.hint_pad
<1> DEFINE asked == IF hint = Unnamed THEN Backoff(jitter) ELSE hint
<1>1. Backoff(jitter) \in Nat
  <2>1. 2 ^ attempt \in Nat
    BY PolicyTyped
  <2>2. policy.backoff[1] * 2 ^ attempt \in Nat
    BY <2>1, PolicyTyped
  <2> QED
    BY <2>2, PolicyTyped DEF Backoff, Least
<1>2. asked \in Nat
  BY <1>1, ClientAssumption
<1> HIDE DEF asked
<1>3. Bounded(asked) # Unnamed
      /\ RetryWait(hint, jitter) = Bounded(asked) + (IF hint = Unnamed THEN 0 ELSE policy.hint_pad)
  BY DEF RetryWait, asked
<1>4. Bounded(asked) \in Nat /\ Bounded(asked) <= policy.max_wait
  BY <1>2, <1>3, PolicyTyped DEF Bounded
<1>5. hint # Unnamed => Asked(hint) <= Bounded(asked)
  BY <1>2, <1>3, PolicyTyped DEF Bounded, Asked, Least, asked
<1>6. Asked(hint) \in Nat
  BY <1>2, PolicyTyped DEF Asked, Least, asked
<1> QED
  BY <1>3, <1>4, <1>5, <1>6, PolicyTyped DEF Asked

(* So is the wait for a budget to come back.                                *)
LEMMA BudgetWaits ==
    ASSUME policy \in Policies, NEW reset \in Resets \cup {Unnamed}
    PROVE  /\ BudgetWait(reset) \in Nat
           /\ Asked(reset) \in Nat /\ Asked(reset) <= BudgetWait(reset)
           /\ BudgetWait(reset) <= policy.max_wait + policy.hint_pad
<1> DEFINE wait == IF reset = Unnamed THEN NoReset ELSE reset
<1>1. wait \in Nat /\ policy.max_wait \in Nat /\ policy.hint_pad \in Nat
  BY ClientAssumption, PolicyTyped
<1>2. BudgetWait(reset) = Least(wait, policy.max_wait) + policy.hint_pad
  BY DEF BudgetWait
<1>3. Asked(reset) = IF reset = Unnamed THEN 0 ELSE Least(wait, policy.max_wait)
  BY DEF Asked
<1> HIDE DEF wait
<1> QED
  BY <1>1, <1>2, <1>3 DEF Least

(* An exchange is never early, and leaves only what its own answer asks.    *)
LEMMA Exchanges ==
    ASSUME ClientInv, NEW named, Exchange(named), Asked(named) \in Nat
    PROVE  /\ stage = "sending" /\ policy' = policy /\ early' = FALSE
           /\ since' = 0 /\ since' \in 0..policy'.min_interval
           /\ owed' = Asked(named)
<1>1. owed = 0 /\ policy.min_interval - since \in Nat /\ early = FALSE
  BY PolicyTyped DEF ClientInv, ClientTyped, DebtsSlept, WaitsHold, NamedWaitsHonoured, Exchange
<1>2. owed' = Most(Passed(policy.min_interval - since), Asked(named))
      /\ policy' = policy /\ early' = (early \/ owed > policy.min_interval - since) /\ since' = 0
  BY DEF Exchange
<1>3. Passed(policy.min_interval - since) = 0
  BY <1>1, PolicyTyped DEF Passed, Most
<1>4. owed' = Asked(named)
  BY <1>2, <1>3 DEF Most
<1>5. early' = FALSE
  <2>1. ~(owed > policy.min_interval - since)
    BY <1>1
  <2> QED
    BY <1>1, <1>2, <2>1, Zenon
<1>6. 0 \in 0..policy'.min_interval
  BY <1>2, PolicyTyped DEF ClientInv, ClientTyped
<1> QED
  BY <1>1, <1>2, <1>4, <1>5, <1>6 DEF Exchange

(* A client that sleeps as long as it was asked, and then goes on, keeps the *)
(* invariant.                                                              *)
LEMMA Sleeps ==
    ASSUME ClientInv, policy' = policy, early' = FALSE, since' = 0,
           NEW wait \in Nat, NEW next \in {"idle", "sending", "aborted"}, SleepThen(wait, next),
           wait <= policy.max_wait + policy.hint_pad,
           owed' \in Nat, next # "aborted" => owed' <= wait,
           attempt' \in 0..policy.attempts, next = "sending" => attempt' < policy.attempts
    PROVE  ClientInv'
<1>1. ClientTyped'
  BY PolicyTyped DEF ClientInv, ClientTyped, SleepThen
<1>2. AttemptsLeft'
  BY DEF AttemptsLeft, SleepThen
<1>3. DebtsSlept'
  BY DEF DebtsSlept, SleepThen
<1>4. WaitsHold'
  BY DEF WaitsHold, NamedWaitsHonoured, NeverParkedLonger, SleepThen
<1> QED
  BY <1>1, <1>2, <1>3, <1>4 DEF ClientInv

LEMMA ClientInvInit == ClientInit => ClientInv
BY PolicyTyped, ClientAssumption
DEF ClientInit, ClientInv, ClientTyped, AttemptsLeft, DebtsSlept, WaitsHold,
    NamedWaitsHonoured, NeverParkedLonger, Rules

LEMMA ClientInvStep == ClientInv /\ [ClientNext]_clientVars => ClientInv'
<1> SUFFICES ASSUME ClientInv, [ClientNext]_clientVars PROVE ClientInv'
  OBVIOUS
<1>typed. policy \in Policies /\ attempt \in 0..policy.attempts
  BY DEF ClientInv, ClientTyped
<1>1. CASE Ask
  BY <1>1, PolicyTyped DEF Ask, ClientInv, ClientTyped, AttemptsLeft, DebtsSlept, WaitsHold,
              NamedWaitsHonoured, NeverParkedLonger
<1>2. CASE Work
  BY <1>2, PolicyTyped DEF Work, Least, Passed, Most, ClientInv, ClientTyped, AttemptsLeft, DebtsSlept,
              WaitsHold, NamedWaitsHonoured, NeverParkedLonger
<1>3. CASE Retry
  <2>1. PICK hint \in Hints \cup {Unnamed}, jitter \in 0..policy.jitter :
          LET last == attempt + 1 = policy.attempts
              next == IF ~last THEN "sending"
                      ELSE IF policy.wait_after_last THEN "idle" ELSE "aborted"
          IN  /\ Exchange(hint)
              /\ attempt' = attempt + 1
              /\ IF last /\ ~policy.wait_after_last THEN SleepThen(0, next)
                 ELSE IF RetryWait(hint, jitter) = Unnamed THEN SleepThen(0, "aborted")
                 ELSE SleepThen(RetryWait(hint, jitter), next)
    BY <1>3 DEF Retry
  <2>2. Asked(hint) \in Nat
    BY <1>typed, ClientAssumption, PolicyTyped DEF Asked, Least
  <2>3. /\ stage = "sending" /\ policy' = policy /\ early' = FALSE /\ since' = 0
        /\ owed' = Asked(hint)
    BY <2>1, <2>2, Exchanges
  <2>4. attempt + 1 \in 0..policy.attempts
        /\ (attempt + 1 # policy.attempts => attempt + 1 < policy.attempts)
    BY <2>3, <1>typed, PolicyTyped DEF ClientInv, AttemptsLeft
  <2>5. CASE SleepThen(0, "aborted")
    <3>1. attempt' \in 0..policy.attempts /\ owed' \in Nat /\ 0 <= policy.max_wait + policy.hint_pad
      BY <2>1, <2>2, <2>3, <2>4, <1>typed, PolicyTyped
    <3> QED
      BY <2>3, <2>5, <3>1, Sleeps
  <2>6. ASSUME RetryWait(hint, jitter) # Unnamed,
               NEW next \in {"idle", "sending", "aborted"},
               SleepThen(RetryWait(hint, jitter), next),
               next = "sending" => attempt + 1 # policy.attempts
        PROVE  ClientInv'
    BY <2>1, <2>2, <2>3, <2>4, <2>6, <1>typed, RetryWaits, Sleeps
  <2> QED
    BY <2>1, <2>5, <2>6
<1>4. ASSUME NEW wait \in Nat, NEW named, Exchange(named), Asked(named) \in Nat,
             Asked(named) <= wait, wait <= policy.max_wait + policy.hint_pad,
             Taken(wait) \/ Refused(wait)
      PROVE  ClientInv'
  <2>1. /\ stage = "sending" /\ policy' = policy /\ early' = FALSE /\ since' = 0
        /\ owed' = Asked(named)
    BY <1>4, Exchanges
  <2>2. PICK next \in {"idle", "sending", "aborted"} :
          /\ SleepThen(wait, next)
          /\ attempt' \in {attempt, 0} /\ (next = "sending" => attempt' = 0)
    BY <1>4 DEF Taken, Refused
  <2>3. attempt' \in 0..policy.attempts /\ (next = "sending" => attempt' < policy.attempts)
    BY <2>2, <1>typed, PolicyTyped
  <2> QED
    BY <1>4, <2>1, <2>2, <2>3, Sleeps
<1>5. CASE Answer
  BY <1>4, <1>5, <1>typed, PolicyTyped DEF Answer, Asked
<1>6. CASE SpentAnswer
  <2>1. PICK reset \in Resets \cup {Unnamed} :
          Exchange(reset) /\ (Taken(BudgetWait(reset)) \/ Refused(BudgetWait(reset)))
    BY <1>6 DEF SpentAnswer
  <2> QED
    BY <1>4, <2>1, <1>typed, BudgetWaits
<1>7. CASE Other
  <2>1. Exchange(Unnamed) /\ attempt' = attempt
    BY <1>7 DEF Other
  <2>2. Asked(Unnamed) = 0 /\ Asked(Unnamed) \in Nat
    BY DEF Asked
  <2>3. policy' = policy /\ early' = FALSE /\ since' = 0 /\ owed' = 0
    BY <2>1, <2>2, Exchanges
  <2>4. PICK next \in {"idle", "aborted"} : SleepThen(0, next)
    BY <1>7 DEF Other
  <2>5. attempt' \in 0..policy.attempts /\ owed' \in Nat /\ 0 <= policy.max_wait + policy.hint_pad
        /\ owed' <= 0
    BY <2>1, <2>3, <1>typed, PolicyTyped
  <2> QED
    BY <2>3, <2>4, <2>5, Sleeps
<1>8. CASE WakeUp
  BY <1>8, PolicyTyped DEF WakeUp, Least, Passed, Most, ClientInv, ClientTyped, AttemptsLeft, DebtsSlept,
              WaitsHold, NamedWaitsHonoured, NeverParkedLonger
<1>9. CASE Restart
  BY <1>9, PolicyTyped DEF Restart, ClientInv, ClientTyped, AttemptsLeft, DebtsSlept, WaitsHold,
              NamedWaitsHonoured, NeverParkedLonger
<1>10. CASE UNCHANGED clientVars
  BY <1>10 DEF clientVars, ClientInv, ClientTyped, AttemptsLeft, DebtsSlept, WaitsHold,
               NamedWaitsHonoured, NeverParkedLonger
<1> QED
  BY <1>1, <1>2, <1>3, <1>5, <1>6, <1>7, <1>8, <1>9, <1>10 DEF ClientNext, Sends

(* The invariant of the client and of what it owes the server.               *)
THEOREM ClientInvariant == ClientSpec => []ClientInv
BY ClientInvInit, ClientInvStep, PTL DEF ClientSpec

(* No request goes out before a wait the server named is over, and no sleep   *)
(* is longer than the policy's longest wait and its pad.                     *)
THEOREM WaitsHonoured == ClientSpec => []WaitsHold
<1>1. ClientInv => WaitsHold
  BY DEF ClientInv
<1> QED
  BY <1>1, ClientInvariant, PTL
=============================================================================
