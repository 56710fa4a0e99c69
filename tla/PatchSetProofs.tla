--------------------------- MODULE PatchSetProofs ---------------------------
(* Theorems about PatchSet, for any files, changes and names of patches.    *)
EXTENDS PatchSet, TLAPS

USE PatchSetAssumption

(* A fresh checkout and a consistent set of patches.                        *)
LEMMA InitInv == Init => PatchSetInv
<1> SUFFICES ASSUME Init PROVE PatchSetInv
  OBVIOUS
<1>1. PatchFiles = {PatchOf(f) : f \in list}
  <2>1. Hunks # NoPatch
    OBVIOUS
  <2>2. list \subseteq Files
    BY DEF Init, Patchable
  <2>3. \A n \in Names : patches[n] # NoPatch <=> \E f \in list : n = Slashed[f]
    BY <2>1 DEF Init, PatchOf
  <2> QED
    BY <2>2, <2>3 DEF PatchFiles, PatchOf
<1>2. TypeOK
  BY DEF Init, TypeOK, Outcomes, Patchable
<1>3. UpdateProgress
  BY <1>1 DEF Init, UpdateProgress, Patchable
<1> QED
  BY <1>2, <1>3
  DEF Init, PatchSetInv, AppliesWholeSets, UpdateRecordsTree, StoredAsRecorded,
      ApplyProgress, RecordedChangesReturn

(* The consistency check is only passed by a list that is not empty.        *)
LEMMA ConsistentSets ==
    ASSUME TypeOK, CheckPatchConsistency
    PROVE  PatchList = list /\ PatchFiles = list /\ list \subseteq Patchable
BY DEF TypeOK, CheckPatchConsistency, PatchList, PatchFiles

(* One file of the tree changes to some hunks.                              *)
LEMMA ChangedTree ==
    ASSUME TypeOK, NEW f \in Files, NEW change \in SUBSET Hunks,
           tree' = [tree EXCEPT ![f] = change]
    PROVE  tree' \in [Files -> SUBSET Hunks]
<1>1. tree \in [Files -> SUBSET Hunks]
  BY DEF TypeOK
<1> QED
  BY <1>1, Zenon

(* Whatever patch makes of a file consists of known hunks.                  *)
LEMMA PatchedFile ==
    ASSUME TypeOK, NEW f \in Files, NEW patched \in RunPatch(f)
    PROVE  patched \in SUBSET Hunks
<1>1. tree[f] \in SUBSET Hunks
  BY DEF TypeOK
<1>2. fits[PatchOf(f)] \in SUBSET Hunks
  BY DEF TypeOK, PatchOf
<1>3. patched = tree[f] \/ patched = tree[f] \cup (patches[PatchOf(f)] \cap fits[PatchOf(f)])
  BY Zenon DEF RunPatch
<1> QED
  BY <1>1, <1>2, <1>3

(* What a script that is interrupted may leave.                             *)
LEMMA InterruptedLeaves ==
    ASSUME TypeOK, Interrupted
    PROVE  /\ tree' \in [Files -> SUBSET Hunks]
           /\ patches' \in [Names -> {NoPatch} \cup SUBSET Hunks]
           /\ fits' \in [Names -> SUBSET Hunks]
           /\ list' \subseteq Patchable \cup {BrokenLine}
           /\ overwrite' \in [Excluded -> SUBSET Hunks]
           /\ \A f \in Patchable : tree'[f] = tree[f]
           /\ \/ patches' = patches
              \/ \E f \in Files, part \in SUBSET Hunks :
                     patches' = [patches EXCEPT ![PatchOf(f)] = part]
           /\ pc \notin {"write patches", "write list"} =>
                 UNCHANGED <<patches, fits, list, overwrite>>
<1>1. /\ tree \in [Files -> SUBSET Hunks]
      /\ patches \in [Names -> {NoPatch} \cup SUBSET Hunks]
      /\ fits \in [Names -> SUBSET Hunks]
      /\ list \subseteq Patchable \cup {BrokenLine}
      /\ overwrite \in [Excluded -> SUBSET Hunks]
      /\ todo \subseteq Names
  BY DEF TypeOK
<1>2. CASE UNCHANGED <<tree, patches, fits, list, overwrite>>
  BY <1>1, <1>2
<1>3. CASE TornPatch
  <2>1. PICK f \in todo \cap Patchable, part \in SUBSET Hunks :
               /\ patches' = [patches EXCEPT ![PatchOf(f)] = part]
               /\ fits' = [fits EXCEPT ![PatchOf(f)] = Hunks]
    BY <1>3 DEF TornPatch
  <2>2. pc = "write patches" /\ UNCHANGED <<tree, list, overwrite>>
    BY <1>3 DEF TornPatch
  <2>3. f \in Files
    BY <2>1 DEF Patchable
  <2>4. patches' \in [Names -> {NoPatch} \cup SUBSET Hunks]
    BY <1>1, <2>1, Zenon
  <2>5. fits' \in [Names -> SUBSET Hunks]
    BY <1>1, <2>1
  <2> QED BY <1>1, <2>1, <2>2, <2>3, <2>4, <2>5
<1>4. CASE TornCopy
  <2>1. PICK f \in Excluded, part \in SUBSET Hunks : overwrite' = [overwrite EXCEPT ![f] = part]
    BY <1>4 DEF TornCopy
  <2>2. pc = "write patches" /\ UNCHANGED <<tree, patches, fits, list>>
    BY <1>4 DEF TornCopy
  <2> QED BY <1>1, <2>1, <2>2
<1>5. CASE TornList
  <2>1. pc = "write list" /\ UNCHANGED <<tree, patches, fits, overwrite>>
    BY <1>5 DEF TornList
  <2>2. list' \subseteq Patchable \cup {BrokenLine}
    BY <1>5 DEF TornList, NewPatchList, Changed, Patchable
  <2> QED BY <1>1, <2>1, <2>2
<1>6. CASE TornTree
  <2>1. PICK copied \in SUBSET Excluded, torn \in Excluded, part \in SUBSET Hunks :
               tree' = [f \in Files |-> IF f = torn THEN part
                                       ELSE IF f \in copied THEN overwrite[f] ELSE tree[f]]
    BY <1>6 DEF TornTree
  <2>2. UNCHANGED <<patches, fits, list, overwrite>>
    BY <1>6 DEF TornTree
  <2>3. \A f \in Files : tree'[f] \in SUBSET Hunks
    BY <1>1, <2>1
  <2>4. \A f \in Patchable : tree'[f] = tree[f]
    BY <2>1 DEF Patchable
  <2> QED BY <1>1, <2>1, <2>2, <2>3, <2>4
<1> QED BY <1>2, <1>3, <1>4, <1>5, <1>6 DEF Interrupted

(* Type correctness is inductive.                                           *)
LEMMA NextKeepsType == TypeOK /\ [Next]_vars => TypeOK'
<1> SUFFICES ASSUME TypeOK, [Next]_vars PROVE TypeOK'
  OBVIOUS
<1> USE DEF TypeOK, Go, End, Start, Outcomes, store
<1>1. CASE Edit
  <2>1. PICK f \in Files, change \in SUBSET Hunks : tree' = [tree EXCEPT ![f] = change]
    BY <1>1, Zenon DEF Edit
  <2>2. tree' \in [Files -> SUBSET Hunks]
    BY <2>1, ChangedTree
  <2> QED
    BY <1>1, <2>2 DEF Edit
<1>2. CASE Interrupted
  <2>1. /\ tree' \in [Files -> SUBSET Hunks] /\ overwrite' \in [Excluded -> SUBSET Hunks]
        /\ patches' \in [Names -> {NoPatch} \cup SUBSET Hunks]
        /\ fits' \in [Names -> SUBSET Hunks]
        /\ list' \subseteq Patchable \cup {BrokenLine}
    BY <1>2, InterruptedLeaves
  <2> QED
    BY <1>2, <2>1 DEF Interrupted
<1>3. CASE LoopEnds
  BY <1>3 DEF LoopEnds, PatchFiles
<1>4. CASE UpdatePatches
  BY <1>4 DEF UpdatePatches, Changed
<1>5. CASE WriteList
  BY <1>5 DEF WriteList, NewPatchList, Changed, Patchable
<1>6. ASSUME NEW f \in Files, CopyExcluded(f) PROVE TypeOK'
  BY <1>6 DEF CopyExcluded
<1>7. ASSUME NEW f \in Files, WritePatch(f) PROVE TypeOK'
  BY <1>7 DEF WritePatch, PatchOf
<1>8. ASSUME NEW f \in Files, ApplyPatch(f) PROVE TypeOK'
  <2>1. PICK patched \in RunPatch(f) : tree' = [tree EXCEPT ![f] = patched]
    BY <1>8, Zenon DEF ApplyPatch
  <2>2. tree' \in [Files -> SUBSET Hunks]
    BY <2>1, PatchedFile, ChangedTree
  <2> QED
    BY <1>8, <2>2 DEF ApplyPatch
<1>9. ASSUME NEW n \in Names, RemoveOldPatch(n) PROVE TypeOK'
  BY <1>9 DEF RemoveOldPatch
<1>10. CASE ApplyPatches
  BY <1>10 DEF ApplyPatches
<1>11. CASE Check
  <2>1. CheckPatchConsistency => PatchList \subseteq Names
    BY ConsistentSets DEF PatchFiles
  <2> QED
    BY <1>11, <2>1 DEF Check
<1>12. CASE CopyTree
  BY <1>12 DEF CopyTree
<1>13. CASE Link
  BY <1>13 DEF Link
<1>14. CASE Sync
  BY <1>14 DEF Sync
<1>15. CASE GClient
  <2>1. PICK ok \in BOOLEAN : GClientRuns(ok) /\ IF ok THEN End("failed") ELSE Go("check", {})
    BY <1>15 DEF GClient
  <2>2. PICK kept \in IF ok THEN {{}} ELSE SUBSET Files :
               tree' = [f \in Files |-> IF f \in kept THEN tree[f] ELSE {}]
    BY <2>1, Zenon DEF GClientRuns
  <2>3. tree' \in [Files -> SUBSET Hunks]
    BY <2>2
  <2>4. PICK hunks \in {Hunks} \cup {Hunks \ {h} : h \in Hunks} :
               fits' = [n \in Names |-> fits[n] \cap hunks]
    BY <2>1, Zenon DEF GClientRuns
  <2>5. fits' \in [Names -> SUBSET Hunks] /\ clean' \in BOOLEAN
    BY <2>1, <2>4 DEF GClientRuns
  <2> QED
    BY <1>15, <2>1, <2>3, <2>5 DEF GClient
<1>16. CASE CopySources
  BY <1>16 DEF CopySources
<1>17. CASE UNCHANGED vars
  BY <1>17 DEF vars
<1> QED
  BY <1>1, <1>2, <1>3, <1>4, <1>5, <1>6, <1>7, <1>8, <1>9, <1>10, <1>11, <1>12, <1>13,
     <1>14, <1>15, <1>16, <1>17 DEF Next

(* Only Check starts to apply, and nothing changes the patches until the end.*)
LEMMA NextKeepsWholeSets == TypeOK /\ AppliesWholeSets /\ [Next]_vars => AppliesWholeSets'
<1> SUFFICES ASSUME TypeOK, AppliesWholeSets, [Next]_vars PROVE AppliesWholeSets'
  OBVIOUS
<1> USE DEF AppliesWholeSets, Go, End, Start, store, PatchFiles
<1>1. CASE Check
  <2>1. UNCHANGED <<patches, list>>
    BY <1>1 DEF Check
  <2>2. CASE CheckPatchConsistency
    BY <1>1, <2>1, <2>2, ConsistentSets DEF Check
  <2>3. CASE ~CheckPatchConsistency
    BY <1>1, <2>3 DEF Check
  <2> QED
    BY <2>2, <2>3
<1>2. ASSUME NEW f \in Files, ApplyPatch(f) PROVE AppliesWholeSets'
  BY <1>2 DEF ApplyPatch
<1>3. ASSUME NEW f \in Files, CopyExcluded(f) \/ WritePatch(f) PROVE AppliesWholeSets'
  BY <1>3 DEF CopyExcluded, WritePatch
<1>4. ASSUME NEW n \in Names, RemoveOldPatch(n) PROVE AppliesWholeSets'
  BY <1>4 DEF RemoveOldPatch
<1>5. CASE LoopEnds
  BY <1>5 DEF LoopEnds
<1>6. CASE Edit \/ Interrupted \/ UpdatePatches \/ WriteList
  BY <1>6 DEF Edit, Interrupted, UpdatePatches, WriteList
<1>7. CASE ApplyPatches \/ CopyTree \/ Link \/ Sync \/ CopySources
  BY <1>7 DEF ApplyPatches, CopyTree, Link, Sync, CopySources
<1>8. CASE GClient
  BY <1>8 DEF GClient
<1>9. CASE UNCHANGED vars
  BY <1>9 DEF vars
<1> QED
  BY <1>1, <1>2, <1>3, <1>4, <1>5, <1>6, <1>7, <1>8, <1>9 DEF Next

(* A patch that is found under the name of a file is that file's.           *)
LEMMA NamedPatches ==
    ASSUME TypeOK, UpdateProgress, NEW n \in PatchFiles, n \in Files
    PROVE  n \in Nameable /\ PatchOf(n) = n
<1>1. PICK f \in Files : n = Slashed[f]
  BY DEF UpdateProgress, PatchOf
<1> QED
  BY <1>1 DEF Nameable, PatchOf

(* The loops of update_patches.py, and what it has done at its end.         *)
LEMMA NextKeepsUpdateProgress ==
    PatchSetInv /\ TypeOK' /\ [Next]_vars => UpdateProgress' /\ UpdateRecordsTree'
<1> SUFFICES ASSUME PatchSetInv, TypeOK', [Next]_vars
             PROVE  UpdateProgress' /\ UpdateRecordsTree'
  OBVIOUS
<1>0. TypeOK /\ UpdateProgress /\ UpdateRecordsTree
  BY DEF PatchSetInv
<1> USE DEF UpdateProgress, UpdateRecordsTree, PatchFiles, PatchOf, NewPatchList, Changed, Nameable,
            Go, End, Start, store
<1>1. CASE Edit
  BY <1>0, <1>1 DEF Edit
<1>t. tree \in [Files -> SUBSET Hunks] /\ patches \in [Names -> {NoPatch} \cup SUBSET Hunks]
  BY <1>0 DEF TypeOK
<1>2. CASE Interrupted
  <2>1. outcome' = "interrupted" /\ pc' = "idle"
    BY <1>2 DEF Interrupted
  <2>2. \/ patches' = patches
        \/ \E f \in Files, part \in SUBSET Hunks :
               patches' = [patches EXCEPT ![Slashed[f]] = part]
    BY <1>0, <1>2, InterruptedLeaves
  <2>3. PatchFiles' \subseteq {PatchOf(f) : f \in Files}
    <3>1. CASE patches' = patches
      BY <1>0, <3>1
    <3>2. CASE \E f \in Files, part \in SUBSET Hunks :
                   patches' = [patches EXCEPT ![Slashed[f]] = part]
      <4>1. PICK f \in Files, part \in SUBSET Hunks :
                     patches' = [patches EXCEPT ![Slashed[f]] = part]
        BY <3>2
      <4>2. PatchFiles' \subseteq PatchFiles \cup {Slashed[f]}
        BY <1>t, <4>1
      <4>3. PatchFiles \subseteq {PatchOf(g) : g \in Files}
        BY <1>0
      <4> HIDE DEF PatchFiles
      <4> QED
        BY <4>2, <4>3
    <3> QED
      BY <2>2, <3>1, <3>2
  <2> QED
    BY <1>0, <2>1, <2>3
<1>3. CASE LoopEnds
  BY <1>0, <1>3 DEF LoopEnds, TypeOK
<1>4. CASE UpdatePatches
  BY <1>0, <1>4 DEF UpdatePatches
<1>5. CASE WriteList
  <2>1. /\ pc = "write list" /\ todo = {} /\ pc' = "idle"
        /\ list' = NewPatchList
        /\ UNCHANGED <<tree, patches>>
    BY <1>0, <1>5 DEF WriteList
  <2>2. /\ PatchFiles \subseteq NewPatchList
        /\ \A f \in NewPatchList \cap Nameable : patches[f] = tree[f]
    BY <1>0, <2>1
  <2>3. PatchFiles \subseteq Nameable
    BY <1>0, <2>2, NamedPatches
  <2>4. \A f \in NewPatchList \cap Nameable : f \in PatchFiles
    BY <1>t, <2>2
  <2> QED
    BY <1>0, <2>1, <2>2, <2>3, <2>4
<1>6. ASSUME NEW f \in Files, CopyExcluded(f) PROVE UpdateProgress' /\ UpdateRecordsTree'
  BY <1>0, <1>6 DEF CopyExcluded, TypeOK
<1>7. ASSUME NEW f \in Files, WritePatch(f) PROVE UpdateProgress' /\ UpdateRecordsTree'
  <2>1. /\ pc = "write patches" /\ pc' = pc /\ outcome' = outcome /\ outcome = "none"
        /\ f \notin Excluded /\ todo' = todo \ {f}
        /\ patches' = [patches EXCEPT ![Slashed[f]] = tree[f]]
        /\ UNCHANGED <<tree, overwrite>>
    BY <1>0, <1>7 DEF WritePatch
  <2>2. /\ patches'[Slashed[f]] = tree[f]
        /\ \A n \in Names \ {Slashed[f]} : patches'[n] = patches[n]
    BY <1>t, <2>1
  <2>3. PatchFiles' \subseteq {PatchOf(g) : g \in Files}
    <3>1. PatchFiles' \subseteq PatchFiles \cup {Slashed[f]}
      BY <2>2
    <3> QED
      BY <1>0, <3>1
  <2>4. ASSUME NEW g \in NewPatchList \ todo'
        PROVE  patches'[Slashed[g]] = tree[g]
    <3>1. CASE g = f
      BY <2>2, <3>1
    <3>2. CASE g # f
      BY <1>0, <2>1, <2>2, <3>2
    <3> QED
      BY <3>1, <3>2
  <2> QED
    BY <1>0, <2>1, <2>3, <2>4
<1>8. ASSUME NEW f \in Files, ApplyPatch(f) PROVE UpdateProgress' /\ UpdateRecordsTree'
  BY <1>0, <1>8 DEF ApplyPatch
<1>9. ASSUME NEW n \in Names, RemoveOldPatch(n) PROVE UpdateProgress' /\ UpdateRecordsTree'
  <2>1. /\ pc = "remove old" /\ pc' = pc /\ outcome' = outcome /\ outcome = "none"
        /\ todo' = todo \ {n}
        /\ UNCHANGED <<tree, overwrite>>
    BY <1>0, <1>9 DEF RemoveOldPatch
  <2>2. /\ patches'[n] = IF n \in NewPatchList THEN patches[n] ELSE NoPatch
        /\ \A m \in Names \ {n} : patches'[m] = patches[m]
    BY <1>0, <1>9 DEF RemoveOldPatch, TypeOK
  <2>3. PatchFiles' \subseteq PatchFiles /\ PatchFiles' \ todo' \subseteq NewPatchList
    BY <1>0, <2>1, <2>2
  <2>4. \A f \in NewPatchList : patches'[f] = patches[f]
    BY <2>2
  <2> QED
    BY <1>0, <2>1, <2>3, <2>4
<1>10. CASE ApplyPatches \/ Sync
  BY <1>0, <1>10 DEF ApplyPatches, Sync
<1>11. CASE Check \/ CopyTree \/ Link \/ CopySources
  BY <1>0, <1>11 DEF Check, CopyTree, Link, CopySources
<1>12. CASE GClient
  BY <1>0, <1>12 DEF GClient
<1>13. CASE UNCHANGED vars
  BY <1>0, <1>13 DEF vars
<1> QED
  BY <1>1, <1>2, <1>3, <1>4, <1>5, <1>6, <1>7, <1>8, <1>9, <1>10, <1>11, <1>12, <1>13 DEF Next

(* Only update_patches.py writes what is stored, and forgets the record first.*)
LEMMA NextKeepsStore == PatchSetInv /\ TypeOK' /\ [Next]_vars => StoredAsRecorded'
<1> SUFFICES ASSUME PatchSetInv, TypeOK', [Next]_vars PROVE StoredAsRecorded'
  OBVIOUS
<1>0. TypeOK /\ UpdateProgress /\ StoredAsRecorded
  BY DEF PatchSetInv
<1> USE DEF StoredAsRecorded, PatchFiles, Go, End, Start, store
<1>1. CASE WriteList
  <2>1. /\ pc = "write list" /\ pc' = "idle" /\ todo = {} /\ saved' = {tree}
        /\ list' = NewPatchList /\ UNCHANGED <<tree, patches, overwrite>>
    BY <1>0, <1>1 DEF WriteList, UpdateProgress
  <2>2. NewPatchList = {f \in Patchable : tree[f] # {}}
    BY DEF NewPatchList, Changed, Patchable
  <2>3. \A f \in PatchFiles : f \in NewPatchList /\ patches[f] = tree[f]
    <3>1. PatchFiles \subseteq NewPatchList /\ NewPatchList \subseteq Files
      BY <1>0, <2>1 DEF UpdateProgress, NewPatchList, Changed
    <3>2. PatchFiles \subseteq Nameable
      BY <1>0, <3>1, NamedPatches
    <3> QED
      BY <1>0, <2>1, <3>1, <3>2 DEF UpdateProgress
  <2>4. \A f \in Excluded : tree[f] # {} => overwrite[f] = tree[f]
    BY <1>0, <2>1 DEF UpdateProgress, Changed
  <2> QED
    BY <2>1, <2>2, <2>3, <2>4
<1>2. CASE UpdatePatches
  BY <1>2 DEF UpdatePatches
<1>3. CASE Interrupted
  <2>1. pc' = "idle" /\ saved' = saved
    BY <1>3 DEF Interrupted
  <2>2. CASE saved = {}
    BY <2>1, <2>2
  <2>3. CASE saved # {}
    <3>1. pc \notin {"write patches", "write list"}
      BY <1>0, <2>3
    <3>2. UNCHANGED <<patches, list, overwrite>>
      BY <1>0, <1>3, <3>1, InterruptedLeaves
    <3> QED
      BY <1>0, <2>1, <3>2
  <2> QED
    BY <2>2, <2>3
<1>4. CASE LoopEnds
  BY <1>0, <1>4 DEF LoopEnds
<1>5. ASSUME NEW f \in Files, CopyExcluded(f) \/ WritePatch(f) PROVE StoredAsRecorded'
  BY <1>0, <1>5 DEF CopyExcluded, WritePatch
<1>6. ASSUME NEW n \in Names, RemoveOldPatch(n) PROVE StoredAsRecorded'
  BY <1>0, <1>6 DEF RemoveOldPatch
<1>7. ASSUME NEW f \in Files, ApplyPatch(f) PROVE StoredAsRecorded'
  BY <1>0, <1>7 DEF ApplyPatch
<1>8. CASE Edit \/ ApplyPatches \/ CopyTree \/ Link \/ Sync \/ CopySources \/ Check \/ GClient
  <2>1. UNCHANGED <<patches, list, overwrite, saved>>
    BY <1>8 DEF Edit, ApplyPatches, CopyTree, Link, Sync, CopySources, Check, GClient
  <2>2. pc' \notin {"write patches", "remove old", "write list"}
    <3>1. CASE Edit \/ ApplyPatches \/ CopyTree \/ Sync
      BY <3>1 DEF Edit, ApplyPatches, CopyTree, Sync
    <3>2. CASE Link \/ CopySources
      BY <3>2 DEF Link, CopySources
    <3>3. CASE Check
      BY <3>3 DEF Check
    <3>4. CASE GClient
      BY <3>4 DEF GClient
    <3> QED
      BY <1>8, <3>1, <3>2, <3>3, <3>4
  <2> QED
    BY <1>0, <2>1, <2>2
<1>9. CASE UNCHANGED vars
  BY <1>0, <1>9 DEF vars
<1> QED
  BY <1>1, <1>2, <1>3, <1>4, <1>5, <1>6, <1>7, <1>8, <1>9 DEF Next

(* Patching a file that is Chromium's or as recorded, with the recorded     *)
(* patch, makes it as recorded.                                             *)
LEMMA PatchingRestores ==
    ASSUME TypeOK, UpdateProgress, StoredAsRecorded, PatchesFit, NEW recorded \in saved,
           NEW f \in Files, f \in PatchFiles, tree[f] \in {{}, recorded[f]},
           NEW patched \in RunPatch(f)
    PROVE  patched = recorded[f]
<1>1. PatchOf(f) = f /\ patches[f] = recorded[f] /\ recorded[f] # {}
  BY NamedPatches DEF StoredAsRecorded
<1>2. recorded[f] \subseteq fits[f]
  BY <1>1 DEF PatchesFit
<1>3. RunPatch(f) = IF recorded[f] \cap tree[f] = {}
                    THEN {tree[f] \cup (recorded[f] \cap fits[f])}
                    ELSE {tree[f] \cup (recorded[f] \cap fits[f]), tree[f]}
  BY <1>1, Zenon DEF RunPatch
<1>4. tree[f] \cup (recorded[f] \cap fits[f]) = recorded[f]
  BY <1>2
<1>5. CASE tree[f] = {}
  BY <1>3, <1>4, <1>5
<1>6. CASE tree[f] = recorded[f]
  BY <1>3, <1>4, <1>6
<1> QED
  BY <1>5, <1>6

(* Whether the patches fit depends on them and on Chromium alone.           *)
LEMMA SamePatchesFit == UNCHANGED <<patches, fits>> => (PatchesFit' <=> PatchesFit)
BY DEF PatchesFit, PatchFiles

(* A tree that is reset and patched stays on its way to the recorded one.   *)
LEMMA NextKeepsApplyProgress ==
    PatchSetInv /\ TypeOK' /\ [Next]_vars => ApplyProgress' /\ RecordedChangesReturn'
<1> SUFFICES ASSUME PatchSetInv, TypeOK', [Next]_vars
             PROVE  ApplyProgress' /\ RecordedChangesReturn'
  OBVIOUS
<1>0. /\ TypeOK /\ AppliesWholeSets /\ UpdateProgress
      /\ StoredAsRecorded /\ ApplyProgress /\ RecordedChangesReturn
  BY DEF PatchSetInv
<1> USE DEF ApplyProgress, RecordedChangesReturn, Go, End, Start, store
<1>1. CASE Edit
  BY <1>1 DEF Edit
<1>2. CASE Interrupted
  <2>1. pc' = "idle" /\ outcome' = "interrupted" /\ UNCHANGED <<saved, clean>>
    BY <1>2 DEF Interrupted
  <2>2. \A f \in Patchable : tree'[f] = tree[f]
    BY <1>0, <1>2, InterruptedLeaves
  <2>3. saved # {} => UNCHANGED <<patches, fits>>
    BY <1>0, <1>2, InterruptedLeaves DEF StoredAsRecorded
  <2> QED
    BY <1>0, <2>1, <2>2, <2>3, SamePatchesFit
<1>3. CASE LoopEnds
  <2>1. /\ todo = {} /\ outcome' = "none" /\ pc' # "link"
        /\ pc' \in {"overwrite", "copy sources"} => pc = "apply"
        /\ pc' # "apply"
        /\ UNCHANGED <<tree, patches, fits, list, clean, saved>>
    BY <1>0, <1>3 DEF LoopEnds, UpdateProgress
  <2>2. RecordedChangesReturn'
    BY <2>1
  <2>3. CASE ~(clean /\ PatchesFit)
    BY <2>1, <2>2, <2>3, SamePatchesFit
  <2>4. ASSUME clean, PatchesFit, NEW recorded \in saved
        PROVE  /\ \A f \in Patchable : tree'[f] \in {{}, recorded[f]}
               /\ pc' \in {"overwrite", "copy sources"} =>
                     \A f \in list' : tree'[f] = recorded[f]
    <3>1. /\ \A f \in Patchable : tree[f] \in {{}, recorded[f]}
          /\ pc = "apply" => \A f \in list \ todo : tree[f] = recorded[f]
      BY <1>0, <2>4
    <3>2. list \ todo = list
      BY <2>1
    <3> QED BY <2>1, <3>1, <3>2
  <2>5. CASE clean /\ PatchesFit
    BY <2>1, <2>2, <2>4, <2>5
  <2> QED BY <2>3, <2>5
<1>4. CASE UpdatePatches
  BY <1>4 DEF UpdatePatches
<1>5. CASE WriteList
  BY <1>0, <1>5 DEF WriteList, TypeOK, Patchable
<1>6. ASSUME NEW f \in Files, CopyExcluded(f) \/ WritePatch(f)
      PROVE  ApplyProgress' /\ RecordedChangesReturn'
  BY <1>0, <1>6 DEF CopyExcluded, WritePatch, StoredAsRecorded
<1>7. ASSUME NEW n \in Names, RemoveOldPatch(n)
      PROVE  ApplyProgress' /\ RecordedChangesReturn'
  BY <1>0, <1>7 DEF RemoveOldPatch, StoredAsRecorded
<1>8. ASSUME NEW f \in Files, ApplyPatch(f)
      PROVE  ApplyProgress' /\ RecordedChangesReturn'
  <2>1. PICK patched \in RunPatch(f) : tree' = [tree EXCEPT ![f] = patched]
    BY <1>8, Zenon DEF ApplyPatch
  <2>2. /\ pc = "apply" /\ pc' = "apply" /\ f \in todo /\ todo' = todo \ {f}
        /\ outcome' = "none" /\ UNCHANGED <<patches, fits, list, saved, clean>>
    BY <1>0, <1>8 DEF ApplyPatch, UpdateProgress
  <2>3. tree'[f] = patched /\ \A g \in Files \ {f} : tree'[g] = tree[g]
    BY <1>0, <2>1 DEF TypeOK
  <2>4. f \in PatchFiles /\ f \in list /\ list \subseteq Patchable /\ Patchable \subseteq Files
    <3>1. list = PatchFiles /\ todo \subseteq PatchFiles /\ PatchFiles \subseteq Names
      BY <1>0, <2>2 DEF AppliesWholeSets, PatchFiles
    <3>2. list \subseteq Patchable \cup {BrokenLine}
      BY <1>0 DEF TypeOK
    <3> QED
      BY <2>2, <3>1, <3>2 DEF Patchable
  <2>5. ASSUME clean, PatchesFit, NEW recorded \in saved
        PROVE  /\ \A g \in Patchable : tree'[g] \in {{}, recorded[g]}
               /\ \A g \in list \ todo' : tree'[g] = recorded[g]
    <3>1. \A g \in Patchable : tree[g] \in {{}, recorded[g]}
      BY <1>0, <2>5
    <3>2. \A g \in list \ todo : tree[g] = recorded[g]
      BY <1>0, <2>2, <2>5
    <3>3. patched = recorded[f]
      <4>1. tree[f] \in {{}, recorded[f]}
        BY <2>4, <3>1
      <4> QED
        BY <1>0, <2>4, <2>5, <4>1, PatchingRestores
    <3> QED
      BY <2>2, <2>3, <2>4, <3>1, <3>2, <3>3
  <2> QED
    BY <2>2, <2>5, SamePatchesFit
<1>9. CASE ApplyPatches \/ Sync
  <2>1. /\ outcome' = "none" /\ pc' \in {"check", "gclient"}
        /\ UNCHANGED <<tree, patches, fits, clean, saved>>
    BY <1>9 DEF ApplyPatches, Sync
  <2> QED
    BY <1>0, <2>1, SamePatchesFit
<1>10. CASE Check
  <2>1. CASE CheckPatchConsistency
    <3>1. /\ pc' = "apply" /\ todo' = list /\ outcome' = "none"
          /\ UNCHANGED <<tree, patches, fits, list, clean, saved>>
      BY <1>0, <1>10, <2>1, ConsistentSets DEF Check, UpdateProgress
    <3>2. list' \ todo' = {}
      BY <3>1
    <3> QED
      BY <1>0, <3>1, <3>2, SamePatchesFit
  <2>2. CASE ~CheckPatchConsistency
    BY <1>0, <1>10, <2>2 DEF Check, PatchesFit, PatchFiles
  <2> QED
    BY <2>1, <2>2
<1>11. CASE CopyTree
  <2>1. /\ pc = "overwrite" /\ pc' = "link" /\ outcome' = "none"
        /\ UNCHANGED <<patches, fits, list, clean, saved>>
    BY <1>0, <1>11 DEF CopyTree, UpdateProgress
  <2>2. /\ \A f \in Patchable : tree'[f] = tree[f]
        /\ \A f \in Excluded : tree'[f] = overwrite[f]
    BY <1>0, <1>11 DEF CopyTree, Patchable, TypeOK
  <2>3. \A recorded \in saved, f \in Excluded : recorded[f] # {} => overwrite[f] = recorded[f]
    BY <1>0 DEF StoredAsRecorded
  <2>4. ASSUME clean, PatchesFit, NEW recorded \in saved
        PROVE  /\ \A f \in Patchable : tree'[f] \in {{}, recorded[f]}
               /\ \A f \in list : tree'[f] = recorded[f]
               /\ \A f \in Excluded : recorded[f] # {} => tree'[f] = recorded[f]
    <3>1. \A f \in Patchable : tree[f] \in {{}, recorded[f]}
      BY <1>0, <2>4
    <3>2. \A f \in list : tree[f] = recorded[f]
      BY <1>0, <2>1, <2>4
    <3>3. list \subseteq Patchable
      BY <1>0, <2>4 DEF StoredAsRecorded
    <3> QED
      BY <2>2, <2>3, <2>4, <3>1, <3>2, <3>3
  <2> QED
    BY <2>1, <2>4, SamePatchesFit
<1>12. ASSUME clean, PatchesFit, pc \in {"link", "copy sources"},
              NEW recorded \in saved, NEW f \in Patchable
       PROVE  tree[f] = recorded[f]
  <2>1. list = {g \in Patchable : recorded[g] # {}}
    BY <1>0, <1>12 DEF StoredAsRecorded
  <2>2. CASE f \in list
    BY <1>0, <1>12, <2>2
  <2>3. CASE f \notin list
    <3>1. recorded[f] = {}
      BY <2>1, <2>3
    <3>2. tree[f] \in {{}, recorded[f]}
      BY <1>0, <1>12
    <3> QED
      BY <3>1, <3>2
  <2> QED
    BY <2>2, <2>3
<1>13. CASE Link
  <2>1. /\ pc = "link" /\ pc' = "idle"
        /\ outcome' # "synchronized"
        /\ UNCHANGED <<tree, patches, fits, list, clean, saved>>
    BY <1>13 DEF Link
  <2>2. ASSUME clean, PatchesFit, NEW recorded \in saved, NEW f \in Files
        PROVE  tree[f] = recorded[f] \/ (f \in Excluded /\ recorded[f] = {})
    <3>1. CASE f \in Excluded
      BY <1>0, <2>1, <2>2, <3>1
    <3>2. CASE f \in Patchable
      BY <1>12, <2>1, <2>2, <3>2
    <3> QED
      BY <3>1, <3>2 DEF Patchable
  <2>3. clean /\ PatchesFit =>
            \A recorded \in saved, f \in Patchable : tree[f] \in {{}, recorded[f]}
    BY <1>0
  <2> QED
    BY <2>1, <2>2, <2>3, SamePatchesFit
<1>14. CASE CopySources
  <2>1. /\ pc = "copy sources" /\ pc' = "idle" /\ outcome' = "synchronized"
        /\ UNCHANGED <<tree, patches, fits, list, clean, saved>>
    BY <1>14 DEF CopySources
  <2>2. ASSUME clean, PatchesFit, NEW recorded \in saved, NEW f \in Files
        PROVE  tree[f] = recorded[f] \/ f \in Excluded
    BY <1>12, <2>1, <2>2 DEF Patchable
  <2>3. clean /\ PatchesFit =>
            \A recorded \in saved, f \in Patchable : tree[f] \in {{}, recorded[f]}
    BY <1>0
  <2> QED
    BY <2>1, <2>2, <2>3, SamePatchesFit
<1>15. CASE GClient
  <2>1. PICK ok \in BOOLEAN : GClientRuns(ok) /\ IF ok THEN End("failed") ELSE Go("check", {})
    BY <1>15 DEF GClient
  <2>2. PICK kept \in IF ok THEN {{}} ELSE SUBSET Files :
               tree' = [f \in Files |-> IF f \in kept THEN tree[f] ELSE {}]
    BY <2>1, Zenon DEF GClientRuns
  <2>3. PICK hunks \in {Hunks} \cup {Hunks \ {h} : h \in Hunks} :
               fits' = [n \in Names |-> fits[n] \cap hunks]
    BY <2>1, Zenon DEF GClientRuns
  <2>4. /\ pc' \in {"idle", "check"} /\ outcome' \notin {"Patches applied.", "synchronized"}
        /\ UNCHANGED <<patches, list, overwrite, saved>>
    BY <1>0, <1>15 DEF GClient, UpdateProgress
  <2>5. PatchesFit' => PatchesFit
    BY <1>0, <2>3, <2>4 DEF PatchesFit, PatchFiles, TypeOK
  <2>6. clean' => clean \/ \A f \in Files : tree'[f] = {}
    BY <2>1, <2>2 DEF GClientRuns
  <2>7. \A f \in Files : tree'[f] \in {{}, tree[f]}
    BY <2>2
  <2> QED
    BY <1>0, <2>4, <2>5, <2>6, <2>7 DEF Patchable
<1>16. CASE UNCHANGED vars
  <2>1. UNCHANGED <<tree, patches, fits, list, pc, todo, outcome, clean, saved>>
    BY <1>16 DEF vars
  <2>2. Patchable' = Patchable
    BY DEF Patchable
  <2>3. PatchesFit' <=> PatchesFit
    BY <2>1, SamePatchesFit
  <2>4. ApplyProgress'
    <3>1. SUFFICES ASSUME clean, PatchesFit, NEW recorded \in saved
          PROVE  /\ \A f \in Patchable : tree[f] \in {{}, recorded[f]}
                 /\ pc = "apply" => \A f \in list \ todo : tree[f] = recorded[f]
                 /\ pc \in {"overwrite", "link", "copy sources"} =>
                       \A f \in list : tree[f] = recorded[f]
                 /\ pc = "link" => \A f \in Excluded : recorded[f] # {} => tree[f] = recorded[f]
      BY <2>1, <2>2, <2>3
    <3> QED
      BY <1>0, <3>1
  <2>5. RecordedChangesReturn'
    BY <1>0, <2>1, <2>3
  <2> QED
    BY <2>4, <2>5
<1> QED
  BY <1>1, <1>2, <1>3, <1>4, <1>5, <1>6, <1>7, <1>8, <1>9, <1>10, <1>11, <1>13, <1>14,
     <1>15, <1>16 DEF Next

(* The invariant is inductive.                                              *)
LEMMA NextKeepsInv == PatchSetInv /\ [Next]_vars => PatchSetInv'
BY NextKeepsType, NextKeepsWholeSets, NextKeepsUpdateProgress, NextKeepsStore,
   NextKeepsApplyProgress DEF PatchSetInv

(* The scripts keep the patches directory, the list and the tree together,  *)
(* wherever they are stopped (CheckPatchConsistency stands between an       *)
(* interrupted update and the tree).                                        *)
THEOREM PatchSetInvariant == Spec => []PatchSetInv
BY InitInv, NextKeepsInv, PTL DEF Spec

(* An update that ends has recorded the tree, but for names with an "@".    *)
THEOREM UpdatesRecordTheTree == Spec => []UpdateRecordsTree
<1>1. PatchSetInv => UpdateRecordsTree
  BY DEF PatchSetInv
<1> QED
  BY <1>1, PatchSetInvariant, PTL

(* What update_patches.py records, apply_patches.py brings back.            *)
THEOREM RecordedTreeReturns == Spec => []RecordedChangesReturn
<1>1. PatchSetInv => RecordedChangesReturn
  BY DEF PatchSetInv
<1> QED
  BY <1>1, PatchSetInvariant, PTL
=============================================================================
