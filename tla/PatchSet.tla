------------------------------ MODULE PatchSet ------------------------------
(***************************************************************************)
(* scripts/: how the changes to Chromium are kept as one patch for each    *)
(* changed file.  update_patches.py writes the patches of the files that   *)
(* differ from Chromium, apply_patches.py applies them, and sync.py makes  *)
(* gclient reset the tree to Chromium's and then applies them.             *)
(*                                                                         *)
(* A script can be stopped between any two of its steps, and is then run   *)
(* again, or another is.  One runs at a time, and nobody edits the tree    *)
(* meanwhile.                                                              *)
(*                                                                         *)
(* A change to a file is a set of hunks.  git, gclient and patch are       *)
(* modelled from how the scripts use them.  Left out: new files, which     *)
(* git diff does not list, and files in patches/ that are no patches.      *)
(***************************************************************************)

CONSTANTS
    Files,     \* names of files of Chromium
    Names,     \* names that a patch may stand for
    Slashed,   \* a name with each "@" of it replaced by "/"
    Excluded,  \* EXCLUSION_FILES, which are copied and have no patch
    Hunks,
    NoPatch,   \* there is no such file
    BrokenLine \* no name: what an empty list, or a line written in part, reads as

ASSUME PatchSetAssumption ==
    /\ Files \subseteq Names
    /\ Slashed \in [Files -> Names]
    /\ \A f \in Files : Slashed[f] \in Files => Slashed[Slashed[f]] = Slashed[f]
    /\ \A f, g \in Files : Slashed[f] = Slashed[g] => f = g  \* no two share a patch
    /\ Excluded \subseteq Files
    /\ \A hunks \in SUBSET Hunks : hunks # NoPatch
    /\ BrokenLine \notin Names

VARIABLES
    tree,       \* CHROMIUM_SRC_DIR: the hunks in each file
    patches,    \* PATCHES_DIR
    fits,       \* the hunks of each patch that Chromium still has the lines for
    list,       \* PATCH_LIST_FILE
    overwrite,  \* DUMB_OVERWRITE_CHROMIUM_SRC_DIR, for excluded files
    dumb,       \* DUMB_DST_DIR: "absent", a "link" to the sources or "elsewhere", or a "copy"
    script,     \* the script that runs, or "none"
    pc,         \* what it does next
    todo,       \* for which names
    outcome,    \* how the last script ended, until something else changes
    clean,      \* since the last reset the tree was only patched
    saved       \* the tree that the patches have been made from, if that was finished

vars == <<tree, patches, fits, list, overwrite, dumb, script, pc, todo, outcome, clean, saved>>

(* PATCHES_DIR and config/PATCHES                                           *)
store == <<patches, fits, list, overwrite, saved>>

Patchable == Files \ Excluded

Changed == {f \in Files : tree[f] # {}}

NewPatchList == Changed \ Excluded

(* The name get_original_filename has for the patch of f.                   *)
PatchOf(f) == Slashed[f]

(* Files whose name has no "@" in it, which their patches can be found by.  *)
Nameable == {f \in Files : PatchOf(f) = f}

PatchFiles == {n \in Names : patches[n] # NoPatch}

Init ==
    /\ tree = [f \in Files |-> {}]
    /\ list \in SUBSET (Patchable \cap Nameable) \ {{}}
    /\ patches = [n \in Names |-> IF \E f \in list : n = PatchOf(f) THEN Hunks ELSE NoPatch]
    /\ fits = [n \in Names |-> Hunks]
    /\ overwrite = [f \in Excluded |-> Hunks]
    /\ dumb \in {"absent", "elsewhere"}
    /\ script = "none"
    /\ pc = "idle"
    /\ todo = {}
    /\ outcome = "none"
    /\ clean = TRUE
    /\ saved = {}

-----------------------------------------------------------------------------

(* The script ends: it says so, fails, or raises an exception.              *)
End(how) ==
    /\ script' = "none"
    /\ pc' = "idle"
    /\ todo' = {}
    /\ outcome' = how

Go(where, names) ==
    /\ pc' = where
    /\ todo' = names
    /\ UNCHANGED <<script, outcome>>

Start(name, where, names) ==
    /\ pc = "idle"
    /\ script' = name
    /\ pc' = where
    /\ todo' = names
    /\ outcome' = "none"
    /\ UNCHANGED <<tree, patches, fits, list, overwrite, dumb, clean>>

(* A file that is being written is left with a part of its contents, or     *)
(* empty.  A hunk or a line that was cut off is none of its hunks or lines. *)
TornPatch ==
    /\ pc = "write patches"
    /\ \E f \in todo \cap Patchable, part \in SUBSET Hunks :
           /\ part \subseteq tree[f]
           /\ patches' = [patches EXCEPT ![PatchOf(f)] = part]
           /\ fits' = [fits EXCEPT ![PatchOf(f)] = Hunks]
    /\ UNCHANGED <<tree, list, overwrite>>

TornCopy ==
    /\ pc = "write patches"
    /\ \E f \in todo \cap Excluded, part \in SUBSET Hunks :
           overwrite' = [overwrite EXCEPT ![f] = part]
    /\ UNCHANGED <<tree, patches, fits, list>>

TornList ==
    /\ pc = "write list"
    /\ list' \in SUBSET (NewPatchList \cup {BrokenLine})
    /\ UNCHANGED <<tree, patches, fits, overwrite>>

TornTree ==
    /\ pc = "overwrite"
    /\ \E copied \in SUBSET Excluded, torn \in Excluded, part \in SUBSET Hunks :
           tree' = [f \in Files |-> IF f = torn THEN part
                                   ELSE IF f \in copied THEN overwrite[f] ELSE tree[f]]
    /\ UNCHANGED <<patches, fits, list, overwrite>>

Interrupted ==
    /\ pc # "idle"
    /\ \/ UNCHANGED <<tree, patches, fits, list, overwrite>>
       \/ TornPatch \/ TornCopy \/ TornList \/ TornTree
    /\ End("interrupted")
    /\ UNCHANGED <<saved, dumb, clean>>

Edit ==
    /\ pc = "idle"
    /\ \E f \in Files, change \in SUBSET Hunks : tree' = [tree EXCEPT ![f] = change]
    /\ outcome' = "none"
    /\ clean' = FALSE
    /\ UNCHANGED <<store, dumb, script, pc, todo>>

-----------------------------------------------------------------------------
(* update_patches.py                                                       *)

(* The tree is read once, by git diff.                                      *)
UpdatePatches == Start("update", "write patches", Changed) /\ saved' = {}

CopyExcluded(f) ==
    /\ pc = "write patches"
    /\ f \in todo \cap Excluded
    /\ overwrite' = [overwrite EXCEPT ![f] = tree[f]]
    /\ Go("write patches", todo \ {f})
    /\ UNCHANGED <<tree, patches, fits, list, saved, dumb, clean>>

WritePatch(f) ==
    /\ pc = "write patches"
    /\ f \in todo \ Excluded
    /\ patches' = [patches EXCEPT ![PatchOf(f)] = tree[f]]
    /\ fits' = [fits EXCEPT ![PatchOf(f)] = Hunks]
    /\ Go("write patches", todo \ {f})
    /\ UNCHANGED <<tree, list, overwrite, saved, dumb, clean>>

RemoveOldPatch_Listed(n) ==
    /\ pc = "remove old"
    /\ n \in todo
    /\ patches' = [patches EXCEPT ![n] = IF n \in list \ NewPatchList THEN NoPatch ELSE @]
    /\ Go("remove old", todo \ {n})
    /\ UNCHANGED <<tree, fits, list, overwrite, saved, dumb, clean>>

(* The list is in the repository, so the test that it exists always holds.  *)
RemoveOldPatch(n) ==
    /\ pc = "remove old"
    /\ n \in todo
    /\ patches' = [patches EXCEPT ![n] = IF n \in NewPatchList THEN @ ELSE NoPatch]
    /\ Go("remove old", todo \ {n})
    /\ UNCHANGED <<tree, fits, list, overwrite, saved, dumb, clean>>

WriteList ==
    /\ pc = "write list"
    /\ list' = NewPatchList
    /\ saved' = {tree}
    /\ End("Patches updated.")
    /\ UNCHANGED <<tree, patches, fits, overwrite, dumb, clean>>

-----------------------------------------------------------------------------
(* utils.py                                                                *)

PatchList == IF list = {} THEN {BrokenLine} ELSE list

CheckPatchConsistency_Unlisted == PatchFiles \subseteq PatchList

CheckPatchConsistency == PatchFiles = PatchList

(* patch --forward: hunks that do not fit are left out, and so may be all   *)
(* of them if some have been applied before.                                *)
RunPatch_Reverse(f) ==
    IF patches[PatchOf(f)] \cap tree[f] = {}
    THEN {tree[f] \cup (patches[PatchOf(f)] \cap fits[PatchOf(f)])}
    ELSE {tree[f] \ patches[PatchOf(f)]}

RunPatch(f) ==
    LET applied == tree[f] \cup (patches[PatchOf(f)] \cap fits[PatchOf(f)])
    IN  IF patches[PatchOf(f)] \cap tree[f] = {} THEN {applied} ELSE {applied, tree[f]}

(* One command of apply_patches(), whose return code is not looked at.      *)
ApplyPatch(f) ==
    /\ pc = "apply"
    /\ f \in todo
    /\ \E patched \in RunPatch(f) : tree' = [tree EXCEPT ![f] = patched]
    /\ Go("apply", todo \ {f})
    /\ UNCHANGED <<store, dumb, clean>>

-----------------------------------------------------------------------------
(* apply_patches.py                                                        *)

ApplyPatches == Start("apply", "check", {}) /\ UNCHANGED saved

Check ==
    /\ pc = "check"
    /\ IF CheckPatchConsistency THEN Go("apply", PatchList) ELSE End("failed")
    /\ UNCHANGED <<tree, store, dumb, clean>>

CopyTree ==
    /\ pc = "overwrite"
    /\ tree' = [f \in Files |-> IF f \in Excluded THEN overwrite[f] ELSE tree[f]]
    /\ Go("link", {})
    /\ UNCHANGED <<store, dumb, clean>>

(* os.readlink raises an exception if there is a directory, os.symlink if   *)
(* there is a link elsewhere.                                               *)
Link ==
    /\ pc = "link"
    /\ IF dumb \in {"copy", "elsewhere"}
       THEN End("exception") /\ UNCHANGED dumb
       ELSE End("Patches applied.") /\ dumb' = "link"
    /\ UNCHANGED <<tree, store, clean>>

-----------------------------------------------------------------------------
(* sync.py                                                                 *)

Sync == Start("sync", "gclient", {}) /\ UNCHANGED saved

(* gclient resets the files; if it fails it may have reset some.  The       *)
(* version may then be another than before, which some hunks do not fit.    *)
GClientRuns(ok) ==
    /\ \E kept \in IF ok THEN {{}} ELSE SUBSET Files :
           tree' = [f \in Files |-> IF f \in kept THEN tree[f] ELSE {}]
    /\ \E hunks \in {Hunks} \cup {Hunks \ {h} : h \in Hunks} :
           fits' = [n \in Names |-> fits[n] \cap hunks]
    /\ clean' = (ok \/ clean)

(* run_command returns whether the command succeeded, which is then         *)
(* compared with 0.                                                         *)
GClient ==
    /\ pc = "gclient"
    /\ \E ok \in BOOLEAN :
           /\ GClientRuns(ok)
           /\ IF ok THEN End("failed") ELSE Go("check", {})
    /\ UNCHANGED <<patches, list, overwrite, saved, dumb>>

CopySources ==
    /\ pc = "copy sources"
    /\ dumb' = IF dumb = "absent" THEN "copy" ELSE dumb
    /\ End("synchronized")
    /\ UNCHANGED <<tree, store, clean>>

-----------------------------------------------------------------------------

(* The loops of the scripts are done.                                       *)
LoopEnds ==
    /\ todo = {}
    /\ \/ pc = "write patches" /\ Go("remove old", PatchFiles)
       \/ pc = "remove old" /\ Go("write list", {})
       \/ pc = "apply" /\ Go(IF script = "sync" THEN "copy sources" ELSE "overwrite", {})
    /\ UNCHANGED <<tree, store, dumb, clean>>

Next ==
    \/ Edit \/ Interrupted
    \/ LoopEnds
    \/ UpdatePatches \/ WriteList
    \/ \E f \in Files : CopyExcluded(f) \/ WritePatch(f) \/ ApplyPatch(f)
    \/ \E n \in Names : RemoveOldPatch(n)
    \/ ApplyPatches \/ Check \/ CopyTree \/ Link
    \/ Sync \/ GClient \/ CopySources

Spec == Init /\ [][Next]_vars

-----------------------------------------------------------------------------

Outcomes ==
    {"none", "interrupted", "failed", "exception",
     "Patches updated.", "Patches applied.", "synchronized"}

TypeOK ==
    /\ tree \in [Files -> SUBSET Hunks]
    /\ patches \in [Names -> {NoPatch} \cup SUBSET Hunks]
    /\ fits \in [Names -> SUBSET Hunks]
    /\ list \subseteq Patchable \cup {BrokenLine}
    /\ overwrite \in [Excluded -> SUBSET Hunks]
    /\ dumb \in {"absent", "link", "elsewhere", "copy"}
    /\ script \in {"none", "update", "apply", "sync"}
    /\ pc \in {"idle", "write patches", "remove old", "write list", "check", "apply",
              "overwrite", "link", "gclient", "copy sources"}
    /\ todo \subseteq Names
    /\ outcome \in Outcomes
    /\ clean \in BOOLEAN
    /\ saved \subseteq [Files -> SUBSET Hunks]

(* update_patches.py that runs to its end records the changes of the tree,  *)
(* and nothing else, whatever earlier runs of it that were interrupted have *)
(* left behind.  The patch of a file with an "@" in its name is the         *)
(* exception: it has just been written and is removed as an old one.        *)
UpdateRecordsTree ==
    outcome = "Patches updated." =>
        /\ list = NewPatchList
        /\ PatchFiles = list \cap Nameable
        /\ \A f \in PatchFiles : patches[f] = tree[f]

(* No patch is applied from a set that an interrupted update has left with  *)
(* one missing or one that is not listed.                                   *)
AppliesWholeSets ==
    pc = "apply" => PatchFiles = list /\ todo \subseteq PatchFiles

PatchesFit == \A n \in PatchFiles : patches[n] \subseteq fits[n]

(* Changes that update_patches.py has recorded come back when Chromium's    *)
(* files are reset and patched again, as long as the patches fit, also if   *)
(* apply_patches.py was interrupted and run again, or gclient failed in the *)
(* middle of a reset and sync.py went on.  Excluded files are not patched:  *)
(* apply_patches.py copies those that were not like Chromium's, sync.py     *)
(* none.                                                                    *)
RecordedChangesReturn ==
    outcome \in {"Patches applied.", "synchronized"} /\ clean /\ PatchesFit =>
        \A recorded \in saved, f \in Files :
            \/ tree[f] = recorded[f]
            \/ f \in Excluded /\ (recorded[f] = {} \/ outcome = "synchronized")

(* What the loops of update_patches.py have done so far.  Every patch is    *)
(* named after a file, so none has an "@" in its name.                      *)
UpdateProgress ==
    /\ outcome # "none" => pc = "idle"
    /\ PatchFiles \subseteq {PatchOf(f) : f \in Files}
    /\ pc = "write patches" =>
          /\ todo \subseteq Changed
          /\ \A f \in NewPatchList \ todo : patches[PatchOf(f)] = tree[f]
          /\ \A f \in (Changed \cap Excluded) \ todo : overwrite[f] = tree[f]
    /\ pc \in {"remove old", "write list"} =>
          /\ PatchFiles \ todo \subseteq NewPatchList
          /\ \A f \in NewPatchList \cap Nameable : patches[f] = tree[f]
          /\ \A f \in Changed \cap Excluded : overwrite[f] = tree[f]
    /\ pc = "write list" => todo = {}

(* What is stored is the recorded tree until update_patches.py runs again.  *)
StoredAsRecorded ==
    \A recorded \in saved :
        /\ pc \notin {"write patches", "remove old", "write list"}
        /\ list = {f \in Patchable : recorded[f] # {}}
        /\ \A f \in PatchFiles : f \in list /\ patches[f] = recorded[f]
        /\ \A f \in Excluded : recorded[f] # {} => overwrite[f] = recorded[f]

(* A tree that was only patched since the last reset is somewhere between   *)
(* Chromium's and the recorded one.                                         *)
ApplyProgress ==
    clean /\ PatchesFit =>
        \A recorded \in saved :
            /\ \A f \in Patchable : tree[f] \in {{}, recorded[f]}
            /\ pc = "apply" => \A f \in list \ todo : tree[f] = recorded[f]
            /\ pc \in {"overwrite", "link", "copy sources"} =>
                  \A f \in list : tree[f] = recorded[f]
            /\ pc = "link" => \A f \in Excluded : recorded[f] # {} => tree[f] = recorded[f]

PatchSetInv ==
    /\ TypeOK
    /\ AppliesWholeSets
    /\ UpdateProgress
    /\ UpdateRecordsTree
    /\ StoredAsRecorded
    /\ ApplyProgress
    /\ RecordedChangesReturn
=============================================================================
