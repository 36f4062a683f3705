------------------------------- MODULE Backup -------------------------------
(***************************************************************************)
(* One run of "ddm scrub" or "ddm backup": backup.cpp.                     *)
(*                                                                         *)
(* The disk holds the source directory, the backup directory, the two      *)
(* metadata files and their .bak copies.  The process (class TreeManager   *)
(* and the functions that use it) holds a tree of each directory and of    *)
(* each metadata file.  It scrubs: compares the backup directory with the  *)
(* two metadata files and repairs the one of the three that is outvoted.   *)
(* It then backs up: applies the differences between the source and the    *)
(* backup directory to the latter and to the metadata.  The destructor of  *)
(* TreeManager writes the metadata files.                                  *)
(*                                                                         *)
(* Every line of a diff is handled by one action; the alternatives of      *)
(* tryToFixBackupEntry and of backupImpl are actions of their own.  The    *)
(* user's answers and the order of the lines of a directory are            *)
(* nondeterministic.  An assertion that fails, or an exception of a tree   *)
(* operation, ends the process: while scrubbing neither saves anything.    *)
(* A crash leaves on disk what is there at some state, so that invariants  *)
(* about the disk cover it.                                                *)
(***************************************************************************)
EXTENDS DirectoryDiff, Commands

CONSTANTS
    Worlds,    \* the states of the disk from which a run is started
    Commands   \* the command lines

VARIABLES
    src, dst,              \* the source and the backup directory on disk
    meta1, meta2,          \* the metadata files
    meta1bak, meta2bak,    \* their .bak files
    cmd,                   \* the command line
    pc,                    \* where the process is
    dstTree, meta1Tree, meta2Tree,
    meta2TreePresent, save, meta1NeedsBackup, meta2NeedsBackup,
    diff,                  \* the lines still to be handled
    unrecoverable, maybeRecoverable, redo, updateMeta1, updateMeta2,
    bitrot,
    result                 \* the exit code

dirVars   == <<dst, dstTree>>
metaVars  == <<meta1Tree, meta2Tree>>
fileVars  == <<meta1, meta2, meta1bak, meta2bak>>
tmVars    == <<meta2TreePresent, save, meta1NeedsBackup, meta2NeedsBackup>>
scrubVars == <<unrecoverable, maybeRecoverable, redo, updateMeta1, updateMeta2>>
vars == <<src, cmd, pc, diff, bitrot, result,
          dirVars, metaVars, fileVars, tmVars, scrubVars>>

\* A metadata file that is being written is torn, one that was renamed is None
CONSTANT Torn

IsWorld(w) ==
    /\ IsFilesystem(w.src)
    /\ IsFilesystem(w.dst)
    /\ w.meta1 = None \/ IsMetadata(w.meta1)
    /\ w.meta2 = None \/ IsMetadata(w.meta2)

ASSUME BackupAssumption ==
    /\ Torn # None
    /\ \A P \in SUBSET Path : Torn \notin [P -> Element] /\ None \notin [P -> Element]
    /\ \A w \in Worlds : IsWorld(w)
    /\ Commands \subseteq Command

\* The ways in which the process dies.  A line is applied to the directory first
\* and to the metadata after: MetadataOperation is a failure between the two.
Aborted == {"NotTransitive", "LostEntry", "InvalidDiff", "TreeOperation",
            "MetadataOperation"}

Final == {"done"} \cup Aborted

\* The source is not written while ddm runs, so its tree is a function of it
SrcTree == ScanDirectory(src, cmd.hashAllFiles)

-----------------------------------------------------------------------------

Init ==
    /\ \E w \in Worlds :
          src = w.src /\ dst = w.dst /\ meta1 = w.meta1 /\ meta2 = w.meta2
    /\ meta1bak = None /\ meta2bak = None
    /\ cmd \in Commands
    /\ pc = "start"
    /\ dstTree = EmptyTree /\ meta1Tree = EmptyTree /\ meta2Tree = EmptyTree
    /\ meta2TreePresent = TRUE /\ save = FALSE
    /\ meta1NeedsBackup = FALSE /\ meta2NeedsBackup = FALSE
    /\ diff = {}
    /\ unrecoverable = FALSE /\ maybeRecoverable = FALSE /\ redo = FALSE
    /\ updateMeta1 = FALSE /\ updateMeta2 = FALSE
    /\ bitrot = FALSE
    /\ result = 0

\* loadMetadataFiles does not throw.  (A run tears files only when it ends: here
\* none is torn yet.)
CanLoad(file) == file \notin {Torn, None} /\ Readable(file)

\* TreeManager::TreeManager.  When it throws there is no object to destroy,
\* and main returns 10.
Start ==
    /\ pc = "start" /\ cmd.name # "simple"
    /\ IF CanLoad(meta1) /\ CanLoad(meta2)
       THEN /\ dstTree' = ScanDirectory(dst, cmd.hashAllFiles)
            /\ meta1Tree' = ReadFrom(meta1)
            /\ meta2Tree' = ReadFrom(meta2)
            /\ pc' = "compare"
            /\ UNCHANGED result
       ELSE /\ pc' = "done"
            /\ result' = 10
            /\ UNCHANGED <<dstTree, metaVars>>
    /\ UNCHANGED <<src, cmd, diff, bitrot, dst, fileVars, tmVars, scrubVars>>

\* backup without metadata files
StartSimple ==
    /\ pc = "start" /\ cmd.name = "simple"
    /\ dstTree' = ScanDirectory(dst, cmd.hashAllFiles)
    /\ pc' = "backupCompare"
    /\ UNCHANGED <<src, cmd, diff, bitrot, result, dst, metaVars, fileVars,
                   tmVars, scrubVars>>

-----------------------------------------------------------------------------
(* scrubImpl *)

\* A failed assertion: the process dies and its destructors do not run
Abort(assertion) ==
    /\ pc' = assertion
    /\ UNCHANGED <<src, cmd, diff, bitrot, result, dirVars, metaVars, fileVars,
                   tmVars, scrubVars>>

\* diff3 of the backup directory and the metadata, the first time and after a
\* repair that invalidated the list of differences
CompareWithMetadata ==
    LET ts    == <<dstTree, meta1Tree, meta2Tree>>
        lines == Diff(ts, DefaultOpt)
    IN  /\ pc = "compare"
        /\ IF LostEntry(ts) THEN Abort("LostEntry")
           ELSE IF NotTransitive(ts, DefaultOpt) THEN Abort("NotTransitive")
           ELSE /\ diff' = lines
                /\ pc' = IF lines = {} /\ ~redo THEN "scrubbed" ELSE "scrub"
                /\ redo' = FALSE
                /\ UNCHANGED <<src, cmd, bitrot, result, dirVars, metaVars, fileVars,
                               tmVars, unrecoverable, maybeRecoverable,
                               updateMeta1, updateMeta2>>

\* d is a line the loop may handle now
Handles(d) == pc = "scrub" /\ d \in FirstLines(diff)

\* The lines are not computed anew after a repair that invalidated them.
MutFixed(d, inMeta1, inMeta2, structure) ==
    /\ updateMeta1' = (updateMeta1 \/ inMeta1)
    /\ updateMeta2' = (updateMeta2 \/ inMeta2)
    /\ diff' = diff \ {d}
    /\ UNCHANGED <<src, cmd, pc, bitrot, result, fileVars, tmVars, redo,
                   unrecoverable, maybeRecoverable>>

\* The effect of a line on the loop: the FixupResult and the code that
\* switches on it.  inMeta1 and inMeta2 say which metadata trees were modified,
\* structure that the remaining lines were invalidated.
Fixed(d, inMeta1, inMeta2, structure) ==
    /\ updateMeta1' = (updateMeta1 \/ inMeta1)
    /\ updateMeta2' = (updateMeta2 \/ inMeta2)
    /\ redo' = structure
    /\ pc' = IF structure THEN "compare" ELSE "scrub"
    /\ diff' = IF structure THEN {} ELSE diff \ {d}
    /\ UNCHANGED <<src, cmd, bitrot, result, fileVars, tmVars,
                   unrecoverable, maybeRecoverable>>

\* The lines are computed anew also after one that was not repaired.
MutUnrecoverable(d) ==
    /\ unrecoverable' = TRUE
    /\ redo' = TRUE
    /\ pc' = "compare"
    /\ diff' = {}
    /\ UNCHANGED <<src, cmd, bitrot, result, dirVars, metaVars, fileVars, tmVars,
                   maybeRecoverable, updateMeta1, updateMeta2>>

\* FixupResult::Failed, and lines about which nothing can be done
Unrecoverable(d) ==
    /\ unrecoverable' = TRUE
    /\ diff' = diff \ {d}
    /\ UNCHANGED <<src, cmd, pc, bitrot, result, dirVars, metaVars, fileVars, tmVars,
                   maybeRecoverable, redo, updateMeta1, updateMeta2>>

\* Which of the three is outvoted; the order is that of the code's tests
Meta2Outvoted(d) == OptEqual(d.e[1], d.e[2]) /\ ~OptEqual(d.e[1], d.e[3])
Meta1Outvoted(d) == OptEqual(d.e[1], d.e[3]) /\ ~OptEqual(d.e[1], d.e[2])
DirOutvoted(d) ==
    ~Meta1Outvoted(d) /\ OptEqual(d.e[2], d.e[3]) /\ ~OptEqual(d.e[1], d.e[2])
AllDiffer(d) ==
    ~Meta1Outvoted(d) /\ ~OptEqual(d.e[1], d.e[2]) /\ ~OptEqual(d.e[2], d.e[3])

\* The bad entry is not removed before the good one is copied.
MutFixMetadataSucceeds(bad, d, badEntry) ==
    d.e[1] # None => CopySucceeds(bad, dstTree, d.path)

\* fixMetadataEntry
FixMetadataSucceeds(bad, d, badEntry) ==
    /\ badEntry # None => RemoveSucceeds(bad, d.path)
    /\ d.e[1] # None =>
          CopySucceeds(IF badEntry # None THEN RemoveFromTree(bad, d.path) ELSE bad,
                       dstTree, d.path)

\* The bad entry is removed and the good one not copied.
MutFixMetadataEntry(bad, d, badEntry) ==
    IF badEntry # None THEN RemoveFromTree(bad, d.path) ELSE bad

FixMetadataEntry(bad, d, badEntry) ==
    LET removed == IF badEntry # None THEN RemoveFromTree(bad, d.path) ELSE bad
    IN  IF d.e[1] # None THEN CopyFromTree(removed, dstTree, d.path) ELSE removed

FixMeta2(d) ==
    /\ Handles(d) /\ Meta2Outvoted(d)
    /\ IF FixMetadataSucceeds(meta2Tree, d, d.e[3])
       THEN /\ meta2Tree' = FixMetadataEntry(meta2Tree, d, d.e[3])
            /\ Fixed(d, FALSE, TRUE, IsDirectory(d.e[1]) \/ IsDirectory(d.e[3]))
            /\ UNCHANGED <<dirVars, meta1Tree>>
       ELSE Abort("TreeOperation")

FixMeta1(d) ==
    /\ Handles(d) /\ Meta1Outvoted(d)
    /\ IF FixMetadataSucceeds(meta1Tree, d, d.e[2])
       THEN /\ meta1Tree' = FixMetadataEntry(meta1Tree, d, d.e[2])
            /\ Fixed(d, TRUE, FALSE, IsDirectory(d.e[1]) \/ IsDirectory(d.e[2]))
            /\ UNCHANGED <<dirVars, meta2Tree>>
       ELSE Abort("TreeOperation")

\* --fixup not given
LeaveUnfixed(d) ==
    /\ Handles(d) /\ DirOutvoted(d) /\ ~cmd.fixup
    /\ maybeRecoverable' = TRUE
    /\ diff' = diff \ {d}
    /\ UNCHANGED <<src, cmd, pc, bitrot, result, dirVars, metaVars, fileVars, tmVars,
                   unrecoverable, redo, updateMeta1, updateMeta2>>

GiveUp(d) == Handles(d) /\ AllDiffer(d) /\ Unrecoverable(d)

\* assert(false); //Invalid diff
RejectLine(d) ==
    /\ Handles(d)
    /\ ~(Meta2Outvoted(d) \/ Meta1Outvoted(d) \/ DirOutvoted(d) \/ AllDiffer(d))
    /\ Abort("InvalidDiff")

-----------------------------------------------------------------------------
(* tryToFixBackupEntry: the metadata files agree, the backup differs *)

ToFix(d) == Handles(d) /\ DirOutvoted(d) /\ cmd.fixup

\* The entry of the source directory, None when no source was given
Item(d) == IF cmd.source THEN Search(SrcTree, d.path) ELSE None

SameContent(a, b) == Compare(a, b, ContentOpt)

Rotten(d) == Compare(d.e[1], d.e[2], RotOpt)

\* Its branches
Missing(d) == d.e[1] = None
Extra(d) == d.e[1] # None /\ d.e[2] = None
AttributesDiffer(d) == d.e[1] # None /\ d.e[2] # None /\ SameContent(d.e[1], d.e[2])
ContentDiffers(d) == d.e[1] # None /\ d.e[2] # None /\ ~SameContent(d.e[1], d.e[2])
BothLinks(d) == d.e[1].ty = "symlink" /\ d.e[2].ty = "symlink"
SourceMatchesMetadata(d) == Equal(Item(d), d.e[2])
SourceMatchesBackup(d) == ~SourceMatchesMetadata(d) /\ Equal(Item(d), d.e[1])
SourceHasBackupContent(d) ==
    /\ ~SourceMatchesMetadata(d) /\ ~SourceMatchesBackup(d)
    /\ SameContent(Item(d), d.e[1])
SourceIsDifferent(d) ==
    /\ ~SourceMatchesMetadata(d) /\ ~SourceMatchesBackup(d)
    /\ ~SameContent(Item(d), d.e[1])

\* The branches that call askYesNo
AsksUser(d) ==
    \/ Extra(d)
    \/ ContentDiffers(d) /\ BothLinks(d) /\ ~Rotten(d)
    \/ /\ ContentDiffers(d) /\ ~BothLinks(d) /\ Item(d) # None
       /\ SourceMatchesMetadata(d) => ~Rotten(d)
       /\ ~SourceMatchesMetadata(d) => SourceIsDifferent(d)

\* copyFromTreeAndFilesystem and removeFromTreeAndFilesystem on the backup
\* directory, the former after the latter or alone
CopyToBackup(t, fs, p) ==
    LET copied == CopyFromTree(t, SrcTree, p)
    IN  dstTree' = copied /\ dst' = CopyFromFilesystem(fs, src, copied, p)

RemoveFromBackup(p) ==
    LET removed == RemoveFromTree(dstTree, p)
    IN  dstTree' = removed /\ dst' = RemoveFromFilesystem(dst, removed, p)

ReplaceInBackup(p) ==
    LET removed == RemoveFromTree(dstTree, p)
    IN  CopyToBackup(removed, RemoveFromFilesystem(dst, removed, p), p)

ModifyInBackup(p, new, old) ==
    LET modified == ModifyInTree(dstTree, p, new, old)
    IN  dstTree' = modified /\ dst' = ModifyInFilesystem(dst, modified, p, new, old)

AddSymlinkToBackup(t, fs, p, e) ==
    LET added == AddSymlinkToTree(t, p, e)
    IN  dstTree' = added /\ dst' = AddSymlinkToFilesystem(fs, added, p, e)

\* Both metadata trees take the entry of the source
MetadataReplaceSucceeds(p) ==
    ReplaceSucceeds(meta1Tree, SrcTree, p) /\ ReplaceSucceeds(meta2Tree, SrcTree, p)


ReplaceInMetadata(p) ==
    /\ meta1Tree' = ReplaceInTree(meta1Tree, SrcTree, p)
    /\ meta2Tree' = ReplaceInTree(meta2Tree, SrcTree, p)

\* The source is not looked at.
MutCannotFix(d) ==
    /\ ToFix(d)
    /\ \/ Missing(d) /\ d.e[2].ty # "symlink"
       \/ ContentDiffers(d) /\ ~BothLinks(d)
    /\ Unrecoverable(d)

CannotFix(d) ==
    /\ ToFix(d)
    /\ \/ Missing(d) /\ d.e[2].ty # "symlink"
       \/ ContentDiffers(d) /\ ~BothLinks(d)
    /\ Item(d) = None
    /\ Unrecoverable(d)

DeclineFix(d) == ToFix(d) /\ AsksUser(d) /\ Unrecoverable(d)

RestoreMissingSymlink(d) ==
    /\ ToFix(d) /\ Missing(d) /\ d.e[2].ty = "symlink"
    /\ IF HasPlaceFor(dstTree, d.path)
       THEN /\ AddSymlinkToBackup(dstTree, dst, d.path, d.e[2])
            /\ Fixed(d, FALSE, FALSE, FALSE)
            /\ UNCHANGED metaVars
       ELSE Abort("TreeOperation")

RestoreMissing(d) ==
    /\ ToFix(d) /\ Missing(d) /\ d.e[2].ty # "symlink"
    /\ Item(d) # None /\ SourceMatchesMetadata(d)
    /\ IF CopySucceeds(dstTree, SrcTree, d.path)
       THEN /\ CopyToBackup(dstTree, dst, d.path)
            /\ Fixed(d, FALSE, FALSE, IsDirectory(d.e[2]))
            /\ UNCHANGED metaVars
       ELSE Abort("TreeOperation")

\* "However, the content is the same, updating backup."
RestoreMissingSameContent(d) ==
    /\ ToFix(d) /\ Missing(d) /\ d.e[2].ty # "symlink"
    /\ Item(d) # None /\ ~SourceMatchesMetadata(d) /\ SameContent(Item(d), d.e[2])
    /\ IF CopySucceeds(dstTree, SrcTree, d.path)
       THEN /\ CopyToBackup(dstTree, dst, d.path)
            /\ meta1Tree' = ModifyInTree(meta1Tree, d.path, Item(d), d.e[2])
            /\ meta2Tree' = ModifyInTree(meta2Tree, d.path, Item(d), d.e[2])
            /\ Fixed(d, TRUE, TRUE, IsDirectory(d.e[2]))
       ELSE Abort("TreeOperation")

\* "the best I can do is copy the new entry to the backup"
RestoreMissingChanged(d) ==
    /\ ToFix(d) /\ Missing(d) /\ d.e[2].ty # "symlink"
    /\ Item(d) # None /\ ~SourceMatchesMetadata(d) /\ ~SameContent(Item(d), d.e[2])
    /\ IF CopySucceeds(dstTree, SrcTree, d.path) /\ MetadataReplaceSucceeds(d.path)
       THEN /\ CopyToBackup(dstTree, dst, d.path)
            /\ ReplaceInMetadata(d.path)
            /\ Fixed(d, TRUE, TRUE, IsDirectory(Item(d)) \/ IsDirectory(d.e[2]))
       ELSE Abort(IF CopySucceeds(dstTree, SrcTree, d.path) THEN "MetadataOperation"
                  ELSE "TreeOperation")

DeleteExtra(d) ==
    /\ ToFix(d) /\ Extra(d)
    /\ IF RemoveSucceeds(dstTree, d.path)
       THEN /\ RemoveFromBackup(d.path)
            /\ Fixed(d, FALSE, FALSE, IsDirectory(d.e[1]))
            /\ UNCHANGED metaVars
       ELSE Abort("TreeOperation")

RestoreAttributes(d) ==
    /\ ToFix(d) /\ AttributesDiffer(d)
    /\ ModifyInBackup(d.path, d.e[2], d.e[1])
    /\ Fixed(d, FALSE, FALSE, FALSE)
    /\ UNCHANGED metaVars

RestoreSymlink(d) ==
    LET removed == RemoveFromTree(dstTree, d.path)
    IN  /\ ToFix(d) /\ ContentDiffers(d) /\ BothLinks(d)
        /\ IF RemoveSucceeds(dstTree, d.path) /\ HasPlaceFor(removed, d.path)
           THEN /\ AddSymlinkToBackup(removed, RemoveFromFilesystem(dst, removed, d.path),
                                      d.path, d.e[2])
                /\ Fixed(d, FALSE, FALSE, FALSE)
                /\ UNCHANGED metaVars
           ELSE Abort("TreeOperation")

\* The source has what the metadata says: after bit rot, or when the user agrees
RestoreContent(d) ==
    /\ ToFix(d) /\ ContentDiffers(d) /\ ~BothLinks(d)
    /\ Item(d) # None /\ SourceMatchesMetadata(d)
    /\ IF ReplaceSucceeds(dstTree, SrcTree, d.path)
       THEN /\ ReplaceInBackup(d.path)
            /\ Fixed(d, FALSE, FALSE, IsDirectory(d.e[1]) \/ IsDirectory(d.e[2]))
            /\ UNCHANGED metaVars
       ELSE Abort("TreeOperation")

\* "Assuming the metadata is not up to date."
TrustBackup(d) ==
    /\ ToFix(d) /\ ContentDiffers(d) /\ ~BothLinks(d)
    /\ Item(d) # None /\ SourceMatchesBackup(d)
    /\ IF MetadataReplaceSucceeds(d.path)
       THEN /\ ReplaceInMetadata(d.path)
            /\ Fixed(d, TRUE, TRUE, IsDirectory(Item(d)) \/ IsDirectory(d.e[2]))
            /\ UNCHANGED dirVars
       ELSE Abort("TreeOperation")

\* "src and backup directories differ only in metadata, but metadata files
\* differ in content!"  The attributes of the backup are set where the source
\* differs from the metadata, d[1], and not where it differs from the backup.
TrustSource(d) ==
    /\ ToFix(d) /\ ContentDiffers(d) /\ ~BothLinks(d)
    /\ Item(d) # None /\ SourceHasBackupContent(d)
    /\ IF MetadataReplaceSucceeds(d.path)
       THEN /\ ModifyInBackup(d.path, Item(d), d.e[2])
            /\ ReplaceInMetadata(d.path)
            /\ Fixed(d, TRUE, TRUE, IsDirectory(d.e[1]) \/ IsDirectory(d.e[2]))
       ELSE Abort("MetadataOperation")

\* All three differ and the user agrees to take the source's
TakeSource(d) ==
    /\ ToFix(d) /\ ContentDiffers(d) /\ ~BothLinks(d)
    /\ Item(d) # None /\ SourceIsDifferent(d)
    /\ IF ReplaceSucceeds(dstTree, SrcTree, d.path) /\ MetadataReplaceSucceeds(d.path)
       THEN /\ ReplaceInBackup(d.path)
            /\ ReplaceInMetadata(d.path)
            /\ Fixed(d, TRUE, TRUE, \/ IsDirectory(d.e[1]) \/ IsDirectory(d.e[2])
                                    \/ IsDirectory(Item(d)))
       ELSE Abort(IF ReplaceSucceeds(dstTree, SrcTree, d.path) THEN "MetadataOperation"
                  ELSE "TreeOperation")

\* Lines left because --fixup was not given do not count.
MutScrubVerdict ==
    /\ pc = "scrub" /\ diff = {}
    /\ IF ~unrecoverable
       THEN /\ result' = 1
            /\ save' = TRUE
            /\ meta1NeedsBackup' = updateMeta1
            /\ meta2NeedsBackup' = updateMeta2
       ELSE /\ result' = 2
            /\ UNCHANGED <<save, meta1NeedsBackup, meta2NeedsBackup>>
    /\ pc' = "scrubbed"
    /\ UNCHANGED <<src, cmd, diff, bitrot, dirVars, metaVars, fileVars,
                   meta2TreePresent, scrubVars>>

\* The loop is over: the verdict of the scrub
ScrubVerdict ==
    /\ pc = "scrub" /\ diff = {}
    /\ IF ~unrecoverable /\ ~maybeRecoverable
       THEN /\ result' = 1
            /\ save' = TRUE
            /\ meta1NeedsBackup' = updateMeta1
            /\ meta2NeedsBackup' = updateMeta2
       ELSE /\ result' = 2
            /\ UNCHANGED <<save, meta1NeedsBackup, meta2NeedsBackup>>
    /\ pc' = "scrubbed"
    /\ UNCHANGED <<src, cmd, diff, bitrot, dirVars, metaVars, fileVars,
                   meta2TreePresent, scrubVars>>

\* scrub returns; backup refuses, or the user does not want to continue
EndAfterScrub ==
    /\ pc = "scrubbed"
    /\ cmd.name = "scrub" \/ result \in {1, 2}
    /\ pc' = "exit"
    /\ UNCHANGED <<src, cmd, diff, bitrot, result, dirVars, metaVars, fileVars,
                   tmVars, scrubVars>>

\* The backup is done although the scrub failed.
MutContinueWithBackup ==
    /\ pc = "scrubbed" /\ cmd.name = "backup"
    /\ meta2Tree' = EmptyTree
    /\ meta2TreePresent' = FALSE
    /\ save' = TRUE
    /\ pc' = "backupCompare"
    /\ UNCHANGED <<src, cmd, diff, bitrot, result, dirVars, meta1Tree, fileVars,
                   meta1NeedsBackup, meta2NeedsBackup, scrubVars>>

\* discardMeta2Tree and saveMetadataOnExit
ContinueWithBackup ==
    /\ pc = "scrubbed"
    /\ cmd.name = "backup" /\ result \in {0, 1}
    /\ meta2Tree' = EmptyTree
    /\ meta2TreePresent' = FALSE
    /\ save' = TRUE
    /\ pc' = "backupCompare"
    /\ UNCHANGED <<src, cmd, diff, bitrot, result, dirVars, meta1Tree, fileVars,
                   meta1NeedsBackup, meta2NeedsBackup, scrubVars>>

-----------------------------------------------------------------------------
(* backupImpl *)

CompareWithSource ==
    LET ts == <<SrcTree, dstTree>>
    IN  /\ pc = "backupCompare"
        /\ IF LostEntry(ts) THEN Abort("LostEntry")
           ELSE /\ diff' = Diff(ts, DefaultOpt)
                /\ pc' = "backup"
                /\ UNCHANGED <<src, cmd, bitrot, result, dirVars, metaVars, fileVars,
                               tmVars, scrubVars>>

BacksUp(d) == pc = "backup" /\ d \in FirstLines(diff)

HasMetadata == cmd.name = "backup"

Applied(d) ==
    /\ diff' = diff \ {d}
    /\ UNCHANGED <<src, cmd, pc, result, meta2Tree, fileVars, tmVars, scrubVars>>

BackupRemove(d) ==
    /\ BacksUp(d) /\ d.e[1] = None
    /\ IF /\ RemoveSucceeds(dstTree, d.path)
          /\ HasMetadata => RemoveSucceeds(meta1Tree, d.path)
       THEN /\ RemoveFromBackup(d.path)
            /\ meta1Tree' = IF HasMetadata THEN RemoveFromTree(meta1Tree, d.path)
                                           ELSE meta1Tree
            /\ Applied(d)
            /\ UNCHANGED bitrot
       ELSE Abort(IF RemoveSucceeds(dstTree, d.path) THEN "MetadataOperation"
                  ELSE "TreeOperation")

\* The metadata tree is forgotten.
MutBackupCopy(d) ==
    /\ BacksUp(d) /\ d.e[1] # None /\ d.e[2] = None
    /\ IF CopySucceeds(dstTree, SrcTree, d.path)
       THEN /\ CopyToBackup(dstTree, dst, d.path)
            /\ Applied(d)
            /\ UNCHANGED <<bitrot, meta1Tree>>
       ELSE Abort("TreeOperation")

BackupCopy(d) ==
    /\ BacksUp(d) /\ d.e[1] # None /\ d.e[2] = None
    /\ IF /\ CopySucceeds(dstTree, SrcTree, d.path)
          /\ HasMetadata => CopySucceeds(meta1Tree, SrcTree, d.path)
       THEN /\ CopyToBackup(dstTree, dst, d.path)
            /\ meta1Tree' = IF HasMetadata THEN CopyFromTree(meta1Tree, SrcTree, d.path)
                                           ELSE meta1Tree
            /\ Applied(d)
            /\ UNCHANGED bitrot
       ELSE Abort(IF CopySucceeds(dstTree, SrcTree, d.path) THEN "MetadataOperation"
                  ELSE "TreeOperation")

\* The mtime is never compared, whether or not there are hashes.
MutBackupOpt(a, b) == ContentOpt

\* Only what was hashed on both sides may differ in its mtime and be the same
BackupOpt(a, b) ==
    [DefaultOpt EXCEPT
        !.perm = FALSE, !.owner = FALSE,
        !.mtime = a.ty = "regular" /\ b.ty = "regular" /\ (a.hash = None \/ b.hash = None)]

InBoth(d) == BacksUp(d) /\ d.e[1] # None /\ d.e[2] # None

OnlyAttributesChanged(d) == Compare(d.e[1], d.e[2], BackupOpt(d.e[1], d.e[2]))

BackupUpdate(d) ==
    /\ InBoth(d) /\ OnlyAttributesChanged(d)
    /\ IF HasMetadata => d.path \in meta1Tree.index
       THEN /\ ModifyInBackup(d.path, d.e[1], d.e[2])
            /\ meta1Tree' = IF HasMetadata
                            THEN ModifyInTree(meta1Tree, d.path, d.e[1], d.e[2])
                            ELSE meta1Tree
            /\ Applied(d)
            /\ UNCHANGED bitrot
       ELSE Abort("MetadataOperation")

\* "NOT backing up this ... as the backup copy may be good one."
BackupSkipRotten(d) ==
    /\ InBoth(d) /\ ~OnlyAttributesChanged(d) /\ Compare(d.e[1], d.e[2], RotOpt)
    /\ bitrot' = TRUE
    /\ Applied(d)
    /\ UNCHANGED <<dirVars, meta1Tree>>

\* The test for bit rot in the source is missing.
MutContentChanged(d) == InBoth(d) /\ ~OnlyAttributesChanged(d)

ContentChanged(d) ==
    InBoth(d) /\ ~OnlyAttributesChanged(d) /\ ~Compare(d.e[1], d.e[2], RotOpt)

\* The test of which is newer is missing.
MutBackupKeepNewer(d) ==
    ContentChanged(d) /\ Applied(d) /\ UNCHANGED <<bitrot, dirVars, meta1Tree>>

\* The entry in the backup is newer and the user wants to keep it
BackupKeepNewer(d) ==
    /\ ContentChanged(d) /\ d.e[1].mtime < d.e[2].mtime
    /\ Applied(d)
    /\ UNCHANGED <<bitrot, dirVars, meta1Tree>>

BackupReplace(d) ==
    /\ ContentChanged(d)
    /\ IF /\ ReplaceSucceeds(dstTree, SrcTree, d.path)
          /\ HasMetadata => ReplaceSucceeds(meta1Tree, SrcTree, d.path)
       THEN /\ ReplaceInBackup(d.path)
            /\ meta1Tree' = IF HasMetadata THEN ReplaceInTree(meta1Tree, SrcTree, d.path)
                                           ELSE meta1Tree
            /\ Applied(d)
            /\ UNCHANGED bitrot
       ELSE Abort(IF ReplaceSucceeds(dstTree, SrcTree, d.path) THEN "MetadataOperation"
                  ELSE "TreeOperation")

\* The end of backupImpl and of backup.  When computeMissingHashes throws, the
\* exception unwinds through TreeManager, which saves the metadata.
EndBackup ==
    LET hashing == cmd.name = "backup" /\ ~cmd.hashAllFiles
    IN  /\ pc = "backup" /\ diff = {}
        /\ IF hashing /\ ~CanComputeMissingHashes(meta1Tree, dst)
           THEN result' = 10 /\ UNCHANGED meta1Tree
           ELSE /\ result' = IF bitrot THEN 2 ELSE result
                /\ meta1Tree' = IF hashing THEN ComputeMissingHashes(meta1Tree, dst)
                                           ELSE meta1Tree
        /\ pc' = "exit"
        /\ UNCHANGED <<src, cmd, diff, bitrot, dirVars, meta2Tree, fileVars, tmVars,
                       scrubVars>>

-----------------------------------------------------------------------------
(* TreeManager::~TreeManager *)

Moved(file, bak, needsBackup) == IF needsBackup THEN file ELSE bak

ExitWithoutSaving ==
    /\ pc = "exit" /\ ~save
    /\ pc' = "done"
    /\ UNCHANGED <<src, cmd, diff, bitrot, result, dirVars, metaVars, fileVars,
                   tmVars, scrubVars>>

\* Both files are opened before the first is written.
MutOpenMeta1 ==
    /\ pc = "exit" /\ save
    /\ meta1bak' = Moved(meta1, meta1bak, meta1NeedsBackup)
    /\ meta1' = Torn /\ meta2' = Torn
    /\ pc' = "write1"
    /\ UNCHANGED <<src, cmd, diff, bitrot, result, dirVars, metaVars,
                   meta2bak, tmVars, scrubVars>>

\* Rename metadata file 1 to .bak if it was repaired, and open it for writing
OpenMeta1 ==
    /\ pc = "exit" /\ save
    /\ meta1bak' = Moved(meta1, meta1bak, meta1NeedsBackup)
    /\ meta1' = Torn
    /\ pc' = "write1"
    /\ UNCHANGED <<src, cmd, diff, bitrot, result, dirVars, metaVars,
                   meta2, meta2bak, tmVars, scrubVars>>

WriteMeta1 ==
    /\ pc = "write1"
    /\ meta1' = WriteTo(meta1Tree)
    /\ pc' = "exit2"
    /\ UNCHANGED <<src, cmd, diff, bitrot, result, dirVars, metaVars,
                   meta2, meta1bak, meta2bak, tmVars, scrubVars>>

OpenMeta2 ==
    /\ pc = "exit2"
    /\ meta2bak' = Moved(meta2, meta2bak, meta2NeedsBackup)
    /\ meta2' = Torn
    /\ pc' = "write2"
    /\ UNCHANGED <<src, cmd, diff, bitrot, result, dirVars, metaVars,
                   meta1, meta1bak, tmVars, scrubVars>>

\* File 2 is written from metadata tree 2, discarded or not.
MutWriteMeta2 ==
    /\ pc = "write2"
    /\ meta2' = WriteTo(meta2Tree)
    /\ pc' = "done"
    /\ UNCHANGED <<src, cmd, diff, bitrot, result, dirVars, metaVars,
                   meta1, meta1bak, meta2bak, tmVars, scrubVars>>

\* "Not a mistake, write meta1Tree to both files"
WriteMeta2 ==
    /\ pc = "write2"
    /\ meta2' = WriteTo(IF meta2TreePresent THEN meta2Tree ELSE meta1Tree)
    /\ pc' = "done"
    /\ UNCHANGED <<src, cmd, diff, bitrot, result, dirVars, metaVars,
                   meta1, meta1bak, meta2bak, tmVars, scrubVars>>

Terminated == pc \in Final /\ UNCHANGED vars

-----------------------------------------------------------------------------

ScrubLine ==
    \E d \in diff :
        \/ FixMeta2(d) \/ FixMeta1(d) \/ LeaveUnfixed(d) \/ GiveUp(d) \/ RejectLine(d)
        \/ CannotFix(d) \/ DeclineFix(d)
        \/ RestoreMissingSymlink(d) \/ RestoreMissing(d)
        \/ RestoreMissingSameContent(d) \/ RestoreMissingChanged(d)
        \/ DeleteExtra(d) \/ RestoreAttributes(d) \/ RestoreSymlink(d)
        \/ RestoreContent(d) \/ TrustBackup(d) \/ TrustSource(d) \/ TakeSource(d)

BackupLine ==
    \E d \in diff :
        \/ BackupRemove(d) \/ BackupCopy(d) \/ BackupUpdate(d)
        \/ BackupSkipRotten(d) \/ BackupKeepNewer(d) \/ BackupReplace(d)

Scrub ==
    \/ Start \/ CompareWithMetadata \/ ScrubLine \/ ScrubVerdict \/ EndAfterScrub

DoBackup ==
    \/ StartSimple \/ ContinueWithBackup \/ CompareWithSource \/ BackupLine \/ EndBackup

SaveMetadata ==
    \/ ExitWithoutSaving \/ OpenMeta1 \/ WriteMeta1 \/ OpenMeta2 \/ WriteMeta2

Program == Scrub \/ DoBackup \/ SaveMetadata

Next == Program \/ Terminated

Spec == Init /\ [][Next]_vars

\* The process is not stopped, and the user answers its questions
FairSpec == Spec /\ WF_vars(Program)

-----------------------------------------------------------------------------
(* Properties *)

FlagsOK ==
    /\ meta2TreePresent \in BOOLEAN /\ save \in BOOLEAN
    /\ meta1NeedsBackup \in BOOLEAN /\ meta2NeedsBackup \in BOOLEAN
    /\ unrecoverable \in BOOLEAN /\ maybeRecoverable \in BOOLEAN /\ redo \in BOOLEAN
    /\ updateMeta1 \in BOOLEAN /\ updateMeta2 \in BOOLEAN /\ bitrot \in BOOLEAN

IsMetadataFile(f) == f \in {Torn, None} \/ IsPathMap(f, Element)

IsLine(d, n) ==
    /\ d = [path |-> d.path, e |-> d.e]
    /\ d.path \in Path
    /\ d.e \in [1 .. n -> Element \cup {None}]

\* The types of the variables.  The backup directory stays well formed: what the
\* process creates, replaces or removes is in directories all the way up.
TypeOK ==
    /\ IsFilesystem(src) /\ IsFilesystem(dst)
    /\ IsMetadataFile(meta1) /\ IsMetadataFile(meta2)
    /\ IsMetadataFile(meta1bak) /\ IsMetadataFile(meta2bak)
    /\ cmd \in Command
    /\ pc \in {"start", "compare", "scrub", "scrubbed", "backupCompare", "backup",
               "exit", "write1", "exit2", "write2"} \cup Final
    /\ IsTree(dstTree) /\ IsTree(meta1Tree) /\ IsTree(meta2Tree)
    /\ FlagsOK
    /\ pc = "scrub" => \A d \in diff : IsLine(d, 3)
    /\ pc = "backup" => \A d \in diff : IsLine(d, 2)
    /\ result \in {0, 1, 2, 10}

\* Once scanned, the tree of the backup directory stays what a new scan of the
\* directory would give, through every repair and every backup operation
\* (the mtimes of the directories written to included: fixupParentMtime), but
\* for the permission bits that changing the owner clears.
MirrorOnDisk == pc \notin {"start", "done"} => Mirrors(dst, dstTree)

\* getIndex: "a flat index of all the files and directories in the directory
\* tree".  Index and content lists agree after every operation on a tree.
IndexMatchesContent ==
    \A t \in {dstTree, meta1Tree, meta2Tree} : t.index = DOMAIN t.node

\* No operation on a metadata tree fails after the directory was modified: what
\* is done to the backup directory can always be done to the metadata as well.
MetadataFollowsDirectory == pc # "MetadataOperation"

\* No assertion of diff2, diff3, scrubImpl or DirectoryTree fails, and no tree
\* operation throws because of a line made stale by an earlier one.
NoAssertionFails == pc \notin Aborted

\* The loops of scrubImpl and backupImpl handle lines computed before the trees
\* were modified by the lines before them.  None is stale: every line still to
\* be handled is one a new diff of the present trees would give.  (scrubImpl
\* starts over, with redo, after a repair of which this would not be true.)
NoStaleLine ==
    /\ pc = "scrub" => diff \subseteq Diff(<<dstTree, meta1Tree, meta2Tree>>, DefaultOpt)
    /\ pc = "backup" => diff \subseteq Diff(<<SrcTree, dstTree>>, DefaultOpt)

\* "assert(compare(ae,ce,opt)); //Transitive property check" in diff3
CompareIsTransitive == pc # "NotTransitive"

\* "assert(false); //Invalid diff" in scrubImpl
EveryDiffIsValid == pc # "InvalidDiff"

\* "Inconsitencies found but it was possible to automatically reconcile them.
\* Backup directory is now good." (scrubImpl): the backup directory and both
\* metadata trees then agree.
ScrubReconciles ==
    pc = "scrubbed" /\ result = 1 =>
        Diff(<<dstTree, meta1Tree, meta2Tree>>, DefaultOpt) = {}

\* Readme: "if the single backup copy becomes corrupted, ddm can fix the backup
\* by taking the corrupted files from the source directory".  When a scrub with
\* the source ends well, a file that the source has and that both metadata
\* files describe as it is in the source is in the backup with its content.
CorruptedFileRepaired ==
    pc = "scrubbed" /\ result \in {0, 1} /\ cmd.source /\ cmd.hashAllFiles =>
        \A p \in DOMAIN src \cap DOMAIN meta1 \cap DOMAIN meta2 :
            /\ src[p].ty = "regular"
            /\ Equal(SrcTree.node[p], meta1[p])
            /\ Equal(SrcTree.node[p], meta2[p])
            => p \in DOMAIN dst /\ dst[p].data = src[p].data

\* "applying differences so the target directory becomes equal to the source"
\* (backupImpl).  At the end of a backup the only differences left are the
\* entries whose content rotted and those the user kept as they are newer; a
\* backup that compared hashes has then reported the former.
BackupIsComplete ==
    pc = "exit" /\ cmd.name # "scrub" /\ (cmd.name = "backup" => ~meta2TreePresent) =>
        \A d \in Diff(<<ScanDirectory(src, TRUE), ScanDirectory(dst, TRUE)>>, DiskOpt) :
            /\ d.e[1] # None /\ d.e[2] # None
            /\ \/ /\ Compare(d.e[1], d.e[2], [RotOpt EXCEPT !.owner = Privileged])
                  /\ cmd.hashAllFiles => bitrot
               \/ d.e[1].mtime < d.e[2].mtime

\* What a repair that used the source, and was not followed by a backup, may
\* leave different are the attributes (see ScrubReconciles); a run without
\* hashing all the files does not compare hashes.
CleanOpt ==
    LET repaired == cmd.source /\ cmd.fixup /\ meta2TreePresent
        opt      == IF repaired THEN ContentOpt ELSE DiskOpt
    IN  [opt EXCEPT !.hash = cmd.hashAllFiles]

\* A process that ends having saved the metadata files leaves a backup in which
\* a scrub finds nothing to do: what ~TreeManager wrote is what is on disk.
NextScrubIsClean ==
    pc = "done" /\ save /\ result # 10 =>
        Diff(<<ScanDirectory(dst, TRUE), ReadFrom(meta1), ReadFrom(meta2)>>, CleanOpt) = {}

\* The destructor of TreeManager writes one metadata file after the other: when
\* it is stopped at any point, one of the two files is whole.
OneMetadataFileIntact ==
    save => meta1 \notin {Torn, None} \/ meta2 \notin {Torn, None}

\* "NOT backing up this file as the backup copy may be good one" (backupImpl): a
\* step of the backup never replaces a file by one that the trees show with the same
\* permissions, owner and mtime and that has another content.
SourceRotNotCopied ==
    [][pc = "backup" =>
        \A p \in DOMAIN src \cap DOMAIN dst :
            /\ src[p].ty = "regular" /\ dst[p].ty = "regular"
            /\ Compare(SrcTree.node[p], dstTree.node[p], RotOpt)
            => p \in DOMAIN dst' /\ dst'[p].data = dst[p].data]_vars

\* "The content of the ... changed but the modified time did not.  NOT backing up
\* this ..." (backupImpl): what the user is told is the rule.  A step of the backup
\* never replaces a file by one of the same mtime that has another content.
RotIsToldByMtime ==
    [][pc = "backup" =>
        \A p \in DOMAIN src \cap DOMAIN dst :
            /\ src[p].ty = "regular" /\ dst[p].ty = "regular"
            /\ src[p].mtime = dst[p].mtime
            => p \in DOMAIN dst' /\ dst'[p].data = dst[p].data]_vars

\* Without hashes a changed mtime is all that tells files of the same size apart.
\* A step of the backup never gives a file the mtime its source has, so that no
\* later run would look at it, unless it has the content of its source as well.
MtimeNeverMasksContent ==
    [][pc = "backup" =>
        \A p \in DOMAIN src \cap DOMAIN dst' :
            /\ src[p].ty = "regular" /\ dst'[p].ty = "regular"
            /\ dst'[p].mtime = src[p].mtime
            /\ p \in DOMAIN dst => dst[p].mtime # src[p].mtime
            => dst'[p].data = src[p].data]_vars

\* "When hash computation is omitted, however, we must treat files with different
\* mtime as modified" (backupImpl).  A step of the scrub never gives a file of the
\* backup the mtime that metadata tree 1 has for it, so that it passes for
\* unchanged, unless it has the content of that hash as well.
RepairNeverMasksContent ==
    [][pc = "scrub" =>
        \A p \in DOMAIN dst \cap DOMAIN dst' \cap DOMAIN meta1Tree.node :
            /\ dst[p].ty = "regular" /\ dst'[p].ty = "regular"
            /\ dst'[p].mtime = meta1Tree'.node[p].mtime /\ dst[p].mtime # dst'[p].mtime
            => meta1Tree'.node[p].hash \in {None, dst'[p].data}]_vars


\* Repairs make progress: the loop that rechecks after a repair that
\* invalidated the differences ends, and with it the process.
Terminates == <>(pc \in Final)

=============================================================================
