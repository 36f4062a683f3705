---------------------------- MODULE BackupProofs ----------------------------
(***************************************************************************)
(* Proofs about Backup, for every set of paths, every content and every    *)
(* state of the disk a run is started from.                                *)
(***************************************************************************)
EXTENDS ScrubProofs, BackupImplProofs

-----------------------------------------------------------------------------
(* The steps that handle no line *)

\* A fresh scan is in step with the directory it read.
LEMMA ScanInStep ==
    ASSUME NEW fs, IsFilesystem(fs), NEW h \in BOOLEAN
    PROVE  InStep(fs, ScanDirectory(fs, h))
<1> DEFINE t == ScanDirectory(fs, h)
<1>1. /\ IsTree(t) /\ DOMAIN t.node = DOMAIN fs
  BY ScanDirectoryType
<1>2. ASSUME NEW p \in DOMAIN fs
      PROVE  MirrorsEntry(fs[p], t.node[p])
  <2>1. fs[p] \in Entry /\ t.node[p] = FromFilesystem(fs[p], h)
    BY DEF IsFilesystem, IsPathMap, ScanDirectory
  <2>2. FromFilesystem(fs[p], h) \in Element
    BY <2>1, FromFilesystemType
  <2>3. MirrorsEntry(fs[p], FromFilesystem(fs[p], h))
    BY <2>1, <2>2, MirrorsEntryFields, SMTT(30) DEF FromFilesystem, HashFile
  <2> QED
    BY <2>1, <2>3
<1> HIDE DEF t
<1>3. InStep(fs, t)
  BY <1>1, <1>2 DEF InStep, Mirrors
<1> QED
  BY <1>3 DEF t

\* TreeManager is constructed, or its constructor throws.
LEMMA StartStep ==
    ASSUME Inv, Start
    PROVE  Inv'
<1>1. /\ src' = src /\ cmd' = cmd /\ dst' = dst
      /\ meta1' = meta1 /\ meta2' = meta2 /\ meta1bak' = meta1bak /\ meta2bak' = meta2bak
      /\ bitrot' = bitrot /\ UNCHANGED tmVars /\ UNCHANGED scrubVars
  BY DEF Start, fileVars
<1>2. FlagsOK'
  BY <1>1 DEF Inv, TypeOK, FlagsOK, tmVars, scrubVars
<1>3. CASE CanLoad(meta1) /\ CanLoad(meta2)
  <2>1. /\ dstTree' = ScanDirectory(dst, cmd.hashAllFiles)
        /\ meta1Tree' = ReadFrom(meta1) /\ meta2Tree' = ReadFrom(meta2)
        /\ pc' = "compare" /\ result' = result
    BY <1>3 DEF Start
  <2>2. IsTree(meta1Tree') /\ IsTree(meta2Tree')
    BY <1>3, <2>1, MetadataFileType DEF CanLoad, Inv, TypeOK, IsMetadataFile
  <2>3. InStep(dst', dstTree')
    BY <1>1, <2>1, SrcTreeType, ScanInStep DEF Inv, TypeOK
  <2>4. TypeOK'
    BY <1>1, <1>2, <2>1, <2>2, <2>3 DEF Inv, TypeOK, InStep
  <2>5. MirrorOnDisk' /\ NoStaleLine'
    BY <2>1, <2>3 DEF MirrorOnDisk, NoStaleLine, InStep
  <2> QED
    BY <2>4, <2>5 DEF Inv
<1>4. CASE ~(CanLoad(meta1) /\ CanLoad(meta2))
  <2>1. /\ pc' = "done" /\ result' = 10
        /\ dstTree' = dstTree /\ meta1Tree' = meta1Tree /\ meta2Tree' = meta2Tree
    BY <1>4 DEF Start, metaVars
  <2>2. TypeOK'
    BY <1>1, <1>2, <2>1 DEF Inv, TypeOK, Final
  <2>3. MirrorOnDisk' /\ NoStaleLine'
    BY <2>1 DEF MirrorOnDisk, NoStaleLine
  <2> QED
    BY <2>2, <2>3 DEF Inv
<1> QED
  BY <1>3, <1>4

\* A backup without metadata files scans its directory.
LEMMA StartSimpleStep ==
    ASSUME Inv, StartSimple
    PROVE  Inv'
<1>1. /\ src' = src /\ cmd' = cmd /\ dst' = dst /\ result' = result
      /\ meta1' = meta1 /\ meta2' = meta2 /\ meta1bak' = meta1bak /\ meta2bak' = meta2bak
      /\ meta1Tree' = meta1Tree /\ meta2Tree' = meta2Tree
      /\ bitrot' = bitrot /\ UNCHANGED tmVars /\ UNCHANGED scrubVars
      /\ dstTree' = ScanDirectory(dst, cmd.hashAllFiles) /\ pc' = "backupCompare"
  BY DEF StartSimple, fileVars, metaVars
<1>2. FlagsOK'
  BY <1>1 DEF Inv, TypeOK, FlagsOK, tmVars, scrubVars
<1>3. InStep(dst', dstTree')
  BY <1>1, SrcTreeType, ScanInStep DEF Inv, TypeOK
<1>4. TypeOK'
  BY <1>1, <1>2, <1>3 DEF Inv, TypeOK, InStep
<1>5. MirrorOnDisk' /\ NoStaleLine'
  BY <1>1, <1>3 DEF MirrorOnDisk, NoStaleLine, InStep
<1> QED
  BY <1>4, <1>5 DEF Inv

\* diff3 of the backup directory and the metadata.
LEMMA CompareWithMetadataStep ==
    ASSUME Inv, CompareWithMetadata
    PROVE  Inv'
<1>0. pc = "compare"
  BY DEF CompareWithMetadata
<1>1. CASE Abort("LostEntry") \/ Abort("NotTransitive")
  BY <1>0, <1>1, AbortStep DEF Aborted
<1>2. CASE ~(Abort("LostEntry") \/ Abort("NotTransitive"))
  <2>1. /\ diff' = Diff(Trees3, DefaultOpt)
        /\ pc' \in {"scrubbed", "scrub"} /\ redo' = FALSE
        /\ UNCHANGED <<src, cmd, bitrot, result, dirVars, metaVars, fileVars,
                       tmVars, unrecoverable, maybeRecoverable, updateMeta1, updateMeta2>>
    BY <1>2 DEF CompareWithMetadata, Trees3
  <2>2. /\ src' = src /\ cmd' = cmd /\ result' = result
        /\ dst' = dst /\ dstTree' = dstTree
        /\ meta1Tree' = meta1Tree /\ meta2Tree' = meta2Tree
        /\ meta1' = meta1 /\ meta2' = meta2 /\ meta1bak' = meta1bak /\ meta2bak' = meta2bak
    BY <2>1 DEF dirVars, metaVars, fileVars
  <2>3. FlagsOK'
    BY <2>1, Zenon DEF Inv, TypeOK, FlagsOK, tmVars
  <2>4. NoStaleLine'
    BY <2>1, <2>2 DEF NoStaleLine, Trees3
  <2>5. \A l \in diff' : IsLine(l, 3)
    BY <2>1, DiffType3 DEF Trees3, Inv, TypeOK
  <2>6. TypeOK'
    BY <2>1, <2>2, <2>3, <2>5 DEF Inv, TypeOK
  <2>7. MirrorOnDisk'
    BY <1>0, <2>2 DEF Inv, MirrorOnDisk
  <2> QED
    BY <2>4, <2>6, <2>7 DEF Inv
<1> QED
  BY <1>1, <1>2

\* diff2 of the source and the backup directory.
LEMMA CompareWithSourceStep ==
    ASSUME Inv, CompareWithSource
    PROVE  Inv'
<1>0. pc = "backupCompare"
  BY DEF CompareWithSource
<1>1. CASE Abort("LostEntry")
  BY <1>0, <1>1, AbortStep DEF Aborted
<1>2. CASE ~Abort("LostEntry")
  <2>1. /\ diff' = Diff(Trees2, DefaultOpt) /\ pc' = "backup"
        /\ UNCHANGED <<src, cmd, bitrot, result, dirVars, metaVars, fileVars,
                       tmVars, scrubVars>>
    BY <1>2 DEF CompareWithSource, Trees2
  <2>2. /\ src' = src /\ cmd' = cmd /\ result' = result
        /\ dst' = dst /\ dstTree' = dstTree
        /\ meta1Tree' = meta1Tree /\ meta2Tree' = meta2Tree
        /\ meta1' = meta1 /\ meta2' = meta2 /\ meta1bak' = meta1bak /\ meta2bak' = meta2bak
    BY <2>1 DEF dirVars, metaVars, fileVars
  <2>3. FlagsOK'
    BY <2>1 DEF Inv, TypeOK, FlagsOK, tmVars, scrubVars
  <2>4. SrcTree' = SrcTree
    BY <2>2 DEF SrcTree
  <2>5. NoStaleLine'
    BY <2>1, <2>2, <2>4 DEF NoStaleLine, Trees2
  <2>6. \A l \in diff' : IsLine(l, 2)
    BY <2>1, DiffType2, SrcTreeType DEF Trees2, Inv, TypeOK
  <2>7. TypeOK'
    BY <2>1, <2>2, <2>3, <2>6 DEF Inv, TypeOK
  <2>8. MirrorOnDisk'
    BY <1>0, <2>2 DEF Inv, MirrorOnDisk
  <2> QED
    BY <2>5, <2>7, <2>8 DEF Inv
<1> QED
  BY <1>1, <1>2

\* The steps that move pc and nothing else that Inv depends on.
LEMMA MovesStep ==
    ASSUME Inv, ScrubVerdict \/ EndAfterScrub \/ ExitWithoutSaving
    PROVE  Inv'
<1>1. CASE ScrubVerdict
  <2>1. FlagsOK'
    BY <1>1, Zenon DEF ScrubVerdict, Inv, TypeOK, FlagsOK, scrubVars
  <2> QED
    BY <1>1, <2>1, MoveStep DEF ScrubVerdict, Inv, TypeOK
<1>2. CASE EndAfterScrub
  <2>1. FlagsOK'
    BY <1>2 DEF EndAfterScrub, Inv, TypeOK, FlagsOK, tmVars, scrubVars
  <2> QED
    BY <1>2, <2>1, MoveStep DEF EndAfterScrub, Inv, TypeOK
<1>3. CASE ExitWithoutSaving
  <2>1. FlagsOK'
    BY <1>3 DEF ExitWithoutSaving, Inv, TypeOK, FlagsOK, tmVars, scrubVars
  <2> QED
    BY <1>3, <2>1, MoveStep DEF ExitWithoutSaving, Inv, TypeOK, Final
<1> QED
  BY <1>1, <1>2, <1>3

\* The steps that modify metadata trees or files and leave the directory alone.
LEMMA MetadataStep ==
    ASSUME Inv, pc \notin {"start", "done"},
           pc' \in {"backupCompare", "exit", "write1", "exit2", "write2", "done"},
           FlagsOK', result' \in {0, 1, 2, 10}, UNCHANGED <<src, cmd, dirVars>>,
           IsTree(meta1Tree'), IsTree(meta2Tree'),
           IsMetadataFile(meta1'), IsMetadataFile(meta2'),
           IsMetadataFile(meta1bak'), IsMetadataFile(meta2bak')
    PROVE  Inv'
<1>1. src' = src /\ cmd' = cmd /\ dst' = dst /\ dstTree' = dstTree
  BY DEF dirVars
<1>2. TypeOK'
  BY <1>1 DEF Inv, TypeOK, Final
<1>3. MirrorOnDisk' /\ NoStaleLine'
  BY <1>1 DEF Inv, MirrorOnDisk, NoStaleLine
<1> QED
  BY <1>2, <1>3 DEF Inv

\* Metadata tree 2 is discarded before the backup.
LEMMA ContinueWithBackupStep ==
    ASSUME Inv, ContinueWithBackup
    PROVE  Inv'
<1>1. FlagsOK'
  BY Zenon DEF ContinueWithBackup, Inv, TypeOK, FlagsOK, scrubVars
<1>2. /\ IsTree(meta1Tree') /\ IsTree(meta2Tree')
      /\ IsMetadataFile(meta1') /\ IsMetadataFile(meta2')
      /\ IsMetadataFile(meta1bak') /\ IsMetadataFile(meta2bak')
  BY MetadataFileType DEF ContinueWithBackup, fileVars, Inv, TypeOK
<1> QED
  BY <1>1, <1>2, MetadataStep DEF ContinueWithBackup, Inv, TypeOK

\* The hashes of the files copied are computed.
LEMMA EndBackupStep ==
    ASSUME Inv, EndBackup
    PROVE  Inv'
<1>1. FlagsOK'
  BY DEF EndBackup, Inv, TypeOK, FlagsOK, tmVars, scrubVars
<1>2. /\ meta2Tree' = meta2Tree /\ meta1' = meta1 /\ meta2' = meta2
      /\ meta1bak' = meta1bak /\ meta2bak' = meta2bak
  BY DEF EndBackup, fileVars
<1>3. IsTree(meta1Tree')
  BY ComputeMissingHashesType DEF EndBackup, Inv, TypeOK
<1>4. result' \in {0, 1, 2, 10}
  BY DEF EndBackup, Inv, TypeOK
<1> QED
  BY <1>1, <1>2, <1>3, <1>4, MetadataStep DEF EndBackup, Inv, TypeOK

\* The destructor of TreeManager writes the metadata files.
LEMMA SaveStep ==
    ASSUME Inv, OpenMeta1 \/ WriteMeta1 \/ OpenMeta2 \/ WriteMeta2
    PROVE  Inv'
<1>1. FlagsOK'
  BY DEF OpenMeta1, WriteMeta1, OpenMeta2, WriteMeta2, Inv, TypeOK, FlagsOK,
         tmVars, scrubVars
<1>2. /\ IsTree(meta1Tree) /\ meta1Tree' = meta1Tree
      /\ IsTree(meta2Tree) /\ meta2Tree' = meta2Tree
  BY DEF OpenMeta1, WriteMeta1, OpenMeta2, WriteMeta2, Inv, TypeOK, metaVars
<1>3. /\ IsMetadataFile(meta1') /\ IsMetadataFile(meta2')
      /\ IsMetadataFile(meta1bak') /\ IsMetadataFile(meta2bak')
  BY <1>2, MetadataFileType
     DEF OpenMeta1, WriteMeta1, OpenMeta2, WriteMeta2, Moved, Inv, TypeOK, IsMetadataFile
<1>4. /\ pc \notin {"start", "done"} /\ pc' \in {"write1", "exit2", "write2", "done"}
      /\ UNCHANGED <<src, cmd, dirVars>> /\ result' \in {0, 1, 2, 10}
  BY DEF OpenMeta1, WriteMeta1, OpenMeta2, WriteMeta2, Inv, TypeOK
<1> QED
  BY <1>1, <1>2, <1>3, <1>4, MetadataStep, SMTT(30)

\* Nothing changes.
LEMMA StutterStep ==
    ASSUME Inv, UNCHANGED vars
    PROVE  Inv'
<1>1. /\ src' = src /\ cmd' = cmd /\ pc' = pc /\ diff' = diff /\ result' = result
      /\ dst' = dst /\ dstTree' = dstTree
      /\ meta1Tree' = meta1Tree /\ meta2Tree' = meta2Tree
      /\ meta1' = meta1 /\ meta2' = meta2 /\ meta1bak' = meta1bak /\ meta2bak' = meta2bak
  BY DEF vars, dirVars, metaVars, fileVars
<1>2. FlagsOK'
  BY DEF vars, tmVars, scrubVars, Inv, TypeOK, FlagsOK
<1>3. TypeOK'
  BY <1>1, <1>2 DEF Inv, TypeOK
<1>4. MirrorOnDisk' /\ NoStaleLine'
  BY <1>1 DEF Inv, MirrorOnDisk, NoStaleLine, SrcTree
<1> QED
  BY <1>3, <1>4 DEF Inv

-----------------------------------------------------------------------------
(* The invariant *)

\* A run starts from a disk in one of the given states.
LEMMA InitInv == Init => Inv
<1> SUFFICES ASSUME Init PROVE Inv
  OBVIOUS
<1>1. PICK w \in Worlds :
          src = w.src /\ dst = w.dst /\ meta1 = w.meta1 /\ meta2 = w.meta2
  BY DEF Init
<1>2. IsWorld(w)
  BY BackupAssumption
<1>3. /\ IsFilesystem(src) /\ IsFilesystem(dst)
      /\ IsMetadataFile(meta1) /\ IsMetadataFile(meta2)
      /\ IsMetadataFile(meta1bak) /\ IsMetadataFile(meta2bak)
  BY <1>1, <1>2 DEF IsWorld, IsMetadata, IsMetadataFile, Init
<1>4. cmd \in Command
  BY BackupAssumption DEF Init
<1>5. FlagsOK
  BY Zenon DEF Init, FlagsOK
<1>6. TypeOK
  BY <1>3, <1>4, <1>5, MetadataFileType DEF Init, TypeOK
<1> QED
  BY <1>6 DEF Inv, MirrorOnDisk, NoStaleLine, Init

\* Every step preserves Inv.
LEMMA NextInv == Inv /\ [Next]_vars => Inv'
<1> SUFFICES ASSUME Inv, [Next]_vars PROVE Inv'
  OBVIOUS
<1>1. CASE ScrubLine
  <2> PICK d \in diff :
        \/ FixMeta2(d) \/ FixMeta1(d) \/ LeaveUnfixed(d) \/ GiveUp(d) \/ RejectLine(d)
        \/ CannotFix(d) \/ DeclineFix(d)
        \/ RestoreMissingSymlink(d) \/ RestoreMissing(d)
        \/ RestoreMissingSameContent(d) \/ RestoreMissingChanged(d)
        \/ DeleteExtra(d) \/ RestoreAttributes(d) \/ RestoreSymlink(d)
        \/ RestoreContent(d) \/ TrustBackup(d) \/ TrustSource(d) \/ TakeSource(d)
    BY <1>1 DEF ScrubLine
  <2> QED
    BY FixMeta2Step, FixMeta1Step, UnfixedStep, RestoreMissingSymlinkStep,
       RestoreMissingStep, RestoreMissingSameContentStep, RestoreMissingChangedStep,
       DeleteExtraStep, RestoreAttributesStep, RestoreSymlinkStep, RestoreContentStep,
       TrustBackupStep, TrustSourceStep, TakeSourceStep, SMTT(30)
<1>2. CASE BackupLine
  BY <1>2, BackupRemoveStep, BackupCopyStep, BackupUpdateStep, BackupSkipStep,
     BackupReplaceStep DEF BackupLine
<1>3. CASE Start \/ CompareWithMetadata \/ ScrubVerdict \/ EndAfterScrub
  BY <1>3, StartStep, CompareWithMetadataStep, MovesStep
<1>4. CASE StartSimple \/ ContinueWithBackup \/ CompareWithSource \/ EndBackup
  BY <1>4, StartSimpleStep, ContinueWithBackupStep, CompareWithSourceStep, EndBackupStep
<1>5. CASE SaveMetadata
  BY <1>5, MovesStep, SaveStep DEF SaveMetadata
<1>6. CASE Terminated \/ UNCHANGED vars
  BY <1>6, StutterStep DEF Terminated
<1> QED
  BY <1>1, <1>2, <1>3, <1>4, <1>5, <1>6 DEF Next, Program, Scrub, DoBackup

\* Inv holds throughout every run.
THEOREM InvHolds == Spec => []Inv
<1>1. Init => Inv
  BY InitInv
<1>2. Inv /\ [Next]_vars => Inv'
  BY NextInv
<1> QED
  BY <1>1, <1>2, PTL DEF Spec

\* The variables of a run of ddm keep their types: in particular the backup
\* directory stays well formed and no index of a tree dangles.
THEOREM TypeCorrect == Spec => []TypeOK
<1>1. Inv => TypeOK
  BY DEF Inv
<1> QED
  BY <1>1, InvHolds, PTL

\* After every repair and every backup operation the tree the process works with
\* is what a new scan of the backup directory would give.
THEOREM TreeMirrorsDisk == Spec => []MirrorOnDisk
<1>1. Inv => MirrorOnDisk
  BY DEF Inv
<1> QED
  BY <1>1, InvHolds, PTL

\* No loop over the lines of a diff handles a line made stale by an earlier one.
THEOREM LinesStayCurrent == Spec => []NoStaleLine
<1>1. Inv => NoStaleLine
  BY DEF Inv
<1> QED
  BY <1>1, InvHolds, PTL

-----------------------------------------------------------------------------
(* The metadata files *)

Intact(f) == f \notin {Torn, None}

\* What makes OneMetadataFileIntact inductive: a process that gets past loading
\* read both files, and each is written after the other was completed.
FilesIntact ==
    /\ cmd.name = "simple" =>
          ~save /\ pc \notin {"compare", "scrub", "scrubbed", "write1", "exit2", "write2"}
    /\ pc = "start" => ~save
    /\ cmd.name # "simple" /\ pc \notin {"start", "done", "write1"} => Intact(meta1)
    /\ cmd.name # "simple" /\ pc \notin {"start", "done", "write2"} => Intact(meta2)
    /\ pc = "done" /\ save => Intact(meta1) /\ Intact(meta2)

\* The pcs between loading and saving
Working == {"compare", "scrub", "scrubbed", "backupCompare", "backup", "exit"} \cup Aborted

\* What writeTo writes is a whole file.
LEMMA WrittenIntact ==
    ASSUME NEW t, IsTree(t)
    PROVE  Intact(WriteTo(t))
<1>1. IsPathMap(WriteTo(t), Element)
  BY MetadataFileType
<1> QED
  BY <1>1, BackupAssumption DEF IsPathMap, Intact

\* Between loading and saving the files are not touched.
LEMMA WorkingStep ==
    ASSUME FilesIntact, pc \in Working, pc' \in Working, save \in BOOLEAN, save' \in BOOLEAN,
           cmd' = cmd, meta1' = meta1, meta2' = meta2,
           cmd.name = "simple" =>
               save' = save /\ pc' \notin {"compare", "scrub", "scrubbed"}
    PROVE  FilesIntact'
BY DEF FilesIntact, Working, Aborted

\* No line of a scrub is about the metadata files.
LEMMA ScrubLineFiles ==
    ASSUME ScrubLine
    PROVE  /\ pc = "scrub" /\ pc' \in {"scrub", "compare"} \cup Aborted
           /\ UNCHANGED <<cmd, save, fileVars>>
<1>1. ASSUME NEW d, NEW a, NEW b, NEW s, Fixed(d, a, b, s)
      PROVE  pc' \in {"scrub", "compare"} /\ UNCHANGED <<cmd, save, fileVars>>
  BY <1>1 DEF Fixed, tmVars
<1>2. ASSUME NEW a \in Aborted, Abort(a)
      PROVE  pc' \in Aborted /\ UNCHANGED <<cmd, save, fileVars>>
  BY <1>2 DEF Abort, tmVars
<1>3. ASSUME NEW d, pc = "scrub", Unrecoverable(d)
      PROVE  pc' = "scrub" /\ UNCHANGED <<cmd, save, fileVars>>
  BY <1>3 DEF Unrecoverable, tmVars
<1>4. PICK d \in diff :
        \/ FixMeta2(d) \/ FixMeta1(d) \/ LeaveUnfixed(d) \/ GiveUp(d) \/ RejectLine(d)
        \/ CannotFix(d) \/ DeclineFix(d)
        \/ RestoreMissingSymlink(d) \/ RestoreMissing(d)
        \/ RestoreMissingSameContent(d) \/ RestoreMissingChanged(d)
        \/ DeleteExtra(d) \/ RestoreAttributes(d) \/ RestoreSymlink(d)
        \/ RestoreContent(d) \/ TrustBackup(d) \/ TrustSource(d) \/ TakeSource(d)
  BY DEF ScrubLine
<1>5. pc = "scrub"
  BY <1>4, Zenon
     DEF FixMeta2, FixMeta1, LeaveUnfixed, GiveUp, RejectLine, CannotFix, DeclineFix,
     RestoreMissingSymlink, RestoreMissing, RestoreMissingSameContent,
     RestoreMissingChanged, DeleteExtra, RestoreAttributes, RestoreSymlink,
     RestoreContent, TrustBackup, TrustSource, TakeSource, ToFix, Handles
<1>6. CASE LeaveUnfixed(d)
  BY <1>5, <1>6, SMTT(30) DEF LeaveUnfixed, tmVars
<1>7. CASE GiveUp(d) \/ CannotFix(d) \/ DeclineFix(d)
  BY <1>3, <1>5, <1>7, Zenon DEF GiveUp, CannotFix, DeclineFix
<1>8. CASE \/ FixMeta2(d) \/ FixMeta1(d) \/ RejectLine(d) \/ RestoreAttributes(d)
  BY <1>1, <1>2, <1>5, <1>8, Zenon
     DEF FixMeta2, FixMeta1, RejectLine, RestoreAttributes, Aborted
<1>9. CASE \/ RestoreMissingSymlink(d) \/ RestoreMissing(d)
           \/ RestoreMissingSameContent(d) \/ RestoreMissingChanged(d)
  BY <1>1, <1>2, <1>5, <1>9, Zenon DEF RestoreMissingSymlink, RestoreMissing,
     RestoreMissingSameContent, RestoreMissingChanged, Aborted
<1>10. CASE \/ DeleteExtra(d) \/ RestoreSymlink(d) \/ RestoreContent(d)
            \/ TrustBackup(d) \/ TrustSource(d) \/ TakeSource(d)
  BY <1>1, <1>2, <1>5, <1>10, Zenon DEF DeleteExtra, RestoreSymlink, RestoreContent,
     TrustBackup, TrustSource, TakeSource, Aborted
<1> QED
  BY <1>4, <1>5, <1>6, <1>7, <1>8, <1>9, <1>10

\* Neither is a line of a backup.
LEMMA BackupLineFiles ==
    ASSUME BackupLine
    PROVE  /\ pc = "backup" /\ pc' \in {"backup"} \cup Aborted
           /\ UNCHANGED <<cmd, save, fileVars>>
<1>1. ASSUME NEW d, pc = "backup", Applied(d)
      PROVE  pc' = "backup" /\ UNCHANGED <<cmd, save, fileVars>>
  BY <1>1 DEF Applied, tmVars
<1>2. ASSUME NEW a \in Aborted, Abort(a)
      PROVE  pc' \in Aborted /\ UNCHANGED <<cmd, save, fileVars>>
  BY <1>2 DEF Abort, tmVars
<1>3. PICK d \in diff :
        \/ BackupRemove(d) \/ BackupCopy(d) \/ BackupUpdate(d)
        \/ BackupSkipRotten(d) \/ BackupKeepNewer(d) \/ BackupReplace(d)
  BY DEF BackupLine
<1>4. pc = "backup"
  BY <1>3, Zenon DEF BackupRemove, BackupCopy, BackupUpdate, BackupSkipRotten,
     BackupKeepNewer, BackupReplace, ContentChanged, InBoth, BacksUp
<1>5. Applied(d) \/ \E a \in Aborted : Abort(a)
  BY <1>3, Zenon DEF BackupRemove, BackupCopy, BackupUpdate, BackupSkipRotten,
     BackupKeepNewer, BackupReplace, Aborted
<1> QED
  BY <1>1, <1>2, <1>4, <1>5

\* Every step preserves FilesIntact.
LEMMA NextFilesIntact == Inv /\ FilesIntact /\ [Next]_vars => FilesIntact'
<1> SUFFICES ASSUME Inv, FilesIntact, [Next]_vars PROVE FilesIntact'
  OBVIOUS
<1>0. /\ save \in BOOLEAN /\ IsTree(meta1Tree) /\ IsTree(meta2Tree)
  BY DEF Inv, TypeOK, FlagsOK
<1>1. CASE ScrubLine
  BY <1>0, <1>1, ScrubLineFiles, WorkingStep DEF Working, fileVars, FilesIntact
<1>2. CASE BackupLine
  BY <1>0, <1>2, BackupLineFiles, WorkingStep DEF Working, fileVars, Aborted
<1>3. CASE CompareWithMetadata \/ CompareWithSource
  <2>1. /\ pc \in {"compare", "backupCompare"}
        /\ pc' \in {"scrub", "scrubbed", "backup"} \cup Aborted
        /\ pc = "backupCompare" => pc' \in {"backup"} \cup Aborted
        /\ UNCHANGED <<cmd, save, fileVars>>
    BY <1>3, SMTT(30)
       DEF CompareWithMetadata, CompareWithSource, Abort, Aborted, tmVars
  <2> QED
    BY <1>0, <2>1, WorkingStep, SMTT(30) DEF Working, fileVars, FilesIntact, Aborted
<1>4. CASE ScrubVerdict \/ EndAfterScrub
  BY <1>0, <1>4, WorkingStep, SMTT(30)
     DEF ScrubVerdict, EndAfterScrub, Working, fileVars, tmVars, FilesIntact
<1>5. CASE ContinueWithBackup \/ EndBackup
  BY <1>0, <1>5, WorkingStep, Zenon
     DEF ContinueWithBackup, EndBackup, Working, fileVars, tmVars
<1>6. CASE Start \/ StartSimple
  BY <1>6, SMTT(30) DEF Start, StartSimple, CanLoad, FilesIntact, Intact, fileVars, tmVars
<1>7. CASE SaveMetadata
  <2>1. Intact(WriteTo(meta1Tree)) /\ Intact(WriteTo(meta2Tree))
    BY <1>0, WrittenIntact
  <2>2. CASE ExitWithoutSaving
    BY <2>2 DEF ExitWithoutSaving, FilesIntact, fileVars, tmVars
  <2>3. CASE OpenMeta1
    BY <2>3 DEF OpenMeta1, FilesIntact, tmVars
  <2>4. CASE WriteMeta1
    BY <2>1, <2>4 DEF WriteMeta1, FilesIntact, tmVars
  <2>5. CASE OpenMeta2
    BY <2>5 DEF OpenMeta2, FilesIntact, tmVars
  <2>6. CASE WriteMeta2
    BY <2>1, <2>6 DEF WriteMeta2, FilesIntact, tmVars
  <2> QED
    BY <1>7, <2>2, <2>3, <2>4, <2>5, <2>6, Zenon DEF SaveMetadata
<1>8. CASE Terminated \/ UNCHANGED vars
  BY <1>8 DEF Terminated, vars, FilesIntact, fileVars, tmVars
<1> QED
  BY <1>1, <1>2, <1>3, <1>4, <1>5, <1>6, <1>7, <1>8 DEF Next, Program, Scrub, DoBackup

\* Whenever the process is stopped, in the middle of its destructor included,
\* one of the two metadata files is whole.
THEOREM MetadataSurvives == Spec => []OneMetadataFileIntact
<1>1. Init => FilesIntact
  BY DEF Init, FilesIntact
<1>2. Inv /\ FilesIntact /\ [Next]_vars => FilesIntact'
  BY NextFilesIntact
<1>3. Inv /\ FilesIntact => OneMetadataFileIntact
  BY DEF Inv, TypeOK, FlagsOK, FilesIntact, OneMetadataFileIntact, Intact
<1> QED
  BY <1>1, <1>2, <1>3, InvHolds, PTL DEF Spec

=============================================================================
