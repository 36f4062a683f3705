-------------------------- MODULE BackupImplProofs --------------------------
(***************************************************************************)
(* Every step of backupImpl that handles a line preserves the invariant.   *)
(***************************************************************************)
EXTENDS BackupStepProofs

-----------------------------------------------------------------------------
(* The actions of backupImpl *)

\* A line was applied: as FixedStep, for the loop of backupImpl.
LEMMA AppliedStep ==
    ASSUME Inv, pc = "backup", NEW d \in diff, Applied(d), bitrot' = bitrot,
           InStep(dst', dstTree'), IsTree(meta1Tree'),
           diff \ {d} \subseteq Diff(<<SrcTree, dstTree'>>, DefaultOpt)
    PROVE  Inv'
<1>1. /\ src' = src /\ cmd' = cmd /\ pc' = pc /\ result' = result
      /\ meta1' = meta1 /\ meta2' = meta2 /\ meta1bak' = meta1bak /\ meta2bak' = meta2bak
      /\ meta2Tree' = meta2Tree /\ diff' = diff \ {d}
  BY DEF Applied, fileVars
<1>2. FlagsOK'
  BY DEF Inv, TypeOK, FlagsOK, Applied, tmVars, scrubVars
<1>3. IsTree(dstTree') /\ IsFilesystem(dst') /\ Mirrors(dst', dstTree')
  BY DEF InStep
<1>4. SrcTree' = SrcTree /\ IsTree(SrcTree)
  BY <1>1, SrcTreeType DEF SrcTree, Inv
<1>5. NoStaleLine'
  BY <1>1, <1>4 DEF NoStaleLine
<1>6. \A l \in diff' : IsLine(l, 2)
  BY <1>1, <1>3, <1>4, DiffType2
<1>7. TypeOK'
  BY <1>1, <1>2, <1>3, <1>6 DEF Inv, TypeOK
<1>8. MirrorOnDisk'
  BY <1>3 DEF MirrorOnDisk
<1> QED
  BY <1>5, <1>7, <1>8 DEF Inv

\* An operation at the path of a line, which is not a directory on both sides,
\* leaves the other lines valid.
LEMMA BackupLinesKept ==
    ASSUME Inv, pc = "backup", NEW d \in diff, NEW t,
           \/ /\ SameOutside(dstTree, t, d.path)
              /\ ~(IsDirectory(d.e[1]) /\ IsDirectory(d.e[2]))
           \/ \A q \in Path \ {d.path} : SameAt(dstTree, t, q)
    PROVE  diff \ {d} \subseteq Diff(<<SrcTree, t>>, DefaultOpt)
<1> DEFINE us == <<SrcTree, t>>
<1>1. /\ IsTree(dstTree) /\ IsTree(SrcTree)
      /\ d.e[1] = Search(SrcTree, d.path)
      /\ d.e[2] = Search(dstTree, d.path)
  BY BackupLineFacts DEF InStep
<1>2. /\ IsDirectory(d.e[1]) <=> IsDirectoryIn(SrcTree, d.path)
      /\ IsDirectory(d.e[2]) <=> IsDirectoryIn(dstTree, d.path)
  BY <1>1, SearchType
<1>3. DOMAIN Trees2 = 1 .. 2 /\ DOMAIN us = 1 .. 2
      /\ Trees2[1] = SrcTree /\ Trees2[2] = dstTree
      /\ us[1] = SrcTree /\ us[2] = t
  BY DEF Trees2
<1>4. diff \in SUBSET Diff(Trees2, DefaultOpt)
  BY DEF Inv, NoStaleLine, Trees2
<1> HIDE DEF us
<1>5. CASE /\ SameOutside(dstTree, t, d.path)
           /\ ~(IsDirectory(d.e[1]) /\ IsDirectory(d.e[2]))
  <2>1. \A i \in DOMAIN Trees2 : SameOutside(Trees2[i], us[i], d.path)
    BY <1>3, <1>5, SameReflexive
  <2>2. \A i, j \in DOMAIN Trees2 :
          IsDirectoryIn(Trees2[i], d.path) /\ IsDirectoryIn(Trees2[j], d.path) => i = j
    BY <1>2, <1>3, <1>5
  <2>3. diff \ {d} \subseteq Diff(us, DefaultOpt)
    BY <1>3, <1>4, <2>1, <2>2, LinesKept
  <2> QED
    BY <2>3 DEF us
<1>6. CASE \A q \in Path \ {d.path} : SameAt(dstTree, t, q)
  <2>1. \A i \in DOMAIN Trees2 : \A q \in Path \ {d.path} : SameAt(Trees2[i], us[i], q)
    BY <1>3, <1>6, SameReflexive
  <2>2. diff \ {d} \subseteq Diff(us, DefaultOpt)
    BY <1>3, <1>4, <2>1, LinesKeptByModify
  <2> QED
    BY <2>2 DEF us
<1> QED
  BY <1>5, <1>6

\* An entry the source does not have is removed.
LEMMA BackupRemoveStep ==
    ASSUME Inv, NEW d \in diff, BackupRemove(d)
    PROVE  Inv'
<1>0. pc = "backup"
  BY DEF BackupRemove, BacksUp
<1>1. CASE \E a \in Aborted : Abort(a)
  BY <1>0, <1>1, AbortStep
<1>2. CASE RemoveFromBackup(d.path) /\ Applied(d)
  <2>1. /\ d.path \in Path /\ InStep(dst, dstTree) /\ IsTree(dstTree) /\ IsTree(meta1Tree)
    BY <1>0, BackupLineFacts DEF InStep
  <2>2. InStep(dst', dstTree') /\ SameOutside(dstTree, dstTree', d.path)
    BY <1>2, <2>1, RemoveInStep, RemoveSame DEF RemoveFromBackup
  <2>3. CASE /\ bitrot' = bitrot
             /\ meta1Tree' = IF HasMetadata THEN RemoveFromTree(meta1Tree, d.path)
                                            ELSE meta1Tree
    <3>1. IsTree(meta1Tree')
      BY <2>1, <2>3, RemoveFromTreeType
    <3>2. ~IsDirectory(d.e[1])
      BY DEF BackupRemove, IsDirectory
    <3>3. diff \ {d} \subseteq Diff(<<SrcTree, dstTree'>>, DefaultOpt)
      BY <1>0, <2>2, <3>2, BackupLinesKept
    <3> QED
      BY <1>0, <1>2, <2>2, <2>3, <3>1, <3>3, AppliedStep
  <2>4. CASE Abort("MetadataOperation") \/ Abort("TreeOperation")
    BY <1>1, <2>4 DEF Aborted
  <2> QED
    BY <2>3, <2>4 DEF BackupRemove
<1> QED
  BY <1>1, <1>2 DEF BackupRemove, Aborted

\* An entry the backup does not have is copied from the source.
LEMMA BackupCopyStep ==
    ASSUME Inv, NEW d \in diff, BackupCopy(d)
    PROVE  Inv'
<1>0. pc = "backup"
  BY DEF BackupCopy, BacksUp
<1>1. CASE \E a \in Aborted : Abort(a)
  BY <1>0, <1>1, AbortStep
<1>2. CASE /\ CopySucceeds(dstTree, SrcTree, d.path) /\ CopyToBackup(dstTree, dst, d.path)
           /\ meta1Tree' = IF HasMetadata THEN CopyFromTree(meta1Tree, SrcTree, d.path)
                                          ELSE meta1Tree
           /\ Applied(d) /\ bitrot' = bitrot
  <2>1. /\ d.path \in Path /\ InStep(dst, dstTree) /\ IsTree(meta1Tree) /\ IsTree(SrcTree)
    BY <1>0, BackupLineFacts
  <2>2. InStep(dst', dstTree') /\ SameOutside(dstTree, dstTree', d.path)
    BY <1>2, <2>1, CopyToBackupInStep DEF Inv
  <2>3. IsTree(meta1Tree')
    BY <1>2, <2>1, CopyFromTreeType, Zenon
  <2>4. ~IsDirectory(d.e[2])
    BY DEF BackupCopy, IsDirectory
  <2>5. diff \ {d} \subseteq Diff(<<SrcTree, dstTree'>>, DefaultOpt)
    BY <1>0, <2>2, <2>4, BackupLinesKept
  <2> QED
    BY <1>0, <1>2, <2>2, <2>3, <2>5, AppliedStep
<1> QED
  BY <1>1, <1>2 DEF BackupCopy, Aborted

\* The attributes of an entry are set to those of the source.
LEMMA BackupUpdateStep ==
    ASSUME Inv, NEW d \in diff, BackupUpdate(d)
    PROVE  Inv'
<1>0. pc = "backup" /\ d.e[1] # None /\ d.e[2] # None
  BY DEF BackupUpdate, InBoth, BacksUp
<1>1. CASE Abort("MetadataOperation")
  BY <1>0, <1>1, AbortStep DEF Aborted
<1>2. CASE /\ ModifyInBackup(d.path, d.e[1], d.e[2])
           /\ meta1Tree' = IF HasMetadata
                           THEN ModifyInTree(meta1Tree, d.path, d.e[1], d.e[2])
                           ELSE meta1Tree
           /\ Applied(d) /\ bitrot' = bitrot
  <2>1. /\ d.path \in Path /\ InStep(dst, dstTree) /\ IsTree(meta1Tree)
        /\ d.e[1] \in Element /\ d.e[2] \in Element
    BY <1>0, BackupLineFacts
  <2>2. InStep(dst', dstTree') /\ \A q \in Path \ {d.path} : SameAt(dstTree, dstTree', q)
    BY <1>2, <2>1, ModifyInBackupInStep
  <2>3. IsTree(meta1Tree')
    BY <1>2, <2>1, ModifyInTreeType
  <2>4. diff \ {d} \subseteq Diff(<<SrcTree, dstTree'>>, DefaultOpt)
    BY <1>0, <2>2, BackupLinesKept, Zenon
  <2> QED
    BY <1>0, <1>2, <2>2, <2>3, <2>4, AppliedStep, Zenon
<1> QED
  BY <1>1, <1>2 DEF BackupUpdate

\* The lines that are skipped.
LEMMA BackupSkipStep ==
    ASSUME Inv, NEW d \in diff, BackupSkipRotten(d) \/ BackupKeepNewer(d)
    PROVE  Inv'
<1>0. pc = "backup" /\ Applied(d)
  BY DEF BackupSkipRotten, BackupKeepNewer, ContentChanged, InBoth, BacksUp
<1>1. UNCHANGED <<dirVars, metaVars>>
  BY <1>0 DEF BackupSkipRotten, BackupKeepNewer, Applied, metaVars
<1>2. bitrot' \in BOOLEAN
  BY Zenon DEF BackupSkipRotten, BackupKeepNewer, Inv, TypeOK, FlagsOK
<1>3. UNCHANGED <<tmVars, scrubVars>>
  BY <1>0 DEF Applied
<1>4. FlagsOK'
  BY <1>2, <1>3 DEF tmVars, scrubVars, Inv, TypeOK, FlagsOK
<1> QED
  BY <1>0, <1>1, <1>4, SkippedStep DEF Applied

\* Two directories differ in attributes at most.
LEMMA DirectoriesCompare ==
    ASSUME NEW a \in Element, NEW b \in Element, a.ty = "directory", b.ty = "directory"
    PROVE  Compare(a, b, BackupOpt(a, b))
<1>1. /\ a.size = 0 /\ a.hash = None /\ a.symlink = None
      /\ b.size = 0 /\ b.hash = None /\ b.symlink = None
  BY DEF Element
<1>2. ~BackupOpt(a, b).perm /\ ~BackupOpt(a, b).owner /\ ~BackupOpt(a, b).mtime
  BY Zenon DEF BackupOpt, DefaultOpt
<1> QED
  BY <1>1, <1>2 DEF Compare, HashesAgree

\* An entry is replaced by the source's: it is not a directory on both sides, as
\* two directories differ in nothing but attributes.
LEMMA BackupReplaceStep ==
    ASSUME Inv, NEW d \in diff, BackupReplace(d)
    PROVE  Inv'
<1>0. /\ pc = "backup" /\ d.e[1] # None /\ d.e[2] # None
      /\ ~Compare(d.e[1], d.e[2], BackupOpt(d.e[1], d.e[2]))
  BY DEF BackupReplace, ContentChanged, InBoth, BacksUp, OnlyAttributesChanged
<1>1. CASE \E a \in Aborted : Abort(a)
  BY <1>0, <1>1, AbortStep
<1>2. CASE /\ ReplaceSucceeds(dstTree, SrcTree, d.path) /\ ReplaceInBackup(d.path)
           /\ meta1Tree' = IF HasMetadata THEN ReplaceInTree(meta1Tree, SrcTree, d.path)
                                          ELSE meta1Tree
           /\ Applied(d) /\ bitrot' = bitrot
  <2>1. /\ d.path \in Path /\ InStep(dst, dstTree) /\ IsTree(meta1Tree) /\ IsTree(SrcTree)
        /\ d.e[1] \in Element /\ d.e[2] \in Element
    BY <1>0, BackupLineFacts
  <2>2. InStep(dst', dstTree') /\ SameOutside(dstTree, dstTree', d.path)
    BY <1>2, <2>1, ReplaceInBackupInStep DEF Inv
  <2>3. IsTree(meta1Tree')
    BY <1>2, <2>1, ReplaceInTreeType, Zenon
  <2>4. ~(IsDirectory(d.e[1]) /\ IsDirectory(d.e[2]))
    BY <1>0, <2>1, DirectoriesCompare DEF IsDirectory
  <2>5. diff \ {d} \subseteq Diff(<<SrcTree, dstTree'>>, DefaultOpt)
    BY <1>0, <2>2, <2>4, BackupLinesKept, Zenon
  <2> QED
    BY <1>0, <1>2, <2>2, <2>3, <2>5, AppliedStep, Zenon
<1> QED
  BY <1>1, <1>2 DEF BackupReplace, Aborted

=============================================================================
