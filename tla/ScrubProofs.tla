---------------------------- MODULE ScrubProofs -----------------------------
(***************************************************************************)
(* Every step of scrubImpl that handles a line preserves the invariant.    *)
(***************************************************************************)
EXTENDS BackupStepProofs

-----------------------------------------------------------------------------
(* The actions of scrubImpl *)

\* fixMetadataEntry gives a tree, modified at or below the path of the line.
LEMMA FixMetadataEntryType ==
    ASSUME NEW bad, IsTree(bad), IsTree(dstTree), NEW d, d.path \in Path, NEW badEntry
    PROVE  /\ IsTree(FixMetadataEntry(bad, d, badEntry))
           /\ SameOutside(bad, FixMetadataEntry(bad, d, badEntry), d.path)
<1> DEFINE removed == IF badEntry # None THEN RemoveFromTree(bad, d.path) ELSE bad
<1>1. IsTree(removed) /\ SameOutside(bad, removed, d.path)
  BY RemoveFromTreeType, RemoveSame, SameReflexive
<1>2. FixMetadataEntry(bad, d, badEntry)
        = IF d.e[1] # None THEN CopyFromTree(removed, dstTree, d.path) ELSE removed
  BY DEF FixMetadataEntry
<1> HIDE DEF removed
<1>3. /\ IsTree(CopyFromTree(removed, dstTree, d.path))
      /\ SameOutside(removed, CopyFromTree(removed, dstTree, d.path), d.path)
  BY <1>1, CopyFromTreeType, CopySame
<1> QED
  BY <1>1, <1>2, <1>3, SameTransitive

\* Entries that are the same are of the same type.
LEMMA OptEqualType ==
    ASSUME NEW a, NEW b, OptEqual(a, b)
    PROVE  IsDirectory(a) <=> IsDirectory(b)
BY DEF OptEqual, Equal, IsDirectory

\* Metadata file 2 is repaired.
LEMMA FixMeta2Step ==
    ASSUME Inv, NEW d \in diff, FixMeta2(d)
    PROVE  Inv'
<1>0. pc = "scrub"
  BY DEF FixMeta2, Handles
<1>1. CASE Abort("TreeOperation")
  BY <1>0, <1>1, AbortStep DEF Aborted
<1>2. CASE FixMetadataSucceeds(meta2Tree, d, d.e[3])
  <2> DEFINE s == IsDirectory(d.e[1]) \/ IsDirectory(d.e[3])
  <2>1. /\ meta2Tree' = FixMetadataEntry(meta2Tree, d, d.e[3])
        /\ Fixed(d, FALSE, TRUE, s)
        /\ dst' = dst /\ dstTree' = dstTree /\ meta1Tree' = meta1Tree
    BY <1>2, Zenon DEF FixMeta2, dirVars
  <2>2. /\ d.path \in Path /\ InStep(dst, dstTree)
        /\ IsTree(meta1Tree) /\ IsTree(meta2Tree) /\ IsTree(dstTree)
    BY <1>0, ScrubLineFacts DEF InStep
  <2>3. IsTree(meta2Tree') /\ SameOutside(meta2Tree, meta2Tree', d.path)
    BY <2>1, <2>2, FixMetadataEntryType
  <2>4. IsDirectory(d.e[1]) <=> IsDirectory(d.e[2])
    BY OptEqualType DEF FixMeta2, Meta2Outvoted
  <2>5. ~s => diff \ {d} \subseteq
                 Diff(<<dstTree', meta1Tree', meta2Tree'>>, DefaultOpt)
    BY <1>0, <2>1, <2>3, <2>4, SameReflexive, ScrubLinesKept
  <2>6. s \in BOOLEAN
    BY DEF IsDirectory
  <2> HIDE DEF s
  <2> QED
    BY <1>0, <2>1, <2>2, <2>3, <2>5, <2>6, FixedStep, Zenon
<1> QED
  BY <1>1, <1>2, Zenon DEF FixMeta2

\* Metadata file 1 is repaired.
LEMMA FixMeta1Step ==
    ASSUME Inv, NEW d \in diff, FixMeta1(d)
    PROVE  Inv'
<1>0. pc = "scrub"
  BY DEF FixMeta1, Handles
<1>1. CASE Abort("TreeOperation")
  BY <1>0, <1>1, AbortStep DEF Aborted
<1>2. CASE FixMetadataSucceeds(meta1Tree, d, d.e[2])
  <2> DEFINE s == IsDirectory(d.e[1]) \/ IsDirectory(d.e[2])
  <2>1. /\ meta1Tree' = FixMetadataEntry(meta1Tree, d, d.e[2])
        /\ Fixed(d, TRUE, FALSE, s)
        /\ dst' = dst /\ dstTree' = dstTree /\ meta2Tree' = meta2Tree
    BY <1>2, Zenon DEF FixMeta1, dirVars
  <2>2. /\ d.path \in Path /\ InStep(dst, dstTree)
        /\ IsTree(meta1Tree) /\ IsTree(meta2Tree) /\ IsTree(dstTree)
    BY <1>0, ScrubLineFacts DEF InStep
  <2>3. IsTree(meta1Tree') /\ SameOutside(meta1Tree, meta1Tree', d.path)
    BY <2>1, <2>2, FixMetadataEntryType
  <2>4. IsDirectory(d.e[1]) <=> IsDirectory(d.e[3])
    BY OptEqualType DEF FixMeta1, Meta1Outvoted
  <2>5. ~s => diff \ {d} \subseteq
                 Diff(<<dstTree', meta1Tree', meta2Tree'>>, DefaultOpt)
    BY <1>0, <2>1, <2>3, <2>4, SameReflexive, ScrubLinesKept
  <2>6. s \in BOOLEAN
    BY DEF IsDirectory
  <2> HIDE DEF s
  <2> QED
    BY <1>0, <2>1, <2>2, <2>3, <2>5, <2>6, FixedStep, Zenon
<1> QED
  BY <1>1, <1>2, Zenon DEF FixMeta1

\* The lines about which nothing is done.
LEMMA UnfixedStep ==
    ASSUME Inv, NEW d \in diff,
           \/ LeaveUnfixed(d) \/ GiveUp(d) \/ RejectLine(d) \/ CannotFix(d) \/ DeclineFix(d)
    PROVE  Inv'
<1>0. pc = "scrub"
  BY DEF LeaveUnfixed, GiveUp, RejectLine, CannotFix, DeclineFix, ToFix, Handles
<1>1. CASE LeaveUnfixed(d)
  <2>1. FlagsOK'
    BY <1>1 DEF LeaveUnfixed, FlagsOK, Inv, TypeOK, tmVars
  <2> QED
    BY <1>0, <1>1, <2>1, SkippedStep DEF LeaveUnfixed
<1>2. CASE Unrecoverable(d)
  <2>1. FlagsOK'
    BY <1>2 DEF Unrecoverable, FlagsOK, Inv, TypeOK, tmVars
  <2> QED
    BY <1>0, <1>2, <2>1, SkippedStep DEF Unrecoverable
<1>3. CASE RejectLine(d)
  BY <1>0, <1>3, AbortStep DEF RejectLine, Aborted
<1> QED
  BY <1>1, <1>2, <1>3 DEF GiveUp, CannotFix, DeclineFix

\* A missing symbolic link is made from the metadata.
LEMMA RestoreMissingSymlinkStep ==
    ASSUME Inv, NEW d \in diff, RestoreMissingSymlink(d)
    PROVE  Inv'
<1>0. pc = "scrub"
  BY DEF RestoreMissingSymlink, ToFix, Handles
<1>1. CASE Abort("TreeOperation")
  BY <1>0, <1>1, AbortStep DEF Aborted
<1>2. CASE HasPlaceFor(dstTree, d.path)
  <2>1. /\ AddSymlinkToBackup(dstTree, dst, d.path, d.e[2]) /\ Fixed(d, FALSE, FALSE, FALSE)
        /\ meta1Tree' = meta1Tree /\ meta2Tree' = meta2Tree
        /\ d.e[1] = None /\ d.e[2].ty = "symlink"
    BY <1>2, Zenon DEF RestoreMissingSymlink, metaVars, Missing
  <2>2. /\ d.path \in Path /\ InStep(dst, dstTree) /\ IsTree(dstTree)
        /\ IsTree(meta1Tree) /\ IsTree(meta2Tree)
        /\ d.e[2] # None => d.e[2] \in Element
    BY <1>0, ScrubLineFacts DEF InStep
  <2>3. d.e[2] \in Element
    BY <2>1, <2>2 DEF RestoreMissingSymlink, ToFix, DirOutvoted, OptEqual
  <2>4. InStep(dst', dstTree') /\ SameOutside(dstTree, dstTree', d.path)
    BY <1>2, <2>1, <2>2, <2>3, AddSymlinkInStep, AddSymlinkSame DEF AddSymlinkToBackup
  <2>5. ~IsDirectory(d.e[1]) /\ ~IsDirectory(d.e[2])
    BY <2>1 DEF IsDirectory
  <2>6. diff \ {d} \subseteq Diff(<<dstTree', meta1Tree', meta2Tree'>>, DefaultOpt)
    BY <1>0, <2>1, <2>4, <2>5, SameReflexive, ScrubLinesKept
  <2> QED
    BY <1>0, <2>1, <2>2, <2>4, <2>6, FixedStep, Zenon
<1> QED
  BY <1>1, <1>2, Zenon DEF RestoreMissingSymlink

\* A missing entry is copied from the source.
LEMMA RestoreMissingStep ==
    ASSUME Inv, NEW d \in diff, RestoreMissing(d)
    PROVE  Inv'
<1>0. pc = "scrub"
  BY DEF RestoreMissing, ToFix, Handles
<1>1. CASE Abort("TreeOperation")
  BY <1>0, <1>1, AbortStep DEF Aborted
<1>2. CASE CopySucceeds(dstTree, SrcTree, d.path)
  <2> DEFINE s == IsDirectory(d.e[2])
  <2>1. /\ CopyToBackup(dstTree, dst, d.path) /\ Fixed(d, FALSE, FALSE, s)
        /\ meta1Tree' = meta1Tree /\ meta2Tree' = meta2Tree
        /\ d.e[1] = None
    BY <1>2, Zenon DEF RestoreMissing, metaVars, Missing
  <2>2. /\ d.path \in Path /\ InStep(dst, dstTree)
        /\ IsTree(meta1Tree) /\ IsTree(meta2Tree)
    BY <1>0, ScrubLineFacts
  <2>3. InStep(dst', dstTree') /\ SameOutside(dstTree, dstTree', d.path)
    BY <1>2, <2>1, <2>2, CopyToBackupInStep DEF Inv
  <2>4. ~IsDirectory(d.e[1]) /\ s \in BOOLEAN
    BY <2>1 DEF IsDirectory
  <2>5. ~s => diff \ {d} \subseteq
                 Diff(<<dstTree', meta1Tree', meta2Tree'>>, DefaultOpt)
    BY <1>0, <2>1, <2>3, <2>4, SameReflexive, ScrubLinesKept
  <2> HIDE DEF s
  <2> QED
    BY <1>0, <2>1, <2>2, <2>3, <2>4, <2>5, FixedStep, Zenon
<1> QED
  BY <1>1, <1>2, Zenon DEF RestoreMissing

\* A missing entry is copied from the source and its attributes to the metadata.
LEMMA RestoreMissingSameContentStep ==
    ASSUME Inv, NEW d \in diff, RestoreMissingSameContent(d)
    PROVE  Inv'
<1>0. pc = "scrub" /\ ToFix(d)
  BY DEF RestoreMissingSameContent, ToFix, Handles
<1>1. CASE Abort("TreeOperation")
  BY <1>0, <1>1, AbortStep DEF Aborted
<1>2. CASE CopySucceeds(dstTree, SrcTree, d.path)
  <2> DEFINE s == IsDirectory(d.e[2])
  <2>1. /\ CopyToBackup(dstTree, dst, d.path) /\ Fixed(d, TRUE, TRUE, s)
        /\ meta1Tree' = ModifyInTree(meta1Tree, d.path, Item(d), d.e[2])
        /\ meta2Tree' = ModifyInTree(meta2Tree, d.path, Item(d), d.e[2])
        /\ d.e[1] = None /\ d.e[2].ty # "symlink" /\ Item(d) # None
    BY <1>2, Zenon DEF RestoreMissingSameContent, Missing
  <2>2. /\ d.path \in Path /\ InStep(dst, dstTree)
        /\ IsTree(meta1Tree) /\ IsTree(meta2Tree) /\ Item(d) \in Element
        /\ d.e[2] # None => d.e[2] \in Element
    BY <1>0, <2>1, ScrubLineFacts
  <2>3. InStep(dst', dstTree') /\ SameOutside(dstTree, dstTree', d.path)
    BY <1>2, <2>1, <2>2, CopyToBackupInStep DEF Inv
  <2>5. d.e[2] \in Element
    BY <1>0, <2>1, <2>2 DEF ToFix, DirOutvoted, OptEqual
  <2>6. IsTree(meta1Tree') /\ \A q \in Path \ {d.path} : SameAt(meta1Tree, meta1Tree', q)
    BY <2>1, <2>2, <2>5, ModifyInTreeType, ModifySame
  <2>7. IsTree(meta2Tree') /\ \A q \in Path \ {d.path} : SameAt(meta2Tree, meta2Tree', q)
    BY <2>1, <2>2, <2>5, ModifyInTreeType, ModifySame
  <2>8. /\ SameOutside(meta1Tree, meta1Tree', d.path)
        /\ SameOutside(meta2Tree, meta2Tree', d.path)
    BY <2>6, <2>7 DEF SameOutside, Subtree
  <2>9. ~IsDirectory(d.e[1]) /\ s \in BOOLEAN
    BY <2>1 DEF IsDirectory
  <2>10. ~s => diff \ {d} \subseteq
                 Diff(<<dstTree', meta1Tree', meta2Tree'>>, DefaultOpt)
    BY <1>0, <2>3, <2>8, <2>9, ScrubLinesKept
  <2> HIDE DEF s
  <2> QED
    BY <1>0, <2>1, <2>3, <2>6, <2>7, <2>9, <2>10, FixedStep, Zenon
<1> QED
  BY <1>1, <1>2, Zenon DEF RestoreMissingSameContent

\* A missing entry is copied from the source to the backup and the metadata.
LEMMA RestoreMissingChangedStep ==
    ASSUME Inv, NEW d \in diff, RestoreMissingChanged(d)
    PROVE  Inv'
<1>0. pc = "scrub"
  BY DEF RestoreMissingChanged, ToFix, Handles
<1>1. CASE \E a \in Aborted : Abort(a)
  BY <1>0, <1>1, AbortStep
<1>2. CASE CopySucceeds(dstTree, SrcTree, d.path) /\ MetadataReplaceSucceeds(d.path)
  <2> DEFINE s == IsDirectory(Item(d)) \/ IsDirectory(d.e[2])
  <2>1. /\ CopyToBackup(dstTree, dst, d.path) /\ Fixed(d, TRUE, TRUE, s)
        /\ ReplaceInMetadata(d.path) /\ d.e[1] = None
    BY <1>2, Zenon DEF RestoreMissingChanged, Missing
  <2>2. /\ d.path \in Path /\ InStep(dst, dstTree)
        /\ IsTree(meta1Tree) /\ IsTree(meta2Tree) /\ IsTree(SrcTree)
    BY <1>0, ScrubLineFacts
  <2>3. InStep(dst', dstTree') /\ SameOutside(dstTree, dstTree', d.path)
    BY <1>2, <2>1, <2>2, CopyToBackupInStep DEF Inv
  <2>4. /\ IsTree(meta1Tree') /\ SameOutside(meta1Tree, meta1Tree', d.path)
        /\ IsTree(meta2Tree') /\ SameOutside(meta2Tree, meta2Tree', d.path)
    BY <2>1, <2>2, ReplaceInMetadataType
  <2>5. ~IsDirectory(d.e[1]) /\ s \in BOOLEAN
    BY <2>1 DEF IsDirectory
  <2>6. ~s => diff \ {d} \subseteq
                 Diff(<<dstTree', meta1Tree', meta2Tree'>>, DefaultOpt)
    BY <1>0, <2>3, <2>4, <2>5, ScrubLinesKept
  <2> HIDE DEF s
  <2> QED
    BY <1>0, <2>1, <2>3, <2>4, <2>5, <2>6, FixedStep, Zenon
<1> QED
  BY <1>1, <1>2, Zenon DEF RestoreMissingChanged, Aborted

\* An entry the metadata does not have is deleted.
LEMMA DeleteExtraStep ==
    ASSUME Inv, NEW d \in diff, DeleteExtra(d)
    PROVE  Inv'
<1>0. pc = "scrub"
  BY DEF DeleteExtra, ToFix, Handles
<1>1. CASE Abort("TreeOperation")
  BY <1>0, <1>1, AbortStep DEF Aborted
<1>2. CASE RemoveSucceeds(dstTree, d.path)
  <2> DEFINE s == IsDirectory(d.e[1])
  <2>1. /\ RemoveFromBackup(d.path) /\ Fixed(d, FALSE, FALSE, s)
        /\ meta1Tree' = meta1Tree /\ meta2Tree' = meta2Tree /\ d.e[2] = None
    BY <1>2, Zenon DEF DeleteExtra, metaVars, Extra
  <2>2. /\ d.path \in Path /\ InStep(dst, dstTree) /\ IsTree(dstTree)
        /\ IsTree(meta1Tree) /\ IsTree(meta2Tree)
    BY <1>0, ScrubLineFacts DEF InStep
  <2>3. InStep(dst', dstTree') /\ SameOutside(dstTree, dstTree', d.path)
    BY <2>1, <2>2, RemoveInStep, RemoveSame DEF RemoveFromBackup
  <2>4. ~IsDirectory(d.e[2]) /\ s \in BOOLEAN
    BY <2>1 DEF IsDirectory
  <2>5. ~s => diff \ {d} \subseteq
                 Diff(<<dstTree', meta1Tree', meta2Tree'>>, DefaultOpt)
    BY <1>0, <2>1, <2>3, <2>4, SameReflexive, ScrubLinesKept
  <2> HIDE DEF s
  <2> QED
    BY <1>0, <2>1, <2>2, <2>3, <2>4, <2>5, FixedStep, Zenon
<1> QED
  BY <1>1, <1>2, Zenon DEF DeleteExtra

\* The attributes of an entry are set to those of the metadata.
LEMMA RestoreAttributesStep ==
    ASSUME Inv, NEW d \in diff, RestoreAttributes(d)
    PROVE  Inv'
<1>0. pc = "scrub"
  BY DEF RestoreAttributes, ToFix, Handles
<1>1. /\ ModifyInBackup(d.path, d.e[2], d.e[1]) /\ Fixed(d, FALSE, FALSE, FALSE)
      /\ meta1Tree' = meta1Tree /\ meta2Tree' = meta2Tree
      /\ d.e[1] # None /\ d.e[2] # None /\ d.e[1].ty = d.e[2].ty
  BY Zenon DEF RestoreAttributes, metaVars, AttributesDiffer, SameContent, Compare
<1>2. /\ d.path \in Path /\ InStep(dst, dstTree) /\ IsTree(dstTree)
      /\ IsTree(meta1Tree) /\ IsTree(meta2Tree)
      /\ d.e[1] = Search(dstTree, d.path)
      /\ d.e[1] \in Element /\ d.e[2] \in Element
  BY <1>0, <1>1, ScrubLineFacts DEF InStep
<1>3. d.path \in dstTree.index /\ dstTree.node[d.path] = d.e[1]
  BY <1>1, <1>2, SearchType
<1>4. /\ InStep(dst', dstTree')
      /\ \A q \in Path \ {d.path} : SameAt(dstTree, dstTree', q)
  BY <1>1, <1>2, <1>3, ModifyInBackupInStep
<1>5. diff \ {d} \subseteq Diff(<<dstTree', meta1Tree', meta2Tree'>>, DefaultOpt)
  <2> DEFINE us == <<dstTree', meta1Tree', meta2Tree'>>
  <2>1. /\ DOMAIN Trees3 = 1 .. 3 /\ DOMAIN us = 1 .. 3
        /\ Trees3[1] = dstTree /\ Trees3[2] = meta1Tree /\ Trees3[3] = meta2Tree
        /\ us[1] = dstTree' /\ us[2] = meta1Tree /\ us[3] = meta2Tree
    BY <1>1 DEF Trees3
  <2>2. diff \in SUBSET Diff(Trees3, DefaultOpt)
    BY <1>0 DEF Inv, NoStaleLine, Trees3
  <2> HIDE DEF us
  <2>3. \A i \in DOMAIN Trees3 : \A q \in Path \ {d.path} : SameAt(Trees3[i], us[i], q)
    BY <1>4, <2>1, SameReflexive
  <2>4. diff \ {d} \subseteq Diff(us, DefaultOpt)
    BY <2>1, <2>2, <2>3, LinesKeptByModify
  <2> QED
    BY <2>4 DEF us
<1> QED
  BY <1>0, <1>1, <1>2, <1>4, <1>5, FixedStep, Zenon

\* A symbolic link is made anew from the metadata.
LEMMA RestoreSymlinkStep ==
    ASSUME Inv, NEW d \in diff, RestoreSymlink(d)
    PROVE  Inv'
<1> DEFINE t == RemoveFromTree(dstTree, d.path)
           fs == RemoveFromFilesystem(dst, t, d.path)
<1>0. pc = "scrub"
  BY DEF RestoreSymlink, ToFix, Handles
<1>1. CASE Abort("TreeOperation")
  BY <1>0, <1>1, AbortStep DEF Aborted
<1>2. CASE RemoveSucceeds(dstTree, d.path) /\ HasPlaceFor(t, d.path)
  <2>1. /\ AddSymlinkToBackup(t, fs, d.path, d.e[2]) /\ Fixed(d, FALSE, FALSE, FALSE)
        /\ meta1Tree' = meta1Tree /\ meta2Tree' = meta2Tree
        /\ d.e[2] # None /\ d.e[1].ty = "symlink" /\ d.e[2].ty = "symlink"
    BY <1>2, Zenon DEF RestoreSymlink, metaVars, ContentDiffers, BothLinks
  <2>2. /\ d.path \in Path /\ InStep(dst, dstTree) /\ IsTree(dstTree)
        /\ IsTree(meta1Tree) /\ IsTree(meta2Tree) /\ d.e[2] \in Element
    BY <1>0, <2>1, ScrubLineFacts DEF InStep
  <2>3. InStep(fs, t) /\ SameOutside(dstTree, t, d.path) /\ IsTree(t)
    BY <2>2, RemoveInStep, RemoveSame, RemoveFromTreeType
  <2> HIDE DEF t, fs
  <2>4. InStep(dst', dstTree') /\ SameOutside(t, dstTree', d.path)
    BY <1>2, <2>1, <2>2, <2>3, AddSymlinkInStep, AddSymlinkSame DEF AddSymlinkToBackup
  <2>5. SameOutside(dstTree, dstTree', d.path)
    BY <2>3, <2>4, SameTransitive
  <2>6. ~IsDirectory(d.e[1]) /\ ~IsDirectory(d.e[2])
    BY <2>1 DEF IsDirectory
  <2>7. diff \ {d} \subseteq Diff(<<dstTree', meta1Tree', meta2Tree'>>, DefaultOpt)
    BY <1>0, <2>1, <2>5, <2>6, SameReflexive, ScrubLinesKept
  <2> QED
    BY <1>0, <2>1, <2>2, <2>4, <2>7, FixedStep, Zenon
<1> QED
  BY <1>1, <1>2, Zenon DEF RestoreSymlink

\* An entry is replaced by the source's.
LEMMA RestoreContentStep ==
    ASSUME Inv, NEW d \in diff, RestoreContent(d)
    PROVE  Inv'
<1>0. pc = "scrub"
  BY DEF RestoreContent, ToFix, Handles
<1>1. CASE Abort("TreeOperation")
  BY <1>0, <1>1, AbortStep DEF Aborted
<1>2. CASE ReplaceSucceeds(dstTree, SrcTree, d.path)
  <2> DEFINE s == IsDirectory(d.e[1]) \/ IsDirectory(d.e[2])
  <2>1. /\ ReplaceInBackup(d.path) /\ Fixed(d, FALSE, FALSE, s)
        /\ meta1Tree' = meta1Tree /\ meta2Tree' = meta2Tree
    BY <1>2, Zenon DEF RestoreContent, metaVars
  <2>2. /\ d.path \in Path /\ InStep(dst, dstTree)
        /\ IsTree(meta1Tree) /\ IsTree(meta2Tree)
    BY <1>0, ScrubLineFacts
  <2>3. InStep(dst', dstTree') /\ SameOutside(dstTree, dstTree', d.path)
    BY <1>2, <2>1, <2>2, ReplaceInBackupInStep DEF Inv
  <2>4. ~s => diff \ {d} \subseteq
                 Diff(<<dstTree', meta1Tree', meta2Tree'>>, DefaultOpt)
    BY <1>0, <2>1, <2>3, SameReflexive, ScrubLinesKept
  <2>5. s \in BOOLEAN
    BY DEF IsDirectory
  <2> HIDE DEF s
  <2> QED
    BY <1>0, <2>1, <2>2, <2>3, <2>4, <2>5, FixedStep, Zenon
<1> QED
  BY <1>1, <1>2, Zenon DEF RestoreContent

\* The metadata is replaced by the source's, which is what the backup has.
LEMMA TrustBackupStep ==
    ASSUME Inv, NEW d \in diff, TrustBackup(d)
    PROVE  Inv'
<1>0. pc = "scrub"
  BY DEF TrustBackup, ToFix, Handles
<1>1. CASE Abort("TreeOperation")
  BY <1>0, <1>1, AbortStep DEF Aborted
<1>2. CASE MetadataReplaceSucceeds(d.path)
  <2> DEFINE s == IsDirectory(Item(d)) \/ IsDirectory(d.e[2])
  <2>1. /\ ReplaceInMetadata(d.path) /\ Fixed(d, TRUE, TRUE, s)
        /\ dst' = dst /\ dstTree' = dstTree
        /\ Item(d) # None /\ d.e[1] # None /\ Item(d).ty = d.e[1].ty
    BY <1>2, Zenon DEF TrustBackup, dirVars, ContentDiffers, SourceMatchesBackup, Equal
  <2>2. /\ d.path \in Path /\ InStep(dst, dstTree)
        /\ IsTree(meta1Tree) /\ IsTree(meta2Tree) /\ IsTree(SrcTree)
    BY <1>0, ScrubLineFacts
  <2>3. /\ IsTree(meta1Tree') /\ SameOutside(meta1Tree, meta1Tree', d.path)
        /\ IsTree(meta2Tree') /\ SameOutside(meta2Tree, meta2Tree', d.path)
    BY <2>1, <2>2, ReplaceInMetadataType
  <2>4. (IsDirectory(Item(d)) <=> IsDirectory(d.e[1])) /\ s \in BOOLEAN
    BY <2>1 DEF IsDirectory
  <2>5. ~s => diff \ {d} \subseteq
                 Diff(<<dstTree', meta1Tree', meta2Tree'>>, DefaultOpt)
    BY <1>0, <2>1, <2>3, <2>4, SameReflexive, ScrubLinesKept
  <2> HIDE DEF s
  <2> QED
    BY <1>0, <2>1, <2>2, <2>3, <2>4, <2>5, FixedStep, Zenon
<1> QED
  BY <1>1, <1>2, Zenon DEF TrustBackup

\* The metadata is replaced by the source's, whose content the backup has.
LEMMA TrustSourceStep ==
    ASSUME Inv, NEW d \in diff, TrustSource(d)
    PROVE  Inv'
<1>0. pc = "scrub"
  BY DEF TrustSource, ToFix, Handles
<1>1. CASE Abort("MetadataOperation")
  BY <1>0, <1>1, AbortStep DEF Aborted
<1>2. CASE MetadataReplaceSucceeds(d.path)
  <2> DEFINE s == IsDirectory(d.e[1]) \/ IsDirectory(d.e[2])
  <2>1. /\ ReplaceInMetadata(d.path) /\ Fixed(d, TRUE, TRUE, s)
        /\ ModifyInBackup(d.path, Item(d), d.e[2])
        /\ Item(d) # None /\ d.e[1] # None /\ d.e[2] # None /\ Item(d).ty = d.e[1].ty
    BY <1>2, Zenon
       DEF TrustSource, ContentDiffers, SourceHasBackupContent, SameContent, Compare
  <2>2. /\ d.path \in Path /\ InStep(dst, dstTree) /\ IsTree(dstTree)
        /\ IsTree(meta1Tree) /\ IsTree(meta2Tree) /\ IsTree(SrcTree)
        /\ d.e[1] = Search(dstTree, d.path) /\ d.e[2] \in Element /\ Item(d) \in Element
    BY <1>0, <2>1, ScrubLineFacts, Zenon DEF InStep
  <2>3. /\ IsTree(meta1Tree') /\ SameOutside(meta1Tree, meta1Tree', d.path)
        /\ IsTree(meta2Tree') /\ SameOutside(meta2Tree, meta2Tree', d.path)
    BY <2>1, <2>2, ReplaceInMetadataType
  <2>4. d.path \in dstTree.index /\ dstTree.node[d.path] = d.e[1]
    BY <2>1, <2>2, SearchType
  <2>5. InStep(dst', dstTree') /\ SameOutside(dstTree, dstTree', d.path)
    BY <2>1, <2>2, <2>4, ModifyInBackupInStep
  <2>6. ~s => diff \ {d} \subseteq
                 Diff(<<dstTree', meta1Tree', meta2Tree'>>, DefaultOpt)
    BY <1>0, <2>3, <2>5, ScrubLinesKept
  <2>7. s \in BOOLEAN
    BY DEF IsDirectory
  <2> HIDE DEF s
  <2> QED
    BY <1>0, <2>1, <2>3, <2>5, <2>6, <2>7, FixedStep, Zenon
<1> QED
  BY <1>1, <1>2, Zenon DEF TrustSource

\* Backup and metadata are replaced by the source's.
LEMMA TakeSourceStep ==
    ASSUME Inv, NEW d \in diff, TakeSource(d)
    PROVE  Inv'
<1>0. pc = "scrub"
  BY DEF TakeSource, ToFix, Handles
<1>1. CASE \E a \in Aborted : Abort(a)
  BY <1>0, <1>1, AbortStep
<1>2. CASE ReplaceSucceeds(dstTree, SrcTree, d.path) /\ MetadataReplaceSucceeds(d.path)
  <2> DEFINE s == \/ IsDirectory(d.e[1]) \/ IsDirectory(d.e[2])
                  \/ IsDirectory(Item(d))
  <2>1. /\ ReplaceInBackup(d.path) /\ ReplaceInMetadata(d.path) /\ Fixed(d, TRUE, TRUE, s)
    BY <1>2, Zenon DEF TakeSource
  <2>2. /\ d.path \in Path /\ InStep(dst, dstTree)
        /\ IsTree(meta1Tree) /\ IsTree(meta2Tree) /\ IsTree(SrcTree)
    BY <1>0, ScrubLineFacts
  <2>3. /\ IsTree(meta1Tree') /\ SameOutside(meta1Tree, meta1Tree', d.path)
        /\ IsTree(meta2Tree') /\ SameOutside(meta2Tree, meta2Tree', d.path)
    BY <2>1, <2>2, ReplaceInMetadataType
  <2>4. InStep(dst', dstTree') /\ SameOutside(dstTree, dstTree', d.path)
    BY <1>2, <2>1, <2>2, ReplaceInBackupInStep DEF Inv
  <2>5. ~s => diff \ {d} \subseteq
                 Diff(<<dstTree', meta1Tree', meta2Tree'>>, DefaultOpt)
    BY <1>0, <2>3, <2>4, ScrubLinesKept
  <2>6. s \in BOOLEAN
    BY DEF IsDirectory
  <2> HIDE DEF s
  <2> QED
    BY <1>0, <2>1, <2>3, <2>4, <2>5, <2>6, FixedStep, Zenon
<1> QED
  BY <1>1, <1>2, Zenon DEF TakeSource, Aborted

=============================================================================
