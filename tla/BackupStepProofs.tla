-------------------------- MODULE BackupStepProofs --------------------------
(***************************************************************************)
(* What every proof about a step of Backup rests on: the invariant, what the *)
(* lines of a diff show, what the operations on the backup directory keep, *)
(* and what is left to show of a step that handles a line.                 *)
(***************************************************************************)
EXTENDS Backup, TreeTheorems

\* The invariant: none of its three parts is inductive alone.  A repair keeps
\* the disk and its tree in step because the line it handles shows what is in
\* the trees now, and the lines left do so because of what repairs modify.
Inv == TypeOK /\ MirrorOnDisk /\ NoStaleLine

Trees3 == <<dstTree, meta1Tree, meta2Tree>>

Trees2 == <<SrcTree, dstTree>>

-----------------------------------------------------------------------------
(* Lines *)

\* The lines of a diff of well typed trees are well typed.
LEMMA DiffType3 ==
    ASSUME NEW t1, NEW t2, NEW t3, IsTree(t1), IsTree(t2), IsTree(t3),
           NEW d \in Diff(<<t1, t2, t3>>, DefaultOpt)
    PROVE  /\ IsLine(d, 3) /\ d.path \in Path
           /\ d.e[1] = Search(t1, d.path)
           /\ d.e[2] = Search(t2, d.path)
           /\ d.e[3] = Search(t3, d.path)
<1> DEFINE ts == <<t1, t2, t3>>
<1>1. d = Line(ts, d.path) /\ d.path \in Path
  BY DiffLines
<1>2. d.e = [i \in 1 .. 3 |-> Search(ts[i], d.path)]
  BY <1>1 DEF Line
<1>3. /\ d.e[1] = Search(t1, d.path) /\ d.e[2] = Search(t2, d.path)
      /\ d.e[3] = Search(t3, d.path)
  BY <1>2
<1>4. \A i \in 1 .. 3 : Search(ts[i], d.path) \in Element \cup {None}
  BY SearchType
<1> HIDE DEF ts
<1>5. d.e \in [1 .. 3 -> Element \cup {None}]
  BY <1>2, <1>4
<1>6. d = [path |-> d.path, e |-> d.e]
  BY <1>1 DEF Line
<1> QED
  BY <1>1, <1>3, <1>5, <1>6 DEF IsLine

\* The same for two trees.
LEMMA DiffType2 ==
    ASSUME NEW t1, NEW t2, IsTree(t1), IsTree(t2),
           NEW d \in Diff(<<t1, t2>>, DefaultOpt)
    PROVE  /\ IsLine(d, 2) /\ d.path \in Path
           /\ d.e[1] = Search(t1, d.path)
           /\ d.e[2] = Search(t2, d.path)
<1> DEFINE ts == <<t1, t2>>
<1>1. d = Line(ts, d.path) /\ d.path \in Path
  BY DiffLines
<1>2. d.e = [i \in 1 .. 2 |-> Search(ts[i], d.path)]
  BY <1>1 DEF Line
<1>3. d.e[1] = Search(t1, d.path) /\ d.e[2] = Search(t2, d.path)
  BY <1>2
<1>4. \A i \in 1 .. 2 : Search(ts[i], d.path) \in Element \cup {None}
  BY SearchType
<1> HIDE DEF ts
<1>5. d.e \in [1 .. 2 -> Element \cup {None}]
  BY <1>2, <1>4
<1>6. d = [path |-> d.path, e |-> d.e]
  BY <1>1 DEF Line
<1> QED
  BY <1>1, <1>3, <1>5, <1>6 DEF IsLine

\* The source is scanned to a tree.
LEMMA SrcTreeType ==
    ASSUME TypeOK
    PROVE  IsTree(SrcTree) /\ cmd.hashAllFiles \in BOOLEAN
<1>1. cmd.hashAllFiles \in BOOLEAN
  BY Zenon DEF TypeOK, Command
<1> QED
  BY <1>1, ScanDirectoryType DEF TypeOK, SrcTree

\* A line that scrubImpl handles shows the three trees as they are.
LEMMA ScrubLineFacts ==
    ASSUME Inv, pc = "scrub", NEW d \in diff
    PROVE  /\ d.path \in Path /\ d \in Diff(Trees3, DefaultOpt)
           /\ d.e[1] = Search(dstTree, d.path)
           /\ d.e[2] = Search(meta1Tree, d.path)
           /\ d.e[3] = Search(meta2Tree, d.path)
           /\ d.e[1] # None => d.e[1] \in Element
           /\ d.e[2] # None => d.e[2] \in Element
           /\ d.e[3] # None => d.e[3] \in Element
           /\ InStep(dst, dstTree)
           /\ IsTree(meta1Tree) /\ IsTree(meta2Tree) /\ IsTree(SrcTree)
           /\ Item(d) # None => Item(d) \in Element
<1>1. /\ IsTree(dstTree) /\ IsTree(meta1Tree) /\ IsTree(meta2Tree)
      /\ InStep(dst, dstTree)
  BY DEF Inv, TypeOK, MirrorOnDisk, InStep
<1>2. d \in Diff(Trees3, DefaultOpt)
  BY DEF Inv, NoStaleLine, Trees3
<1>3. IsTree(SrcTree)
  BY SrcTreeType DEF Inv
<1>4. Item(d) # None => Item(d) \in Element
  BY <1>3, SearchType DEF Item
<1> QED
  BY <1>1, <1>2, <1>3, <1>4, DiffType3, SearchType DEF Trees3

\* A line that backupImpl handles shows the two trees as they are.
LEMMA BackupLineFacts ==
    ASSUME Inv, pc = "backup", NEW d \in diff
    PROVE  /\ d.path \in Path /\ d \in Diff(Trees2, DefaultOpt)
           /\ d.e[1] = Search(SrcTree, d.path)
           /\ d.e[2] = Search(dstTree, d.path)
           /\ d.e[1] # None => d.e[1] \in Element
           /\ d.e[2] # None => d.e[2] \in Element
           /\ InStep(dst, dstTree)
           /\ IsTree(meta1Tree) /\ IsTree(meta2Tree) /\ IsTree(SrcTree)
<1>1. /\ IsTree(dstTree) /\ IsTree(meta1Tree) /\ IsTree(meta2Tree)
      /\ InStep(dst, dstTree)
  BY DEF Inv, TypeOK, MirrorOnDisk, InStep
<1>2. d \in Diff(Trees2, DefaultOpt)
  BY DEF Inv, NoStaleLine, Trees2
<1>3. IsTree(SrcTree)
  BY SrcTreeType DEF Inv
<1> QED
  BY <1>1, <1>2, <1>3, DiffType2, SearchType DEF Trees2

-----------------------------------------------------------------------------
(* What a step does to the loop over the lines *)

\* A line was repaired: the disk is in step with its tree, and either the diff is
\* done again or the lines left are lines of the trees as they are now.
LEMMA FixedStep ==
    ASSUME Inv, pc = "scrub", NEW d \in diff,
           NEW a \in BOOLEAN, NEW b \in BOOLEAN, NEW s \in BOOLEAN, Fixed(d, a, b, s),
           InStep(dst', dstTree'), IsTree(meta1Tree'), IsTree(meta2Tree'),
           ~s => diff \ {d} \subseteq
                    Diff(<<dstTree', meta1Tree', meta2Tree'>>, DefaultOpt)
    PROVE  Inv'
<1>1. /\ src' = src /\ cmd' = cmd /\ bitrot' = bitrot /\ result' = result
      /\ meta1' = meta1 /\ meta2' = meta2 /\ meta1bak' = meta1bak /\ meta2bak' = meta2bak
      /\ pc' = IF s THEN "compare" ELSE "scrub"
      /\ diff' = IF s THEN {} ELSE diff \ {d}
  BY DEF Fixed, fileVars
<1>2. FlagsOK'
  BY DEF Inv, TypeOK, FlagsOK, Fixed, tmVars
<1>3. IsTree(dstTree') /\ IsFilesystem(dst') /\ Mirrors(dst', dstTree')
  BY DEF InStep
<1>4. NoStaleLine'
  BY <1>1 DEF NoStaleLine
<1>5. pc' = "scrub" => \A l \in diff' : IsLine(l, 3)
  BY <1>1, <1>3, DiffType3
<1>6. TypeOK'
  BY <1>1, <1>2, <1>3, <1>5 DEF Inv, TypeOK
<1>7. MirrorOnDisk'
  BY <1>3 DEF MirrorOnDisk
<1> QED
  BY <1>4, <1>6, <1>7 DEF Inv

\* A line was left as it is.
LEMMA SkippedStep ==
    ASSUME Inv, pc \in {"scrub", "backup"}, NEW d \in diff, diff' = diff \ {d}, FlagsOK',
           UNCHANGED <<src, cmd, pc, result, dirVars, metaVars, fileVars>>
    PROVE  Inv'
<1>1. /\ src' = src /\ cmd' = cmd /\ pc' = pc /\ result' = result
      /\ dst' = dst /\ dstTree' = dstTree
      /\ meta1Tree' = meta1Tree /\ meta2Tree' = meta2Tree
      /\ meta1' = meta1 /\ meta2' = meta2 /\ meta1bak' = meta1bak /\ meta2bak' = meta2bak
  BY DEF dirVars, metaVars, fileVars
<1>2. TypeOK'
  BY <1>1 DEF Inv, TypeOK
<1>3. MirrorOnDisk'
  BY <1>1 DEF Inv, MirrorOnDisk
<1>4. SrcTree' = SrcTree
  BY <1>1 DEF SrcTree
<1>5. NoStaleLine'
  BY <1>1, <1>4 DEF Inv, NoStaleLine
<1> QED
  BY <1>2, <1>3, <1>5 DEF Inv

\* A step that leaves everything but pc, to which no list of lines belongs.
LEMMA MoveStep ==
    ASSUME Inv, pc \notin {"start", "done"},
           pc' \in {"scrubbed", "exit"} \cup Final, FlagsOK', result' \in {0, 1, 2, 10},
           UNCHANGED <<src, cmd, dirVars, metaVars, fileVars>>
    PROVE  Inv'
<1>1. /\ src' = src /\ cmd' = cmd
      /\ dst' = dst /\ dstTree' = dstTree
      /\ meta1Tree' = meta1Tree /\ meta2Tree' = meta2Tree
      /\ meta1' = meta1 /\ meta2' = meta2 /\ meta1bak' = meta1bak /\ meta2bak' = meta2bak
  BY DEF dirVars, metaVars, fileVars
<1>0. pc' \notin {"scrub", "backup"}
  BY DEF Final, Aborted
<1>2. TypeOK'
  BY <1>0, <1>1 DEF Inv, TypeOK
<1>3. MirrorOnDisk'
  BY <1>1 DEF Inv, MirrorOnDisk
<1>4. NoStaleLine'
  BY <1>0 DEF NoStaleLine
<1> QED
  BY <1>2, <1>3, <1>4 DEF Inv

\* A failed assertion or tree operation.
LEMMA AbortStep ==
    ASSUME Inv, pc \notin {"start", "done"}, NEW a \in Aborted, Abort(a)
    PROVE  Inv'
<1>1. FlagsOK'
  BY DEF Inv, TypeOK, FlagsOK, Abort, tmVars, scrubVars
<1> QED
  BY <1>1, MoveStep DEF Abort, Inv, TypeOK, Final

\* A repair that modified the trees at or below the path of its line, which is
\* a directory in one of them at most, leaves the other lines valid.
LEMMA ScrubLinesKept ==
    ASSUME Inv, pc = "scrub", NEW d \in diff, NEW t1, NEW t2, NEW t3,
           SameOutside(dstTree, t1, d.path), SameOutside(meta1Tree, t2, d.path),
           SameOutside(meta2Tree, t3, d.path),
           ~(IsDirectory(d.e[1]) /\ IsDirectory(d.e[2])),
           ~(IsDirectory(d.e[1]) /\ IsDirectory(d.e[3])),
           ~(IsDirectory(d.e[2]) /\ IsDirectory(d.e[3]))
    PROVE  diff \ {d} \subseteq Diff(<<t1, t2, t3>>, DefaultOpt)
<1> DEFINE us == <<t1, t2, t3>>
<1>1. /\ IsTree(dstTree) /\ IsTree(meta1Tree) /\ IsTree(meta2Tree)
      /\ d.e[1] = Search(dstTree, d.path)
      /\ d.e[2] = Search(meta1Tree, d.path)
      /\ d.e[3] = Search(meta2Tree, d.path)
  BY ScrubLineFacts DEF InStep
<1>2. /\ IsDirectory(d.e[1]) <=> IsDirectoryIn(dstTree, d.path)
      /\ IsDirectory(d.e[2]) <=> IsDirectoryIn(meta1Tree, d.path)
      /\ IsDirectory(d.e[3]) <=> IsDirectoryIn(meta2Tree, d.path)
  BY <1>1, SearchType
<1>3. DOMAIN Trees3 = 1 .. 3 /\ DOMAIN us = 1 .. 3
      /\ Trees3[1] = dstTree /\ Trees3[2] = meta1Tree /\ Trees3[3] = meta2Tree
      /\ us[1] = t1 /\ us[2] = t2 /\ us[3] = t3
  BY DEF Trees3
<1>4. diff \in SUBSET Diff(Trees3, DefaultOpt)
  BY DEF Inv, NoStaleLine, Trees3
<1> HIDE DEF us
<1>5. \A i \in DOMAIN Trees3 : SameOutside(Trees3[i], us[i], d.path)
  BY <1>3
<1>6. \A i, j \in DOMAIN Trees3 :
          IsDirectoryIn(Trees3[i], d.path) /\ IsDirectoryIn(Trees3[j], d.path) => i = j
  BY <1>2, <1>3
<1>7. diff \ {d} \subseteq Diff(us, DefaultOpt)
  BY <1>3, <1>4, <1>5, <1>6, LinesKept
<1> QED
  BY <1>7 DEF us

-----------------------------------------------------------------------------
(* The operations on the backup directory and the metadata trees *)

\* copyFromTreeAndFilesystem from the source.
LEMMA CopyToBackupInStep ==
    ASSUME TypeOK, NEW p \in Path, NEW fs, NEW t, InStep(fs, t),
           CopySucceeds(t, SrcTree, p), CopyToBackup(t, fs, p)
    PROVE  InStep(dst', dstTree') /\ SameOutside(t, dstTree', p)
<1>1. IsFilesystem(src) /\ cmd.hashAllFiles \in BOOLEAN /\ IsTree(t)
  BY SrcTreeType DEF TypeOK, InStep
<1>2. SrcTree = ScanDirectory(src, cmd.hashAllFiles)
  BY DEF SrcTree
<1>3. /\ dstTree' = CopyFromTree(t, SrcTree, p)
      /\ dst' = CopyFromFilesystem(fs, src, CopyFromTree(t, SrcTree, p), p)
  BY DEF CopyToBackup
<1>4. InStep(dst', dstTree')
  BY <1>1, <1>2, <1>3, CopyInStep
<1> QED
  BY <1>1, <1>3, <1>4, CopySame

\* removeFromTreeAndFilesystem and copyFromTreeAndFilesystem in turn.
LEMMA ReplaceInBackupInStep ==
    ASSUME TypeOK, NEW p \in Path, InStep(dst, dstTree),
           ReplaceSucceeds(dstTree, SrcTree, p), ReplaceInBackup(p)
    PROVE  InStep(dst', dstTree') /\ SameOutside(dstTree, dstTree', p)
<1> DEFINE t == RemoveFromTree(dstTree, p)
           fs == RemoveFromFilesystem(dst, t, p)
<1>1. InStep(fs, t) /\ SameOutside(dstTree, t, p)
  BY RemoveInStep, RemoveSame DEF InStep
<1>2. CopySucceeds(t, SrcTree, p) /\ CopyToBackup(t, fs, p)
  BY DEF ReplaceSucceeds, ReplaceInBackup
<1> HIDE DEF t, fs
<1> QED
  BY <1>1, <1>2, CopyToBackupInStep, SameTransitive

\* Both metadata trees take the source's entry.
LEMMA ReplaceInMetadataType ==
    ASSUME IsTree(meta1Tree), IsTree(meta2Tree), IsTree(SrcTree), NEW p \in Path,
           ReplaceInMetadata(p)
    PROVE  /\ IsTree(meta1Tree') /\ SameOutside(meta1Tree, meta1Tree', p)
           /\ IsTree(meta2Tree') /\ SameOutside(meta2Tree, meta2Tree', p)
BY ReplaceInTreeType, ReplaceSame DEF ReplaceInMetadata

\* The modify functions on the backup directory.
LEMMA ModifyInBackupInStep ==
    ASSUME InStep(dst, dstTree), NEW p \in Path,
           NEW new \in Element, NEW old \in Element, ModifyInBackup(p, new, old)
    PROVE  /\ InStep(dst', dstTree')
           /\ \A q \in Path \ {p} : SameAt(dstTree, dstTree', q)
           /\ SameOutside(dstTree, dstTree', p)
<1> DEFINE u == ModifyInTree(dstTree, p, new, old)
<1>1. dstTree' = u /\ dst' = ModifyInFilesystem(dst, u, p, new, old)
  BY DEF ModifyInBackup
<1>2. InStep(ModifyInFilesystem(dst, u, p, new, old), u)
  BY ModifyInStep
<1>3. \A q \in Path \ {p} : SameAt(dstTree, u, q)
  BY ModifySame DEF InStep
<1> HIDE DEF u
<1> QED
  BY <1>1, <1>2, <1>3 DEF SameOutside, Subtree

=============================================================================
