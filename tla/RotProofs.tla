------------------------------ MODULE RotProofs ------------------------------
(***************************************************************************)
(* Two properties of the steps of backupImpl that the invariant of         *)
(* BackupProofs makes provable: what rotted in the source is not copied    *)
(* over the backup, and no mtime is set that hides a difference in content. *)
(***************************************************************************)
EXTENDS BackupProofs, SequenceTheorems

-----------------------------------------------------------------------------
(* What the operations on the disk do to the files they are not about *)

\* g differs from f in the mtime of directories at most.
SameButMtimes(f, g) ==
    /\ DOMAIN g = DOMAIN f
    /\ \A q \in DOMAIN f : g[q].data = f[q].data /\ g[q].ty = f[q].ty
    /\ \A q \in DOMAIN f : f[q].ty = "regular" => g[q] = f[q]

\* The place where an entry is added or removed is the top level or a directory.
IsPlace(f, dir) == dir = TopLevel \/ (dir \in DOMAIN f /\ f[dir].ty = "directory")

\* What two operations leave the same but for mtimes, they do together.
LEMMA MtimesTransitive ==
    ASSUME NEW f, NEW g, NEW h, SameButMtimes(f, g), SameButMtimes(g, h)
    PROVE  SameButMtimes(f, h)
BY DEF SameButMtimes

\* Setting the mtime of a directory.
LEMMA SetDirectoryMtime ==
    ASSUME NEW f, IsPathMap(f, Entry), NEW dir \in DOMAIN f, f[dir].ty = "directory",
           NEW m
    PROVE  /\ SameButMtimes(f, [f EXCEPT ![dir].mtime = m])
           /\ m \in Int => IsPathMap([f EXCEPT ![dir].mtime = m], Entry)
<1> DEFINE new == [f[dir] EXCEPT !.mtime = m]
           g == [f EXCEPT ![dir] = new]
<1>1. f[dir] \in Entry /\ f \in [DOMAIN f -> Entry]
  BY DEF IsPathMap
<1>2. new.data = f[dir].data /\ new.ty = "directory" /\ (m \in Int => new \in Entry)
  BY <1>1 DEF Entry
<1> HIDE DEF new
<1>3. DOMAIN g = DOMAIN f /\ g[dir] = new /\ \A q \in DOMAIN f : q # dir => g[q] = f[q]
  OBVIOUS
<1>4. m \in Int => IsPathMap(g, Entry)
  BY <1>1, <1>2, Zenon DEF IsPathMap
<1>5. SameButMtimes(f, g)
  BY <1>2, <1>3 DEF SameButMtimes
<1> QED
  BY <1>4, <1>5 DEF new

\* Touch and fixupParentMtime set the mtime of one directory.
LEMMA FixupSame ==
    ASSUME NEW f, IsPathMap(f, Entry), NEW t, NEW dir, IsPlace(f, dir)
    PROVE  /\ SameButMtimes(f, FixupParentMtime(f, t, dir))
           /\ SameButMtimes(f, FixupParentMtime(Touch(f, dir), t, dir))
<1>0. TopLevel \notin DOMAIN f
  BY PathAssumption DEF IsPathMap
<1>1. CASE dir = TopLevel
  <2>1. Touch(f, dir) = f
    BY <1>0, <1>1 DEF Touch
  <2> QED
    BY <1>1, <2>1 DEF FixupParentMtime, SameButMtimes
<1>2. CASE dir # TopLevel
  <2> DEFINE g == Touch(f, dir)
             m == t.node[dir].mtime
  <2>1. dir \in DOMAIN f /\ f[dir].ty = "directory"
    BY <1>2 DEF IsPlace
  <2>2. g = [f EXCEPT ![dir].mtime = Now]
    BY <2>1 DEF Touch
  <2> HIDE DEF g
  <2>3. SameButMtimes(f, g) /\ IsPathMap(g, Entry)
    <3>1. /\ SameButMtimes(f, [f EXCEPT ![dir].mtime = Now])
          /\ IsPathMap([f EXCEPT ![dir].mtime = Now], Entry)
      BY <2>1, SetDirectoryMtime, KernelAssumption
    <3> QED
      BY <2>2, <3>1, Zenon
  <2>4. dir \in DOMAIN g /\ g[dir].ty = "directory"
    BY <2>1, <2>3 DEF SameButMtimes
  <2>5. /\ SameButMtimes(f, [f EXCEPT ![dir].mtime = m])
        /\ SameButMtimes(g, [g EXCEPT ![dir].mtime = m])
    BY <2>1, <2>3, <2>4, SetDirectoryMtime
  <2>6. SameButMtimes(f, [g EXCEPT ![dir].mtime = m])
    BY <2>3, <2>5, MtimesTransitive
  <2> QED
    BY <1>2, <2>5, <2>6 DEF FixupParentMtime, g
<1> QED
  BY <1>1, <1>2

\* A parent that is not the top level is an ancestor.
LEMMA ParentIsAncestor ==
    ASSUME NEW p \in Path, Parent(p) # TopLevel
    PROVE  Parent(p) \in Ancestors[p] /\ Parent(p) \notin Subtree(p)
<1>1. Parent(p) \in Path
  BY PathAssumption
<1>2. p \in Seq(Name) /\ Len(p) \in Nat /\ Len(p) > 0
  BY PathLength
<1>3. Len(p) # 1
  <2>1. SubSeq(p, 1, 0) = << >>
    BY SubSeqEmpty
  <2>2. Len(p) = 1 => Parent(p) = SubSeq(p, 1, 0)
    BY DEF Parent
  <2> QED
    BY <2>1, <2>2 DEF TopLevel
<1>4. Parent(p) \in Seq(Name) /\ Len(Parent(p)) = Len(p) - 1
  <2>1. Len(p) - 1 \in Int /\ 1 <= Len(p) - 1
    <3>1. \A n \in Nat : n > 0 /\ n # 1 => n - 1 \in Int /\ 1 <= n - 1
      OBVIOUS
    <3> QED
      BY <1>2, <1>3, <3>1, Zenon
  <2>2. \A i \in 1 .. Len(p) - 1 : p[i] \in Name
    BY <1>2
  <2>3. Len(SubSeq(p, 1, Len(p) - 1)) = Len(p) - 1 - 1 + 1
    BY <2>1, <2>2, SubSeqProperties
  <2> QED
    BY <1>1, <1>2, <2>3, PathLength DEF Parent
<1>5. SubSeq(p, 1, Len(Parent(p))) = Parent(p)
  BY <1>4 DEF Parent
<1>6. p \in Inside[Parent(p)]
  BY <1>1, <1>2, <1>4, <1>5 DEF Inside
<1> QED
  BY <1>1, <1>2, <1>4, <1>6 DEF Ancestors, Subtree, Inside

\* Whatever is on disk is at the top level or in a directory.
LEMMA ParentIsPlace ==
    ASSUME NEW f, IsFilesystem(f), NEW p \in DOMAIN f
    PROVE  IsPlace(f, Parent(p))
<1>1. p \in Path
  BY DEF IsFilesystem, IsPathMap
<1> QED
  BY <1>1, ParentIsAncestor DEF IsPlace, IsFilesystem, WellFormed

\* What removeFromTreeAndFilesystem leaves on disk.
LEMMA RemoveLeaves ==
    ASSUME NEW f, IsFilesystem(f), NEW p \in DOMAIN f, NEW t
    PROVE  SameButMtimes([q \in DOMAIN f \ Subtree(p) |-> f[q]], RemoveFromFilesystem(f, t, p))
<1> DEFINE g == [q \in DOMAIN f \ Subtree(p) |-> f[q]]
<1>1. IsPathMap(g, Entry)
  BY DEF IsFilesystem, IsPathMap
<1>2. IsPlace(f, Parent(p)) /\ p \in Path
  BY ParentIsPlace DEF IsFilesystem, IsPathMap
<1>3. Parent(p) # TopLevel => Parent(p) \notin Subtree(p)
  BY <1>2, ParentIsAncestor
<1>4. IsPlace(g, Parent(p))
  BY <1>2, <1>3 DEF IsPlace
<1> HIDE DEF g
<1>5. SameButMtimes(g, FixupParentMtime(Touch(g, Parent(p)), t, Parent(p)))
  BY <1>1, <1>4, FixupSame
<1> QED
  BY <1>5 DEF g, RemoveFromFilesystem

\* recursiveFilesystemCopy copies the bytes.
LEMMA CopyEntryData ==
    ASSUME NEW entry \in Entry, NEW h \in BOOLEAN
    PROVE  CopyEntry(entry, FromFilesystem(entry, h)).data = entry.data
<1> DEFINE e == FromFilesystem(entry, h)
           c == [entry EXCEPT !.perm = IF e.ty = "directory" THEN e.perm ELSE entry.perm,
                              !.owner = Self]
           o == Chown(c, e.owner)
<1>1. /\ e.ty = entry.ty /\ e.perm = entry.perm /\ e.owner = entry.owner
      /\ e.owner \in Owner
  BY DEF FromFilesystem, Entry
<1> HIDE DEF e
<1>2. c \in Entry /\ c.data = entry.data
  BY <1>1, KernelAssumption DEF Entry
<1> HIDE DEF c
<1>3. o \in Entry /\ o.data = entry.data
  BY <1>1, <1>2, ChownEntry
<1>4. CopyEntry(entry, e) = [o EXCEPT !.mtime = e.mtime]
  BY DEF CopyEntry, c
<1> HIDE DEF o
<1>5. [o EXCEPT !.mtime = e.mtime].data = entry.data
  BY <1>3 DEF Entry
<1> QED
  BY <1>4, <1>5 DEF e

\* g is f, which has nothing at or below p, with a copy of what s has there.
WithCopy(f, s, p, g) ==
    /\ DOMAIN g = DOMAIN f \cup (Subtree(p) \cap DOMAIN s)
    /\ \A q \in Subtree(p) \cap DOMAIN s : g[q].data = s[q].data
    /\ \A q \in DOMAIN f : /\ g[q].data = f[q].data /\ g[q].ty = f[q].ty
                           /\ f[q].ty = "regular" => g[q] = f[q]
    /\ \A q \in DOMAIN f : q \notin Subtree(p)

\* What copyFromTreeAndFilesystem from the source leaves and adds on disk.
LEMMA CopyLeaves ==
    ASSUME NEW f, NEW t, InStep(f, t), NEW s, IsFilesystem(s), NEW h \in BOOLEAN,
           NEW p \in Path, CopySucceeds(t, ScanDirectory(s, h), p)
    PROVE  WithCopy(f, s, p, CopyFromFilesystem(f, s, CopyFromTree(t, ScanDirectory(s, h), p), p))
<1> DEFINE u == CopyFromTree(t, ScanDirectory(s, h), p)
           copied == Subtree(p) \cap DOMAIN s
           a == [q \in DOMAIN f \cup copied |->
                    IF q \in copied THEN CopyEntry(s[q], u.node[q]) ELSE f[q]]
<1>1. HasPlaceFor(t, p)
  BY DEF CopySucceeds
<1>2. \A q \in DOMAIN f : q \notin Subtree(p)
  BY <1>1, HasPlaceAncestors
<1>3. IsPlace(f, Parent(p))
  BY <1>1, HasPlaceAncestors, ParentIsAncestor DEF IsPlace
<1>4. \A q \in copied : u.node[q] = FromFilesystem(s[q], h)
  BY DEF CopyFromTree, ScanDirectory
<1> HIDE DEF u
<1>5. ASSUME NEW q \in copied
      PROVE  /\ CopyEntry(s[q], u.node[q]) \in Entry /\ q \in Path
             /\ CopyEntry(s[q], u.node[q]).data = s[q].data
  <2>1. s[q] \in Entry /\ q \in Path
    BY DEF IsFilesystem, IsPathMap
  <2>2. CopyEntry(s[q], u.node[q]) \in Entry
    BY <1>4, <2>1, CopyEntryMirrors
  <2>3. CopyEntry(s[q], FromFilesystem(s[q], h)).data = s[q].data
    BY <2>1, CopyEntryData
  <2> QED
    BY <1>4, <2>1, <2>2, <2>3
<1>6. IsPathMap(a, Entry)
  BY <1>5 DEF IsPathMap, InStep, IsFilesystem
<1>7. IsPlace(a, Parent(p))
  BY <1>2, <1>3 DEF IsPlace
<1>8. /\ DOMAIN a = DOMAIN f \cup copied
      /\ \A q \in copied : a[q].data = s[q].data
      /\ \A q \in DOMAIN f : a[q] = f[q]
  BY <1>2, <1>5
<1> DEFINE g == FixupParentMtime(Touch(a, Parent(p)), u, Parent(p))
<1>9. CopyFromFilesystem(f, s, u, p) = g
  BY DEF CopyFromFilesystem
<1> HIDE DEF a
<1>10. SameButMtimes(a, g)
  BY <1>6, <1>7, FixupSame
<1> HIDE DEF g
<1>11. WithCopy(f, s, p, g)
  BY <1>2, <1>8, <1>10 DEF SameButMtimes, WithCopy
<1> QED
  BY <1>9, <1>11 DEF u

\* chmod, lchown and utimensat leave the bytes, and set an mtime only to change it.
LEMMA ModifyEntryData ==
    ASSUME NEW entry \in Entry, NEW new \in Element, NEW old \in Element
    PROVE  /\ ModifyEntry(entry, new, old).data = entry.data
           /\ new.mtime = old.mtime => ModifyEntry(entry, new, old).mtime = entry.mtime
<1> DEFINE c == [entry EXCEPT !.perm = IF new.perm # old.perm /\ entry.ty # "symlink"
                                       THEN new.perm ELSE entry.perm]
           o == IF new.owner # old.owner THEN Chown(c, new.owner) ELSE c
           n == [o EXCEPT !.mtime = IF new.mtime # old.mtime THEN new.mtime ELSE o.mtime]
<1>1. new.perm \in Perm /\ new.owner \in Owner
  BY DEF Element
<1>2. c \in Entry /\ c.data = entry.data /\ c.mtime = entry.mtime
  BY <1>1 DEF Entry
<1>3. ModifyEntry(entry, new, old) = n
  BY DEF ModifyEntry
<1> HIDE DEF c
<1>4. o \in Entry /\ o.data = entry.data /\ o.mtime = entry.mtime
  BY <1>1, <1>2, ChownEntry
<1> HIDE DEF o
<1>5. n.data = o.data /\ (new.mtime = old.mtime => n.mtime = o.mtime)
  BY <1>4 DEF Entry
<1> QED
  BY <1>3, <1>4, <1>5

\* The modify functions leave the bytes and, but for the entry modified and its
\* directory, the mtime.
LEMMA ModifyLeaves ==
    ASSUME NEW f, NEW t, InStep(f, t), NEW p \in DOMAIN f,
           NEW new \in Element, NEW old \in Element, NEW u,
           NEW g, g = ModifyInFilesystem(f, u, p, new, old)
    PROVE  /\ DOMAIN g = DOMAIN f
           /\ \A q \in DOMAIN f : /\ g[q].data = f[q].data
                                  /\ g[q].ty = f[q].ty
                                  /\ f[q].ty = "regular" /\ q # p => g[q] = f[q]
           /\ f[p].ty = "regular" /\ new.mtime = old.mtime => g[p].mtime = f[p].mtime
<1> DEFINE n == ModifyEntry(f[p], new, old)
           a == [f EXCEPT ![p] = n]
<1>1. /\ f[p] \in Entry /\ MirrorsEntry(f[p], t.node[p]) /\ t.node[p] \in Element
      /\ f \in [DOMAIN f -> Entry] /\ DOMAIN f \subseteq Path
  BY InStepEntries DEF InStep, IsFilesystem, IsPathMap
<1>2. n \in Entry /\ n.ty = f[p].ty
  BY <1>1, ModifyEntryMirrors
<1>3. n.data = f[p].data /\ (new.mtime = old.mtime => n.mtime = f[p].mtime)
  BY <1>1, ModifyEntryData
<1> HIDE DEF n
<1>4. DOMAIN a = DOMAIN f /\ a[p] = n /\ \A q \in DOMAIN f : q # p => a[q] = f[q]
  OBVIOUS
<1>5. IsPathMap(a, Entry)
  BY <1>1, <1>2, Zenon DEF IsPathMap
<1>6. IsPlace(a, Parent(p))
  <2>1. IsPlace(f, Parent(p))
    BY ParentIsPlace DEF InStep
  <2> QED
    BY <1>2, <1>4, <2>1 DEF IsPlace
<1>7. g = a \/ g = FixupParentMtime(a, u, Parent(p))
  BY DEF ModifyInFilesystem, n
<1> HIDE DEF a
<1>8. SameButMtimes(a, FixupParentMtime(a, u, Parent(p))) /\ SameButMtimes(a, a)
  BY <1>5, <1>6, FixupSame DEF SameButMtimes
<1>9. SameButMtimes(a, g)
  BY <1>7, <1>8
<1> QED
  BY <1>2, <1>3, <1>4, <1>9 DEF SameButMtimes

-----------------------------------------------------------------------------
(* The steps of backupImpl that write to the backup directory *)

Removed(d) ==
    d.e[1] = None /\ RemoveSucceeds(dstTree, d.path) /\ RemoveFromBackup(d.path)

Copied(d) ==
    /\ CopySucceeds(dstTree, SrcTree, d.path)
    /\ CopyToBackup(dstTree, dst, d.path)

Updated(d) ==
    /\ d.e[1] # None /\ d.e[2] # None /\ OnlyAttributesChanged(d)
    /\ ModifyInBackup(d.path, d.e[1], d.e[2])

Replaced(d) ==
    /\ d.e[1] # None /\ d.e[2] # None /\ ~OnlyAttributesChanged(d)
    /\ ~Compare(d.e[1], d.e[2], RotOpt)
    /\ ReplaceSucceeds(dstTree, SrcTree, d.path) /\ ReplaceInBackup(d.path)

\* Every step of the backup that changes the directory is one of the four.
LEMMA BackupWrites ==
    ASSUME pc = "backup", Next
    PROVE  \/ dst' = dst
           \/ \E d \in diff : Removed(d) \/ Copied(d) \/ Updated(d) \/ Replaced(d)
<1>1. CASE Terminated
  BY <1>1 DEF Terminated, vars, dirVars
<1>2. CASE EndBackup
  BY <1>2 DEF EndBackup, dirVars
<1>3. ASSUME NEW a, Abort(a)
      PROVE  dst' = dst
  BY <1>3 DEF Abort, dirVars
<1>4. CASE BackupLine
  <2> PICK d \in diff :
        \/ BackupRemove(d) \/ BackupCopy(d) \/ BackupUpdate(d)
        \/ BackupSkipRotten(d) \/ BackupKeepNewer(d) \/ BackupReplace(d)
    BY <1>4 DEF BackupLine
  <2>1. CASE BackupRemove(d)
    BY <1>3, <2>1, Zenon DEF BackupRemove, Removed
  <2>2. CASE BackupCopy(d)
    BY <1>3, <2>2, Zenon DEF BackupCopy, Copied
  <2>3. CASE BackupUpdate(d)
    BY <1>3, <2>3, Zenon DEF BackupUpdate, InBoth, Updated
  <2>4. CASE BackupSkipRotten(d) \/ BackupKeepNewer(d)
    BY <2>4 DEF BackupSkipRotten, BackupKeepNewer, dirVars
  <2>5. CASE BackupReplace(d)
    BY <1>3, <2>5, Zenon DEF BackupReplace, ContentChanged, InBoth, Replaced
  <2> QED
    BY <2>1, <2>2, <2>3, <2>4, <2>5
<1>5. CASE ScrubLine
  BY <1>5, ScrubLineFiles
<1>6. CASE \/ Start \/ CompareWithMetadata \/ ScrubVerdict \/ EndAfterScrub
           \/ StartSimple \/ ContinueWithBackup \/ CompareWithSource \/ SaveMetadata
  BY <1>6 DEF Start, CompareWithMetadata, ScrubVerdict, EndAfterScrub, StartSimple,
     ContinueWithBackup, CompareWithSource, SaveMetadata, ExitWithoutSaving, OpenMeta1,
     WriteMeta1, OpenMeta2, WriteMeta2
<1> QED
  BY <1>1, <1>2, <1>4, <1>5, <1>6 DEF Next, Program, Scrub, DoBackup

\* What a copy, of an entry that may just have been removed, does to the files.
LEMMA CopiedFiles ==
    ASSUME TypeOK, NEW f, NEW t, InStep(f, t), NEW p \in Path,
           CopySucceeds(t, SrcTree, p), CopyToBackup(t, f, p)
    PROVE  WithCopy(f, src, p, dst')
<1>1. IsFilesystem(src) /\ cmd.hashAllFiles \in BOOLEAN
  BY SrcTreeType DEF TypeOK
<1>2. SrcTree = ScanDirectory(src, cmd.hashAllFiles)
  BY DEF SrcTree
<1>3. dst' = CopyFromFilesystem(f, src, CopyFromTree(t, SrcTree, p), p)
  BY DEF CopyToBackup
<1> QED
  BY <1>1, <1>2, <1>3, CopyLeaves

\* A path that both sides have, and what a line about it shows.
LEMMA OnBothSides ==
    ASSUME Inv, pc = "backup", NEW d \in diff, d.e[1] # None, d.e[2] # None
    PROVE  /\ d.path \in DOMAIN src /\ d.path \in DOMAIN dst
           /\ d.e[1] = SrcTree.node[d.path] /\ d.e[2] = dstTree.node[d.path]
           /\ d.e[1] = FromFilesystem(src[d.path], cmd.hashAllFiles)
           /\ MirrorsEntry(dst[d.path], d.e[2])
           /\ src[d.path] \in Entry /\ dst[d.path] \in Entry
           /\ d.e[1] \in Element /\ d.e[2] \in Element
<1>1. /\ d.path \in Path
      /\ d.e[1] = Search(SrcTree, d.path) /\ d.e[2] = Search(dstTree, d.path)
      /\ d.e[1] \in Element /\ d.e[2] \in Element
      /\ InStep(dst, dstTree) /\ IsTree(SrcTree)
  BY BackupLineFacts
<1>2. /\ d.path \in SrcTree.index /\ d.e[1] = SrcTree.node[d.path]
      /\ d.path \in dstTree.index /\ d.e[2] = dstTree.node[d.path]
      /\ d.path \in DOMAIN dstTree.node
  BY <1>1, SearchType DEF InStep
<1>3. d.path \in DOMAIN dst
  BY <1>1, <1>2 DEF InStep, Mirrors
<1>4. d.path \in DOMAIN src /\ SrcTree.node[d.path] = FromFilesystem(src[d.path], cmd.hashAllFiles)
  BY <1>2 DEF SrcTree, ScanDirectory
<1>5. src[d.path] \in Entry
  BY <1>4 DEF Inv, TypeOK, IsFilesystem, IsPathMap
<1> QED
  BY <1>1, <1>2, <1>3, <1>4, <1>5, InStepEntries

\* The disk between the removal and the copy of a replacement.
LEMMA ReplacedFiles ==
    ASSUME Inv, pc = "backup", NEW d \in diff, Replaced(d)
    PROVE  \E f : /\ SameButMtimes([q \in DOMAIN dst \ Subtree(d.path) |-> dst[q]], f)
                  /\ WithCopy(f, src, d.path, dst')
<1> DEFINE t == RemoveFromTree(dstTree, d.path)
           f == RemoveFromFilesystem(dst, t, d.path)
<1>1. d.path \in Path /\ d.path \in DOMAIN dst /\ InStep(dst, dstTree) /\ IsFilesystem(dst)
  BY OnBothSides, BackupLineFacts DEF Replaced, InStep
<1>2. InStep(f, t)
  BY <1>1, RemoveInStep
<1>3. SameButMtimes([q \in DOMAIN dst \ Subtree(d.path) |-> dst[q]], f)
  BY <1>1, RemoveLeaves
<1>4. CopySucceeds(t, SrcTree, d.path) /\ CopyToBackup(t, f, d.path)
  BY DEF Replaced, ReplaceSucceeds, ReplaceInBackup
<1> HIDE DEF t, f
<1>5. WithCopy(f, src, d.path, dst')
  BY <1>1, <1>2, <1>4, CopiedFiles DEF Inv
<1> QED
  BY <1>3, <1>5

\* What removal leaves on disk.
LEMMA RemovedFiles ==
    ASSUME Inv, pc = "backup", NEW d \in diff, Removed(d)
    PROVE  /\ d.path \in Path /\ d.path \notin DOMAIN src
           /\ SameButMtimes([q \in DOMAIN dst \ Subtree(d.path) |-> dst[q]], dst')
<1>1. /\ d.path \in Path /\ IsTree(SrcTree) /\ d.e[1] = Search(SrcTree, d.path)
      /\ InStep(dst, dstTree)
  BY BackupLineFacts
<1>2. d.path \notin SrcTree.index
  BY <1>1, SearchType DEF Removed
<1>3. d.path \notin DOMAIN src
  BY <1>2 DEF SrcTree, ScanDirectory
<1>4. d.path \in DOMAIN dst
  BY <1>1 DEF Removed, RemoveSucceeds, InStep, IsTree, Mirrors
<1>5. dst' = RemoveFromFilesystem(dst, RemoveFromTree(dstTree, d.path), d.path)
  BY DEF Removed, RemoveFromBackup
<1> QED
  BY <1>1, <1>3, <1>4, <1>5, RemoveLeaves DEF InStep

\* What is above an entry on disk is a directory.
LEMMA AboveIsDirectory ==
    ASSUME NEW f, IsFilesystem(f), NEW p \in DOMAIN f, NEW q \in Path, p \in Inside[q]
    PROVE  q \in DOMAIN f /\ f[q].ty = "directory"
<1>1. q \in Ancestors[p]
  BY DEF Ancestors, Inside
<1> QED
  BY <1>1 DEF IsFilesystem, WellFormed

\* A file that is in the backup as well stays where the line is not about it,
\* as no line that changes the content is about two directories.
LEMMA FileIsOutside ==
    ASSUME Inv, pc = "backup", NEW d \in diff, NEW p \in DOMAIN src \cap DOMAIN dst,
           Removed(d) \/ Replaced(d), p # d.path
    PROVE  p \notin Subtree(d.path)
<1> SUFFICES ASSUME p \in Inside[d.path] PROVE FALSE
  BY DEF Subtree
<1>1. /\ d.path \in Path /\ IsFilesystem(src) /\ IsFilesystem(dst)
  BY BackupLineFacts DEF Inv, TypeOK, InStep
<1>2. /\ d.path \in DOMAIN src /\ src[d.path].ty = "directory"
      /\ d.path \in DOMAIN dst /\ dst[d.path].ty = "directory"
  BY <1>1, AboveIsDirectory
<1>3. CASE Removed(d)
  BY <1>2, <1>3, RemovedFiles
<1>4. CASE Replaced(d)
  <2>1. /\ d.e[1] = FromFilesystem(src[d.path], cmd.hashAllFiles)
        /\ MirrorsEntry(dst[d.path], d.e[2]) /\ dst[d.path] \in Entry
        /\ d.e[1] \in Element /\ d.e[2] \in Element
    BY <1>4, OnBothSides DEF Replaced
  <2>2. d.e[1].ty = "directory" /\ d.e[2].ty = "directory"
    BY <1>2, <2>1, MirrorsEntryFields DEF FromFilesystem
  <2>3. Compare(d.e[1], d.e[2], BackupOpt(d.e[1], d.e[2]))
    BY <2>1, <2>2, DirectoriesCompare
  <2> QED
    BY <1>4, <2>3 DEF Replaced, OnlyAttributesChanged
<1> QED
  BY <1>3, <1>4

\* What setting attributes leaves on disk.
LEMMA UpdatedFiles ==
    ASSUME Inv, pc = "backup", NEW d \in diff, Updated(d)
    PROVE  /\ DOMAIN dst' = DOMAIN dst
           /\ \A q \in DOMAIN dst :
                 /\ dst'[q].data = dst[q].data /\ dst'[q].ty = dst[q].ty
                 /\ dst[q].ty = "regular" /\ q # d.path => dst'[q] = dst[q]
           /\ dst[d.path].ty = "regular" /\ d.e[1].mtime = d.e[2].mtime
                 => dst'[d.path].mtime = dst[d.path].mtime
<1>1. /\ d.path \in DOMAIN dst /\ d.e[1] \in Element /\ d.e[2] \in Element
      /\ InStep(dst, dstTree)
  BY OnBothSides, BackupLineFacts DEF Updated
<1>2. dst' = ModifyInFilesystem(dst, ModifyInTree(dstTree, d.path, d.e[1], d.e[2]),
                                d.path, d.e[1], d.e[2])
  BY DEF Updated, ModifyInBackup
<1> QED
  BY <1>1, <1>2, ModifyLeaves

\* backupImpl leaves a file of the backup alone when the source's is the same but
\* for its content.
LEMMA RotStep ==
    ASSUME Inv, pc = "backup", Next, NEW p \in DOMAIN src \cap DOMAIN dst,
           Compare(SrcTree.node[p], dstTree.node[p], RotOpt)
    PROVE  p \in DOMAIN dst' /\ dst'[p].data = dst[p].data
<1>1. CASE dst' = dst
  BY <1>1
<1>2. ASSUME NEW d \in diff, Removed(d)
      PROVE  p \in DOMAIN dst' /\ dst'[p].data = dst[p].data
  <2>1. p # d.path
    BY <1>2, RemovedFiles
  <2>2. p \notin Subtree(d.path)
    BY <1>2, <2>1, FileIsOutside
  <2> QED
    BY <1>2, <2>2, RemovedFiles DEF SameButMtimes
<1>3. ASSUME NEW d \in diff, Copied(d)
      PROVE  p \in DOMAIN dst' /\ dst'[p].data = dst[p].data
  <2>1. WithCopy(dst, src, d.path, dst')
    BY <1>3, BackupLineFacts, CopiedFiles DEF Copied, Inv
  <2> QED
    BY <2>1 DEF WithCopy
<1>4. ASSUME NEW d \in diff, Updated(d)
      PROVE  p \in DOMAIN dst' /\ dst'[p].data = dst[p].data
  BY <1>4, UpdatedFiles
<1>5. ASSUME NEW d \in diff, Replaced(d)
      PROVE  p \in DOMAIN dst' /\ dst'[p].data = dst[p].data
  <2>1. p # d.path
    BY <1>5, OnBothSides DEF Replaced
  <2>2. p \notin Subtree(d.path)
    BY <1>5, <2>1, FileIsOutside
  <2>3. PICK f : /\ SameButMtimes([q \in DOMAIN dst \ Subtree(d.path) |-> dst[q]], f)
                 /\ WithCopy(f, src, d.path, dst')
    BY <1>5, ReplacedFiles
  <2>4. p \in DOMAIN f /\ f[p].data = dst[p].data
    BY <2>2, <2>3 DEF SameButMtimes
  <2> QED
    BY <2>3, <2>4 DEF WithCopy
<1> QED
  BY <1>1, <1>2, <1>3, <1>4, <1>5, BackupWrites

\* The attributes of a file are set only to those of a source of the same content:
\* either the hashes say so, or the mtimes, which are then left alone.
LEMMA UpdatedIsSame ==
    ASSUME Inv, pc = "backup", NEW d \in diff, Updated(d),
           src[d.path].ty = "regular", dst[d.path].ty = "regular",
           dst[d.path].mtime # src[d.path].mtime
    PROVE  dst[d.path].data = src[d.path].data
<1> DEFINE a == d.e[1]
           b == d.e[2]
<1>1. /\ a = FromFilesystem(src[d.path], cmd.hashAllFiles)
      /\ MirrorsEntry(dst[d.path], b) /\ src[d.path] \in Entry /\ dst[d.path] \in Entry
      /\ a \in Element /\ b \in Element
  BY OnBothSides DEF Updated
<1>2. Compare(a, b, BackupOpt(a, b))
  BY DEF Updated, OnlyAttributesChanged
<1> HIDE DEF a, b
<1>3. /\ a.ty = "regular" /\ a.mtime = src[d.path].mtime
      /\ a.hash \in {src[d.path].data, None}
  BY <1>1 DEF FromFilesystem, HashFile
<1>4. /\ b.ty = "regular" /\ b.mtime = dst[d.path].mtime
      /\ b.hash \in {dst[d.path].data, None}
  BY <1>1, MirrorsEntryFields
<1>5. BackupOpt(a, b).hash
  BY Zenon DEF BackupOpt, DefaultOpt
<1>6. a.hash = None \/ b.hash = None => BackupOpt(a, b).mtime
  BY <1>3, <1>4, Zenon DEF BackupOpt, DefaultOpt
<1>7. a.hash # None /\ b.hash # None
  BY <1>2, <1>3, <1>4, <1>6 DEF Compare
<1>8. a.hash = b.hash
  BY <1>2, <1>5, <1>7 DEF Compare, HashesAgree
<1> QED
  BY <1>3, <1>4, <1>7, <1>8

\* backupImpl gives a file the mtime of its source together with its content.
LEMMA MtimeStep ==
    ASSUME Inv, pc = "backup", Next, NEW p \in DOMAIN src \cap DOMAIN dst',
           src[p].ty = "regular", dst'[p].ty = "regular", dst'[p].mtime = src[p].mtime,
           p \in DOMAIN dst => dst[p].mtime # src[p].mtime
    PROVE  dst'[p].data = src[p].data
<1>0. ~(p \in DOMAIN dst /\ dst'[p] = dst[p])
  OBVIOUS
<1>1. CASE dst' = dst
  BY <1>0, <1>1
<1>2. ASSUME NEW d \in diff, Removed(d)
      PROVE  dst'[p].data = src[p].data
  BY <1>0, <1>2, RemovedFiles DEF SameButMtimes
<1>3. ASSUME NEW d \in diff, Copied(d)
      PROVE  dst'[p].data = src[p].data
  <2>1. WithCopy(dst, src, d.path, dst')
    BY <1>3, BackupLineFacts, CopiedFiles DEF Copied, Inv
  <2> QED
    BY <1>0, <2>1 DEF WithCopy
<1>4. ASSUME NEW d \in diff, Updated(d)
      PROVE  dst'[p].data = src[p].data
  <2>1. p \in DOMAIN dst /\ dst[p].ty = "regular" /\ dst'[p].data = dst[p].data
    BY <1>4, UpdatedFiles
  <2>2. p = d.path
    BY <1>0, <1>4, <2>1, UpdatedFiles
  <2> QED
    BY <1>4, <2>1, <2>2, UpdatedIsSame
<1>5. ASSUME NEW d \in diff, Replaced(d)
      PROVE  dst'[p].data = src[p].data
  <2>1. PICK f : /\ SameButMtimes([q \in DOMAIN dst \ Subtree(d.path) |-> dst[q]], f)
                 /\ WithCopy(f, src, d.path, dst')
    BY <1>5, ReplacedFiles
  <2>2. CASE p \in DOMAIN f
    <3>1. p \in DOMAIN dst /\ f[p].ty = "regular" /\ f[p] = dst[p]
      BY <2>1, <2>2 DEF SameButMtimes, WithCopy
    <3> QED
      BY <1>0, <2>1, <2>2, <3>1 DEF WithCopy
  <2>3. CASE p \notin DOMAIN f
    BY <2>1, <2>3 DEF WithCopy
  <2> QED
    BY <2>2, <2>3
<1> QED
  BY <1>1, <1>2, <1>3, <1>4, <1>5, BackupWrites

-----------------------------------------------------------------------------

\* "NOT backing up this file as the backup copy may be good one": whatever the two
\* directories hold, no step of a backup replaces a file by one that differs in its
\* content only.
THEOREM SourceRotTheorem == Spec => SourceRotNotCopied
<1>1. Inv /\ [Next]_vars =>
        [pc = "backup" =>
            \A p \in DOMAIN src \cap DOMAIN dst :
                /\ src[p].ty = "regular" /\ dst[p].ty = "regular"
                /\ Compare(SrcTree.node[p], dstTree.node[p], RotOpt)
                => p \in DOMAIN dst' /\ dst'[p].data = dst[p].data]_vars
  BY RotStep, Zenon
<1> QED
  BY <1>1, InvHolds, PTL DEF Spec, SourceRotNotCopied

\* Whatever was hashed and whatever was not, no step of a backup gives a file the
\* mtime of a source that has another content.
THEOREM MtimeTheorem == Spec => MtimeNeverMasksContent
<1>1. Inv /\ [Next]_vars =>
        [pc = "backup" =>
            \A p \in DOMAIN src \cap DOMAIN dst' :
                /\ src[p].ty = "regular" /\ dst'[p].ty = "regular"
                /\ dst'[p].mtime = src[p].mtime
                /\ p \in DOMAIN dst => dst[p].mtime # src[p].mtime
                => dst'[p].data = src[p].data]_vars
  BY MtimeStep, Zenon
<1> QED
  BY <1>1, InvHolds, PTL DEF Spec, MtimeNeverMasksContent

=============================================================================
