---------------------------- MODULE TreeTheorems ----------------------------
(***************************************************************************)
(* Lemmas about the operators of DirectoryTree and DirectoryDiff: paths,   *)
(* the types of trees, that an operation on a tree and its counterpart on  *)
(* the disk keep the two in step, and which lines of a diff an operation   *)
(* leaves valid.                                                           *)
(***************************************************************************)
EXTENDS DirectoryDiff, TLAPS

-----------------------------------------------------------------------------
(* Paths *)

\* What PathAssumption says of the length of a path.
LEMMA PathLength ==
    ASSUME NEW p \in Path
    PROVE  /\ p \in Seq(Name) /\ Len(p) \in Nat /\ Len(p) > 0
           /\ p \notin Inside[p]
BY PathAssumption DEF TopLevel, Inside

\* Inside is transitive.
LEMMA InsideTransitive ==
    ASSUME NEW p \in Path, NEW q \in Inside[p], NEW r \in Inside[q]
    PROVE  r \in Inside[p]
<1>1. /\ q \in Path /\ Len(q) > Len(p) /\ SubSeq(q, 1, Len(p)) = p
      /\ r \in Path /\ Len(r) > Len(q) /\ SubSeq(r, 1, Len(q)) = q
  BY DEF Inside
<1>2. p \in Seq(Name) /\ q \in Seq(Name) /\ r \in Seq(Name)
  BY <1>1, PathLength
<1>3. SubSeq(r, 1, Len(p)) = p
  BY <1>1, <1>2
<1> QED
  BY <1>1, <1>2, <1>3 DEF Inside

\* What is not at or below p has no ancestor at or below p.
LEMMA OutsideAncestors ==
    ASSUME NEW p \in Path, NEW q \in Path, q \notin Subtree(p), NEW r \in Ancestors[q]
    PROVE  r \in Path /\ r \notin Subtree(p)
<1>1. r \in Path /\ q \in Inside[r]
  BY DEF Ancestors
<1>2. r # p
  BY <1>1 DEF Subtree
<1>3. r \notin Inside[p]
  BY <1>1, InsideTransitive DEF Subtree
<1> QED
  BY <1>1, <1>2, <1>3 DEF Subtree

\* The ancestors of what is at or below p are at or below p, or ancestors of p.
LEMMA SubtreeAncestors ==
    ASSUME NEW p \in Path, NEW q \in Subtree(p), NEW r \in Ancestors[q]
    PROVE  r \in Path /\ (r \in Subtree(p) \/ r \in Ancestors[p])
<1>0. p \in Path /\ q \in Path /\ p \in Seq(Name) /\ q \in Seq(Name)
  BY PathLength DEF Subtree, Inside
<1>1. r \in Path /\ Len(q) > Len(r) /\ SubSeq(q, 1, Len(r)) = r /\ r \in Seq(Name)
  BY <1>0, PathLength DEF Ancestors, Inside
<1>2. Len(q) >= Len(p) /\ SubSeq(q, 1, Len(p)) = p
  BY <1>0 DEF Subtree, Inside
<1>3. CASE Len(r) > Len(p)
  <2>1. SubSeq(r, 1, Len(p)) = p
    BY <1>0, <1>1, <1>2, <1>3
  <2> QED
    BY <1>0, <1>1, <1>3, <2>1 DEF Subtree, Inside
<1>4. CASE Len(r) = Len(p)
  BY <1>0, <1>1, <1>2, <1>4 DEF Subtree
<1>5. CASE Len(r) < Len(p)
  <2>1. SubSeq(p, 1, Len(r)) = r
    BY <1>0, <1>1, <1>2, <1>5
  <2> QED
    BY <1>0, <1>1, <1>5, <2>1 DEF Ancestors, Inside
<1> QED
  BY <1>0, <1>1, <1>3, <1>4, <1>5

\* The ancestors of p are its parent and the ancestors of its parent.
LEMMA ParentAncestors ==
    ASSUME NEW p \in Path, NEW r \in Ancestors[p]
    PROVE  /\ Parent(p) \in Path /\ Parent(p) # TopLevel
           /\ r = Parent(p) \/ r \in Ancestors[Parent(p)]
<1>1. r \in Path /\ Len(p) > Len(r) /\ SubSeq(p, 1, Len(r)) = r
      /\ r \in Seq(Name) /\ p \in Seq(Name) /\ Len(r) > 0
  BY PathLength DEF Ancestors, Inside
<1>2. /\ Parent(p) \in Seq(Name) /\ Len(Parent(p)) = Len(p) - 1
  BY <1>1 DEF Parent
<1>3. Parent(p) # TopLevel /\ Parent(p) \in Path
  BY <1>1, <1>2, PathAssumption DEF TopLevel
<1>4. CASE Len(r) = Len(p) - 1
  BY <1>1, <1>3, <1>4 DEF Parent
<1>5. CASE Len(r) < Len(p) - 1
  <2>1. SubSeq(Parent(p), 1, Len(r)) = r
    BY <1>1, <1>2, <1>5 DEF Parent
  <2> QED
    BY <1>1, <1>2, <1>3, <1>5, <2>1 DEF Ancestors, Inside
<1> QED
  BY <1>1, <1>3, <1>4, <1>5

-----------------------------------------------------------------------------
(* Elements and entries *)

\* What a path on disk is read as has the type of an element.
LEMMA FromFilesystemType ==
    ASSUME NEW entry \in Entry, NEW h \in BOOLEAN
    PROVE  FromFilesystem(entry, h) \in Element
BY ElementAssumption, SMTT(30) DEF FromFilesystem, HashFile, Entry, Element, FileType

\* The nine bits that writeTo prints, and what chown clears of the others.
LEMMA PermBits ==
    ASSUME NEW m \in Perm
    PROVE  /\ m % 512 \in Perm
           /\ KillSetid(m) \in Perm
           /\ KillSetid(m) % 512 = m % 512
<1> DEFINE q == m % 2048
<1>1. m \in Int /\ 0 <= m /\ m < 4096
  BY DEF Perm
<1>2. q = IF m < 2048 THEN m ELSE m - 2048
  BY <1>1, Z3
<1>3. q \in 0 .. 2047 /\ q % 512 = m % 512
  BY <1>1, <1>2, Z3
<1>4. q >= 1024 => (q - 1024) % 512 = q % 512
  BY <1>3, Z3T(30)
<1>5. KillSetid(m) = IF q >= 1024 /\ q % 16 >= 8 THEN q - 1024 ELSE q
  BY DEF KillSetid
<1> HIDE DEF q
<1>6. KillSetid(m) \in 0 .. 2047 /\ KillSetid(m) % 512 = m % 512
  BY <1>3, <1>4, <1>5
<1>7. m % 512 \in 0 .. 511
  BY <1>1, Z3
<1> QED
  BY <1>6, <1>7 DEF Perm

\* Writing an element to a metadata file gives an element.
LEMMA WriteElementType ==
    ASSUME NEW e \in Element
    PROVE  WriteElement(e) \in Element
<1>1. e.perm \in Perm
  BY DEF Element
<1>2. e.perm % 512 \in Perm
  BY <1>1, PermBits
<1> QED
  BY <1>2 DEF Element, WriteElement

\* The modify functions leave an element an element, of the same type.
LEMMA ModifyElementType ==
    ASSUME NEW e \in Element, NEW new \in Element, NEW old \in Element
    PROVE  /\ ModifyElement(e, new, old) \in Element
           /\ ModifyElement(e, new, old).ty = e.ty
BY Zenon DEF Element, ModifyElement

\* Chown leaves an entry an entry and changes owner and permissions only.
LEMMA ChownEntry ==
    ASSUME NEW entry \in Entry, NEW owner \in Owner
    PROVE  /\ Chown(entry, owner) \in Entry
           /\ Chown(entry, owner).ty = entry.ty
           /\ Chown(entry, owner).mtime = entry.mtime
           /\ Chown(entry, owner).data = entry.data
           /\ Chown(entry, owner).perm % 512 = entry.perm % 512
           /\ Privileged => Chown(entry, owner).owner = owner
<1>1. entry.perm \in Perm /\ KillSetid(entry.perm) \in Perm
      /\ KillSetid(entry.perm) % 512 = entry.perm % 512
  BY PermBits DEF Entry
<1>2. KillSetid(SymlinkPerm) = SymlinkPerm
  BY DEF KillSetid, SymlinkPerm
<1> QED
  BY <1>1, <1>2, KernelAssumption, Zenon DEF Chown, Entry

\* MirrorsEntry, field by field.
LEMMA MirrorsEntryFields ==
    ASSUME NEW entry \in Entry, NEW e \in Element
    PROVE  MirrorsEntry(entry, e) <=>
               /\ entry.ty = e.ty
               /\ entry.ty # "symlink" => entry.perm % 512 = e.perm % 512
               /\ Privileged => entry.owner = e.owner
               /\ entry.mtime = e.mtime
               /\ (IF entry.ty = "regular" THEN SizeOf[entry.data] ELSE 0) = e.size
               /\ entry.ty = "regular" => e.hash \in {entry.data, None}
               /\ (IF entry.ty = "symlink" THEN entry.data ELSE None) = e.symlink
<1> DEFINE a == WriteElement(FromFilesystem(entry, TRUE))
           b == WriteElement(e)
           opt == [DiskOpt EXCEPT !.perm = entry.ty # "symlink"]
<1>1. /\ opt.perm <=> entry.ty # "symlink"
      /\ opt.owner <=> Privileged
      /\ opt.mtime /\ opt.size /\ opt.hash /\ opt.symlink
  BY Zenon DEF DiskOpt, DefaultOpt
<1>2. /\ a.ty = entry.ty /\ a.perm = entry.perm % 512 /\ a.owner = entry.owner
      /\ a.mtime = entry.mtime
      /\ a.size = (IF entry.ty = "regular" THEN SizeOf[entry.data] ELSE 0)
      /\ a.hash = (IF entry.ty = "regular" THEN entry.data ELSE None)
      /\ a.symlink = (IF entry.ty = "symlink" THEN entry.data ELSE None)
  BY DEF WriteElement, FromFilesystem, HashFile
<1>3. /\ b.ty = e.ty /\ b.perm = e.perm % 512 /\ b.owner = e.owner
      /\ b.mtime = e.mtime /\ b.size = e.size /\ b.hash = e.hash
      /\ b.symlink = e.symlink
  BY DEF WriteElement, Element
<1>4. MirrorsEntry(entry, e) <=> Compare(a, b, opt)
  BY DEF MirrorsEntry
<1> HIDE DEF a, b, opt
<1> QED
  BY <1>1, <1>2, <1>3, <1>4, ElementAssumption
     DEF Compare, HashesAgree, Entry, Element, FileType

-----------------------------------------------------------------------------
(* The types of trees *)

\* scanDirectory gives a tree, and every path it holds is indexed.
LEMMA ScanDirectoryType ==
    ASSUME NEW fs, IsFilesystem(fs), NEW h \in BOOLEAN
    PROVE  /\ IsTree(ScanDirectory(fs, h))
           /\ ScanDirectory(fs, h).index = DOMAIN fs
           /\ DOMAIN ScanDirectory(fs, h).node = DOMAIN fs
BY FromFilesystemType DEF IsFilesystem, IsPathMap, IsTree, ScanDirectory

\* A tree is made of the files it is read from and writes files that are read.
LEMMA MetadataFileType ==
    /\ \A f : IsPathMap(f, Element) => IsTree(ReadFrom(f))
    /\ \A t : IsTree(t) => IsPathMap(WriteTo(t), Element)
    /\ IsTree(EmptyTree)
BY WriteElementType DEF IsPathMap, IsTree, ReadFrom, WriteTo, EmptyTree

\* search finds an element or nothing.
LEMMA SearchType ==
    ASSUME NEW t, IsTree(t), NEW p
    PROVE  /\ Search(t, p) \in Element \cup {None}
           /\ Search(t, p) # None <=> p \in t.index
           /\ p \in t.index => Search(t, p) = t.node[p] /\ p \in DOMAIN t.node
           /\ IsDirectoryIn(t, p) <=> IsDirectory(Search(t, p))
BY ElementAssumption DEF IsTree, IsPathMap, Search, IsDirectory, IsDirectoryIn

\* removeFromTree gives a tree: what leaves the content lists leaves the index.
LEMMA RemoveFromTreeType ==
    ASSUME NEW t, IsTree(t), NEW p \in Path
    PROVE  IsTree(RemoveFromTree(t, p))
BY DEF IsTree, IsPathMap, RemoveFromTree

\* copyFromTree gives a tree: what it adds to the index is in the content lists.
LEMMA CopyFromTreeType ==
    ASSUME NEW t, IsTree(t), NEW s, IsTree(s), NEW p \in Path
    PROVE  IsTree(CopyFromTree(t, s, p))
BY DEF IsTree, IsPathMap, CopyFromTree

\* So does removing a path and copying it anew.
LEMMA ReplaceInTreeType ==
    ASSUME NEW t, IsTree(t), NEW s, IsTree(s), NEW p \in Path
    PROVE  IsTree(ReplaceInTree(t, s, p))
BY RemoveFromTreeType, CopyFromTreeType DEF ReplaceInTree

\* addSymlinkToTree gives a tree, although it leaves the index alone.
LEMMA AddSymlinkToTreeType ==
    ASSUME NEW t, IsTree(t), NEW p \in Path, NEW e \in Element
    PROVE  IsTree(AddSymlinkToTree(t, p, e))
BY DEF IsTree, IsPathMap, AddSymlinkToTree

\* The modify functions on a tree.
LEMMA ModifyInTreeType ==
    ASSUME NEW t, IsTree(t), NEW p \in Path, NEW new \in Element, NEW old \in Element
    PROVE  /\ IsTree(ModifyInTree(t, p, new, old))
           /\ ModifyInTree(t, p, new, old).index = t.index
           /\ DOMAIN ModifyInTree(t, p, new, old).node = DOMAIN t.node
           /\ \A q \in DOMAIN t.node : ModifyInTree(t, p, new, old).node[q] =
                  IF q = p THEN ModifyElement(t.node[p], new, old) ELSE t.node[q]
<1>1. t = [node |-> t.node, index |-> t.index]
  BY DEF IsTree
<1> DEFINE m == ModifyElement(t.node[p], new, old)
           n == [t.node EXCEPT ![p] = m]
<1>2. ModifyInTree(t, p, new, old) = [node |-> n, index |-> t.index]
  BY <1>1 DEF ModifyInTree
<1>3. p \in DOMAIN t.node => m \in Element
  BY ModifyElementType DEF IsTree, IsPathMap
<1> HIDE DEF m
<1>4. /\ DOMAIN n = DOMAIN t.node
      /\ \A q \in DOMAIN t.node : n[q] = IF q = p THEN m ELSE t.node[q]
  OBVIOUS
<1>5. IsPathMap(n, Element)
  BY <1>3, Zenon DEF IsTree, IsPathMap
<1> HIDE DEF n
<1>6. IsTree([node |-> n, index |-> t.index])
  BY <1>4, <1>5 DEF IsTree
<1> QED
  BY <1>2, <1>4, <1>6 DEF m

\* computeMissingHashes fills hashes in and changes nothing else.
LEMMA ComputeMissingHashesType ==
    ASSUME NEW t, IsTree(t), NEW fs, IsFilesystem(fs), CanComputeMissingHashes(t, fs)
    PROVE  IsTree(ComputeMissingHashes(t, fs))
<1> DEFINE Filled(p) == IF t.node[p].ty = "regular" /\ t.node[p].hash = None
                        THEN [t.node[p] EXCEPT !.hash = HashFile(fs[p])]
                        ELSE t.node[p]
<1>1. \A p \in DOMAIN t.node : Filled(p) \in Element
  <2> SUFFICES ASSUME NEW p \in DOMAIN t.node,
                      t.node[p].ty = "regular", t.node[p].hash = None
               PROVE  [t.node[p] EXCEPT !.hash = HashFile(fs[p])] \in Element
    BY DEF IsTree, IsPathMap
  <2>1. t.node[p] \in Element
    BY DEF IsTree, IsPathMap
  <2>2. fs[p] \in Entry /\ fs[p].ty = "regular"
    BY DEF CanComputeMissingHashes, IsFilesystem, IsPathMap
  <2>3. HashFile(fs[p]) \in Data
    BY <2>2 DEF HashFile, Entry
  <2> QED
    BY <2>1, <2>3 DEF Element
<1>2. ComputeMissingHashes(t, fs) =
        [node |-> [p \in DOMAIN t.node |-> Filled(p)], index |-> t.index]
  BY DEF IsTree, ComputeMissingHashes
<1> HIDE DEF Filled
<1> QED
  BY <1>1, <1>2 DEF IsTree, IsPathMap

-----------------------------------------------------------------------------
(* The disk and the tree of it *)

\* The backup directory and its tree: both well typed, the one mirrored by the other
InStep(fs, t) == IsFilesystem(fs) /\ IsTree(t) /\ Mirrors(fs, t)

\* InStep, path by path
LEMMA InStepEntries ==
    ASSUME NEW fs, NEW t, InStep(fs, t), NEW p \in DOMAIN fs
    PROVE  /\ p \in Path /\ p \in DOMAIN t.node
           /\ fs[p] \in Entry /\ t.node[p] \in Element
           /\ MirrorsEntry(fs[p], t.node[p])
           /\ fs[p].ty = t.node[p].ty
<1>1. /\ p \in Path /\ p \in DOMAIN t.node
      /\ fs[p] \in Entry /\ t.node[p] \in Element
      /\ MirrorsEntry(fs[p], t.node[p])
  BY DEF InStep, IsFilesystem, IsPathMap, IsTree, Mirrors
<1> QED
  BY <1>1, MirrorsEntryFields

\* Setting the mtime of an entry to that of its element.
LEMMA SetMtime ==
    ASSUME NEW entry \in Entry, NEW e \in Element, NEW other \in Entry,
           MirrorsEntry(entry, e), other = [entry EXCEPT !.mtime = e.mtime]
    PROVE  other \in Entry /\ MirrorsEntry(other, e) /\ other.ty = entry.ty
BY MirrorsEntryFields DEF Entry

\* The disk may differ from one that is in step in the mtime of the directory
\* dir, and still be a directory on disk.
LEMMA FixupParentMtimeInStep ==
    ASSUME NEW fs, NEW t, InStep(fs, t), NEW dir
    PROVE  /\ InStep(FixupParentMtime(fs, t, dir), t)
           /\ InStep(FixupParentMtime(Touch(fs, dir), t, dir), t)
<1> DEFINE m0 == t.node[dir].mtime
<1>1. TopLevel \notin DOMAIN fs
  BY PathAssumption DEF InStep, IsFilesystem, IsPathMap
<1>2. CASE dir \notin DOMAIN fs
  <2>1. FixupParentMtime(fs, t, dir) = fs /\ Touch(fs, dir) = fs
    BY <1>2 DEF FixupParentMtime, Touch, InStep, IsFilesystem, IsPathMap
  <2> QED
    BY <2>1
<1>3. CASE dir \in DOMAIN fs
  <2>1. /\ dir \in Path /\ fs[dir] \in Entry /\ t.node[dir] \in Element
        /\ MirrorsEntry(fs[dir], t.node[dir])
    BY <1>3, InStepEntries
  <2>2. fs \in [DOMAIN fs -> Entry] /\ DOMAIN fs \subseteq Path /\ m0 \in Int
    BY <2>1 DEF InStep, IsFilesystem, IsPathMap, Element
  <2> DEFINE new == [fs[dir] EXCEPT !.mtime = m0]
  <2>3. new \in Entry /\ new.ty = fs[dir].ty /\ new.mtime = m0
    BY <2>1, <2>2 DEF Entry
  <2>4. MirrorsEntry(new, t.node[dir])
    BY <2>1, <2>3, SetMtime
  <2>5. dir # TopLevel
    BY <1>1, <1>3
  <2>6. FixupParentMtime(fs, t, dir) = [fs EXCEPT ![dir] = new]
    BY <2>5 DEF FixupParentMtime
  <2>7. FixupParentMtime(Touch(fs, dir), t, dir) = [fs EXCEPT ![dir] = new]
    <3> DEFINE now == [fs[dir] EXCEPT !.mtime = Now]
    <3>1. Touch(fs, dir) = [fs EXCEPT ![dir] = now]
      BY <1>3 DEF Touch
    <3>2. [now EXCEPT !.mtime = m0] = new
      BY <2>1, Zenon DEF Entry
    <3>3. Touch(fs, dir)[dir] = now /\ DOMAIN Touch(fs, dir) = DOMAIN fs
      BY <1>3, <2>2, <3>1
    <3>4. FixupParentMtime(Touch(fs, dir), t, dir)
            = [Touch(fs, dir) EXCEPT ![dir] = [now EXCEPT !.mtime = m0]]
      BY <2>5, <3>3 DEF FixupParentMtime
    <3> HIDE DEF now, new
    <3> QED
      BY <2>2, <3>1, <3>2, <3>4, Zenon
  <2> HIDE DEF new, m0
  <2> DEFINE g == [fs EXCEPT ![dir] = new]
  <2>8. DOMAIN g = DOMAIN fs /\ g[dir] = new /\ \A q \in DOMAIN fs : q # dir => g[q] = fs[q]
    BY <1>3
  <2>9. IsPathMap(g, Entry)
    BY <2>2, <2>3, Zenon DEF IsPathMap
  <2> HIDE DEF g
  <2>10. WellFormed(g)
    BY <2>3, <2>8 DEF WellFormed, InStep, IsFilesystem
  <2>11. Mirrors(g, t)
    BY <2>4, <2>8 DEF Mirrors, InStep
  <2> QED
    BY <2>6, <2>7, <2>9, <2>10, <2>11 DEF InStep, IsFilesystem, g
<1> QED
  BY <1>2, <1>3
\* removeFromTreeAndFilesystem.
LEMMA RemoveInStep ==
    ASSUME NEW fs, NEW t, InStep(fs, t), NEW p \in Path
    PROVE  LET u == RemoveFromTree(t, p)
           IN  InStep(RemoveFromFilesystem(fs, u, p), u)
<1> DEFINE u == RemoveFromTree(t, p)
           g == [q \in DOMAIN fs \ Subtree(p) |-> fs[q]]
<1>1. IsTree(u)
  BY RemoveFromTreeType DEF InStep
<1>2. IsPathMap(g, Entry)
  BY DEF IsPathMap, InStep, IsFilesystem
<1>3. WellFormed(g)
  <2> SUFFICES ASSUME NEW q \in DOMAIN fs \ Subtree(p), NEW r \in Ancestors[q]
               PROVE  r \in DOMAIN g /\ g[r].ty = "directory"
    BY DEF WellFormed
  <2>1. r \in DOMAIN fs /\ fs[r].ty = "directory"
    BY DEF InStep, IsFilesystem, WellFormed
  <2>2. r \notin Subtree(p)
    BY OutsideAncestors DEF InStep, IsFilesystem, IsPathMap
  <2> QED
    BY <2>1, <2>2
<1>4. Mirrors(g, u)
  BY DEF Mirrors, InStep, RemoveFromTree
<1>5. InStep(g, u)
  BY <1>1, <1>2, <1>3, <1>4 DEF InStep, IsFilesystem
<1> HIDE DEF u
<1>6. InStep(FixupParentMtime(Touch(g, Parent(p)), u, Parent(p)), u)
  BY <1>5, FixupParentMtimeInStep
<1> QED
  BY <1>6 DEF RemoveFromFilesystem, u

\* recursiveFilesystemCopy of one node of a scanned tree.
LEMMA CopyEntryMirrors ==
    ASSUME NEW entry \in Entry, NEW h \in BOOLEAN
    PROVE  LET e == FromFilesystem(entry, h)
           IN  /\ CopyEntry(entry, e) \in Entry
               /\ CopyEntry(entry, e).ty = entry.ty
               /\ MirrorsEntry(CopyEntry(entry, e), e)
<1> DEFINE e == FromFilesystem(entry, h)
           c == [entry EXCEPT !.perm = IF e.ty = "directory" THEN e.perm ELSE entry.perm,
                              !.owner = Self]
           o == Chown(c, e.owner)
<1>1. e \in Element
  BY FromFilesystemType
<1>2. /\ e.ty = entry.ty /\ e.perm = entry.perm /\ e.owner \in Owner /\ e.mtime \in Int
      /\ e.mtime = entry.mtime
      /\ e.size = IF entry.ty = "regular" THEN SizeOf[entry.data] ELSE 0
      /\ entry.ty = "regular" => e.hash \in {entry.data, None}
      /\ e.symlink = IF entry.ty = "symlink" THEN entry.data ELSE None
  BY DEF FromFilesystem, HashFile, Entry
<1>3. c \in Entry /\ c.ty = entry.ty /\ c.data = entry.data /\ c.perm = entry.perm
  BY <1>2, KernelAssumption, Zenon DEF Entry
<1>4. CopyEntry(entry, e) = [o EXCEPT !.mtime = e.mtime]
  BY DEF CopyEntry
<1> HIDE DEF c, e
<1>5. /\ o \in Entry /\ o.ty = entry.ty /\ o.data = entry.data
      /\ o.perm % 512 = e.perm % 512
      /\ Privileged => o.owner = e.owner
  BY <1>2, <1>3, ChownEntry
<1> HIDE DEF o
<1> DEFINE n == [o EXCEPT !.mtime = e.mtime]
<1>6. /\ n \in Entry /\ n.ty = o.ty /\ n.data = o.data /\ n.perm = o.perm
      /\ n.owner = o.owner /\ n.mtime = e.mtime
  BY <1>2, <1>5 DEF Entry
<1> HIDE DEF n
<1>7. MirrorsEntry(n, e)
  BY <1>1, <1>2, <1>5, <1>6, MirrorsEntryFields
<1> QED
  BY <1>4, <1>5, <1>6, <1>7 DEF e, n

\* Where something can be added, there are directories all the way up.
LEMMA HasPlaceAncestors ==
    ASSUME NEW fs, NEW t, InStep(fs, t), NEW p \in Path, HasPlaceFor(t, p)
    PROVE  /\ p \notin DOMAIN fs
           /\ \A q \in Ancestors[p] : q \in DOMAIN fs /\ fs[q].ty = "directory"
           /\ \A q \in DOMAIN fs : q \notin Subtree(p)
<1>1. p \notin DOMAIN fs
  BY DEF HasPlaceFor, InStep, Mirrors
<1>2. ASSUME NEW q \in Ancestors[p]
      PROVE  q \in DOMAIN fs /\ fs[q].ty = "directory"
  <2>1. Parent(p) \in Path /\ Parent(p) # TopLevel
        /\ (q = Parent(p) \/ q \in Ancestors[Parent(p)])
    BY ParentAncestors
  <2>2. Parent(p) \in DOMAIN t.node /\ t.node[Parent(p)].ty = "directory"
    BY <2>1 DEF HasPlaceFor, IsDirectoryIn, InStep, IsTree
  <2>3. Parent(p) \in DOMAIN fs /\ fs[Parent(p)].ty = "directory"
    BY <2>2, InStepEntries DEF InStep, Mirrors
  <2> QED
    BY <2>1, <2>3 DEF InStep, IsFilesystem, WellFormed
<1>3. ASSUME NEW q \in DOMAIN fs, q \in Subtree(p)
      PROVE  FALSE
  <2>1. q \in Path /\ q \in Inside[p]
    BY <1>1, <1>3 DEF Subtree, InStep, IsFilesystem, IsPathMap
  <2>2. p \in Ancestors[q]
    BY <2>1 DEF Ancestors
  <2> QED
    BY <1>1, <2>2 DEF InStep, IsFilesystem, WellFormed
<1> QED
  BY <1>1, <1>2, <1>3
\* copyFromTreeAndFilesystem from a scanned directory.
LEMMA CopyInStep ==
    ASSUME NEW fs, NEW t, InStep(fs, t), NEW sfs, IsFilesystem(sfs), NEW h \in BOOLEAN,
           NEW p \in Path, CopySucceeds(t, ScanDirectory(sfs, h), p)
    PROVE  LET u == CopyFromTree(t, ScanDirectory(sfs, h), p)
           IN  InStep(CopyFromFilesystem(fs, sfs, u, p), u)
<1> DEFINE s == ScanDirectory(sfs, h)
           u == CopyFromTree(t, s, p)
           copied == Subtree(p) \cap DOMAIN sfs
           g == [q \in DOMAIN fs \cup copied |->
                    IF q \in copied THEN CopyEntry(sfs[q], u.node[q]) ELSE fs[q]]
<1>1. /\ IsTree(s) /\ s.index = DOMAIN sfs /\ DOMAIN s.node = DOMAIN sfs
      /\ \A q \in DOMAIN sfs : s.node[q] = FromFilesystem(sfs[q], h)
  BY ScanDirectoryType DEF ScanDirectory
<1>2. HasPlaceFor(t, p)
  BY DEF CopySucceeds
<1> HIDE DEF s
<1>3. IsTree(u)
  BY <1>1, CopyFromTreeType DEF InStep
<1>4. /\ DOMAIN u.node = DOMAIN fs \cup copied
      /\ \A q \in copied : u.node[q] = FromFilesystem(sfs[q], h)
      /\ \A q \in DOMAIN fs : q \notin copied => u.node[q] = t.node[q]
  BY <1>1 DEF CopyFromTree, InStep, Mirrors
<1> HIDE DEF u
<1>5. \A q \in copied : /\ q \in Path
                        /\ CopyEntry(sfs[q], u.node[q]) \in Entry
                        /\ CopyEntry(sfs[q], u.node[q]).ty = sfs[q].ty
                        /\ MirrorsEntry(CopyEntry(sfs[q], u.node[q]), u.node[q])
  BY <1>4, CopyEntryMirrors DEF IsFilesystem, IsPathMap
<1>6. IsPathMap(g, Entry)
  BY <1>5 DEF IsPathMap, InStep, IsFilesystem
<1>7. WellFormed(g)
  <2> SUFFICES ASSUME NEW q \in DOMAIN fs \cup copied, NEW r \in Ancestors[q]
               PROVE  r \in DOMAIN g /\ g[r].ty = "directory"
    BY Zenon DEF WellFormed
  <2>0. \A a \in DOMAIN fs : a \notin copied
    BY <1>2, HasPlaceAncestors
  <2>1. CASE q \in DOMAIN fs
    <3>1. r \in DOMAIN fs /\ fs[r].ty = "directory"
      BY <2>1 DEF InStep, IsFilesystem, WellFormed
    <3> QED
      BY <2>0, <3>1
  <2>2. CASE q \in copied
    <3>1. r \in Subtree(p) \/ r \in Ancestors[p]
      BY <2>2, SubtreeAncestors
    <3>2. CASE r \in Ancestors[p]
      BY <1>2, <2>0, <3>2, HasPlaceAncestors
    <3>3. CASE r \in Subtree(p)
      <4>1. r \in DOMAIN sfs /\ sfs[r].ty = "directory"
        BY <2>2 DEF IsFilesystem, WellFormed
      <4> QED
        BY <1>5, <3>3, <4>1
    <3> QED
      BY <3>1, <3>2, <3>3
  <2> QED
    BY <2>1, <2>2
<1>8. Mirrors(g, u)
  BY <1>4, <1>5 DEF Mirrors, InStep
<1>9. InStep(g, u)
  BY <1>3, <1>6, <1>7, <1>8 DEF InStep, IsFilesystem
<1> HIDE DEF g
<1>10. InStep(FixupParentMtime(Touch(g, Parent(p)), u, Parent(p)), u)
  BY <1>9, FixupParentMtimeInStep
<1>11. CopyFromFilesystem(fs, sfs, u, p) = FixupParentMtime(Touch(g, Parent(p)), u, Parent(p))
  BY DEF CopyFromFilesystem, g
<1> QED
  BY <1>10, <1>11 DEF u, s

\* addSymlinkToTreeAndFilesystem.
LEMMA AddSymlinkInStep ==
    ASSUME NEW fs, NEW t, InStep(fs, t), NEW p \in Path, HasPlaceFor(t, p),
           NEW e \in Element, e.ty = "symlink"
    PROVE  LET u == AddSymlinkToTree(t, p, e)
           IN  InStep(AddSymlinkToFilesystem(fs, u, p, e), u)
<1> DEFINE u == AddSymlinkToTree(t, p, e)
           link == [ty |-> "symlink", perm |-> SymlinkPerm, owner |-> Self,
                    mtime |-> e.mtime, data |-> e.symlink]
           owned == Chown(link, e.owner)
           g == [q \in DOMAIN fs \cup {p} |-> IF q = p THEN owned ELSE fs[q]]
<1>1. IsTree(u)
  BY AddSymlinkToTreeType DEF InStep
<1>2. /\ DOMAIN u.node = DOMAIN fs \cup {p} /\ u.node[p] = e
      /\ \A q \in DOMAIN fs : q # p => u.node[q] = t.node[q]
  BY DEF AddSymlinkToTree, InStep, IsTree, Mirrors
<1> HIDE DEF u
<1>3. link \in Entry
  BY KernelAssumption DEF Entry, Element, Perm, SymlinkPerm, FileType
<1>4. owned \in Entry /\ MirrorsEntry(owned, e)
  <2>1. e.owner \in Owner /\ e.size = 0
    BY DEF Element
  <2>2. link.ty = "symlink" /\ link.perm = SymlinkPerm /\ link.mtime = e.mtime
        /\ link.data = e.symlink
    OBVIOUS
  <2> HIDE DEF link
  <2>3. /\ owned \in Entry /\ owned.ty = link.ty /\ owned.mtime = link.mtime
        /\ owned.data = link.data /\ owned.perm % 512 = link.perm % 512
        /\ Privileged => owned.owner = e.owner
    BY <1>3, <2>1, ChownEntry
  <2> HIDE DEF owned
  <2> QED
    BY <2>1, <2>2, <2>3, MirrorsEntryFields
<1>5. AddSymlinkToFilesystem(fs, u, p, e)
        = FixupParentMtime(Touch(g, Parent(p)), u, Parent(p))
  BY DEF AddSymlinkToFilesystem
<1> HIDE DEF owned
<1>6. IsPathMap(g, Entry)
  BY <1>4 DEF IsPathMap, InStep, IsFilesystem
<1>7. WellFormed(g)
  <2> SUFFICES ASSUME NEW q \in DOMAIN fs \cup {p}, NEW r \in Ancestors[q]
               PROVE  r \in DOMAIN g /\ g[r].ty = "directory"
    BY DEF WellFormed
  <2>1. r \in DOMAIN fs /\ fs[r].ty = "directory"
    BY HasPlaceAncestors DEF InStep, IsFilesystem, WellFormed
  <2> QED
    BY <2>1, HasPlaceAncestors
<1>8. Mirrors(g, u)
  BY <1>2, <1>4 DEF Mirrors, InStep
<1>9. InStep(g, u)
  BY <1>1, <1>6, <1>7, <1>8 DEF InStep, IsFilesystem
<1> HIDE DEF g
<1>10. InStep(FixupParentMtime(Touch(g, Parent(p)), u, Parent(p)), u)
  BY <1>9, FixupParentMtimeInStep
<1> QED
  BY <1>5, <1>10 DEF u
\* The modify functions on one entry and its element.
LEMMA ModifyEntryMirrors ==
    ASSUME NEW entry \in Entry, NEW e \in Element, MirrorsEntry(entry, e),
           NEW new \in Element, NEW old \in Element
    PROVE  /\ ModifyEntry(entry, new, old) \in Entry
           /\ ModifyEntry(entry, new, old).ty = entry.ty
           /\ MirrorsEntry(ModifyEntry(entry, new, old), ModifyElement(e, new, old))
<1> DEFINE c == [entry EXCEPT !.perm = IF new.perm # old.perm /\ entry.ty # "symlink"
                                       THEN new.perm ELSE entry.perm]
           o == IF new.owner # old.owner THEN Chown(c, new.owner) ELSE c
           n == [o EXCEPT !.mtime = IF new.mtime # old.mtime THEN new.mtime ELSE o.mtime]
           m == ModifyElement(e, new, old)
<1>1. m \in Element
  BY ModifyElementType
<1>2. /\ m.ty = e.ty /\ m.size = e.size /\ m.hash = e.hash /\ m.symlink = e.symlink
      /\ m.perm = IF new.perm # old.perm THEN new.perm ELSE e.perm
      /\ m.owner = IF new.owner # old.owner THEN new.owner ELSE e.owner
      /\ m.mtime = IF new.mtime # old.mtime THEN new.mtime ELSE e.mtime
  BY DEF ModifyElement, Element
<1>3. ModifyEntry(entry, new, old) = n
  BY DEF ModifyEntry
<1>4. /\ entry.ty = e.ty
      /\ entry.ty # "symlink" => entry.perm % 512 = e.perm % 512
      /\ Privileged => entry.owner = e.owner
      /\ entry.mtime = e.mtime
      /\ (IF entry.ty = "regular" THEN SizeOf[entry.data] ELSE 0) = e.size
      /\ entry.ty = "regular" => e.hash \in {entry.data, None}
      /\ (IF entry.ty = "symlink" THEN entry.data ELSE None) = e.symlink
  BY MirrorsEntryFields
<1>5. /\ c \in Entry /\ c.ty = entry.ty /\ c.data = entry.data /\ c.mtime = entry.mtime
      /\ c.owner = entry.owner
      /\ entry.ty # "symlink" => c.perm % 512 = m.perm % 512
  <2>1. c.perm = IF new.perm # old.perm /\ entry.ty # "symlink"
                 THEN new.perm ELSE entry.perm
    BY DEF Entry
  <2>2. entry.ty # "symlink" => c.perm % 512 = m.perm % 512
    BY <1>2, <1>4, <2>1
  <2>3. new.perm \in Perm
    BY DEF Element
  <2> QED
    BY <2>2, <2>3 DEF Entry
<1> HIDE DEF c
<1>6. /\ o \in Entry /\ o.ty = entry.ty /\ o.data = entry.data /\ o.mtime = entry.mtime
      /\ entry.ty # "symlink" => o.perm % 512 = m.perm % 512
      /\ Privileged => o.owner = m.owner
  <2>1. new.owner \in Owner
    BY DEF Element
  <2> QED
    BY <1>2, <1>4, <1>5, <2>1, ChownEntry
<1> HIDE DEF o
<1>7. new.mtime \in Int
  BY DEF Element
<1>8. /\ n \in Entry /\ n.ty = entry.ty /\ n.data = entry.data /\ n.mtime = m.mtime
      /\ n.perm = o.perm /\ n.owner = o.owner
  BY <1>2, <1>4, <1>6, <1>7 DEF Entry
<1> HIDE DEF n, m
<1>9. MirrorsEntry(n, m)
  BY <1>1, <1>2, <1>4, <1>6, <1>8, MirrorsEntryFields
<1> QED
  BY <1>3, <1>8, <1>9 DEF m

\* modifyPermissions-, modifyOwner- and modifyMtimeInTreeAndFilesystem.
LEMMA ModifyInStep ==
    ASSUME NEW fs, NEW t, InStep(fs, t), NEW p \in Path,
           NEW new \in Element, NEW old \in Element
    PROVE  LET u == ModifyInTree(t, p, new, old)
           IN  InStep(ModifyInFilesystem(fs, u, p, new, old), u)
<1> DEFINE u == ModifyInTree(t, p, new, old)
           n == ModifyEntry(fs[p], new, old)
           g == [fs EXCEPT ![p] = n]
<1>1. /\ IsTree(u) /\ DOMAIN u.node = DOMAIN t.node
      /\ \A q \in DOMAIN t.node :
            u.node[q] = IF q = p THEN ModifyElement(t.node[p], new, old) ELSE t.node[q]
  BY ModifyInTreeType DEF InStep
<1> HIDE DEF u
<1>2. p \in DOMAIN fs => /\ n \in Entry /\ n.ty = fs[p].ty
                         /\ MirrorsEntry(n, ModifyElement(t.node[p], new, old))
  BY InStepEntries, ModifyEntryMirrors
<1>3. ModifyInFilesystem(fs, u, p, new, old) \in {g, FixupParentMtime(g, u, Parent(p))}
  BY DEF ModifyInFilesystem
<1> HIDE DEF n
<1>4. IsPathMap(g, Entry)
  BY <1>2, Zenon DEF IsPathMap, InStep, IsFilesystem
<1>5. DOMAIN g = DOMAIN fs /\ \A q \in DOMAIN fs : g[q] = IF q = p THEN n ELSE fs[q]
  BY DEF InStep, IsFilesystem, IsPathMap
<1> HIDE DEF g
<1>6. WellFormed(g)
  BY <1>2, <1>5 DEF WellFormed, InStep, IsFilesystem
<1>7. Mirrors(g, u)
  BY <1>1, <1>2, <1>5 DEF Mirrors, InStep
<1>8. InStep(g, u)
  BY <1>1, <1>4, <1>6, <1>7 DEF InStep, IsFilesystem
<1>9. InStep(FixupParentMtime(g, u, Parent(p)), u)
  BY <1>8, FixupParentMtimeInStep
<1> QED
  BY <1>3, <1>8, <1>9 DEF u

-----------------------------------------------------------------------------
(* Lines of a diff *)

\* At q, and on the way down to q, diff sees the same in the trees t and u
SameAt(t, u, q) ==
    /\ \A r \in Ancestors[q] : IsDirectoryIn(t, r) = IsDirectoryIn(u, r)
    /\ Search(t, q) = Search(u, q)
    /\ (q \in DOMAIN t.node) = (q \in DOMAIN u.node)
    /\ (q \in t.index) = (q \in u.index)

SameOutside(t, u, p) == \A q \in Path \ Subtree(p) : SameAt(t, u, q)

\* A line is its path with what search finds there.
LEMMA DiffLines ==
    ASSUME NEW ts, NEW o, NEW d \in Diff(ts, o)
    PROVE  d = Line(ts, d.path) /\ d.path \in Visited(ts) /\ IsDifference(ts, d.path, o)
           /\ d.path \in Path
BY DEF Diff, Line, Visited

\* diff decides about q by what it sees at q.
LEMMA SameLine ==
    ASSUME NEW ts, NEW us, NEW o, DOMAIN ts = DOMAIN us, NEW q \in Path,
           \A i \in DOMAIN ts : SameAt(ts[i], us[i], q),
           Line(ts, q) \in Diff(ts, o)
    PROVE  Line(ts, q) \in Diff(us, o)
<1>1. q \in Visited(ts) /\ IsDifference(ts, q, o)
  BY DiffLines DEF Line
<1>2. Walked(us, q) = Walked(ts, q)
  BY DEF Walked, SameAt
<1>3. Line(us, q) = Line(ts, q)
  BY DEF Line, SameAt
<1>4. q \in Visited(us)
  BY <1>1, <1>2 DEF Visited, SameAt, Walked
<1>5. IsDifference(us, q, o)
  <2>1. \A i \in Walked(ts, q) : i \in DOMAIN ts
    BY DEF Walked
  <2> QED
    BY <1>1, <1>2, <2>1 DEF IsDifference, NextWalked, SameAt
<1> QED
  BY <1>3, <1>4, <1>5 DEF Diff

\* The walk goes below p only if p is a directory in two of the trees.
LEMMA LineOutside ==
    ASSUME NEW ts, NEW o, NEW m \in Diff(ts, o), NEW p \in Path, m.path # p,
           \A i, j \in DOMAIN ts :
               IsDirectoryIn(ts[i], p) /\ IsDirectoryIn(ts[j], p) => i = j
    PROVE  m.path \notin Subtree(p)
<1>1. m.path \in Path /\ m.path \in Visited(ts)
  BY DiffLines
<1>2. PICK i, j \in Walked(ts, m.path) : i # j
  BY <1>1 DEF Visited
<1>3. p \notin Ancestors[m.path]
  BY <1>2 DEF Walked
<1> QED
  BY <1>1, <1>3 DEF Subtree, Ancestors

\* The lines left after one was handled, when what was modified is at or below
\* its path, which is not a directory in two of the trees.
LEMMA LinesKept ==
    ASSUME NEW ts, NEW us, NEW o, DOMAIN ts = DOMAIN us,
           NEW lines \in SUBSET Diff(ts, o), NEW d \in lines,
           \A i \in DOMAIN ts : SameOutside(ts[i], us[i], d.path),
           \A i, j \in DOMAIN ts :
               IsDirectoryIn(ts[i], d.path) /\ IsDirectoryIn(ts[j], d.path) => i = j
    PROVE  lines \ {d} \subseteq Diff(us, o)
<1> SUFFICES ASSUME NEW m \in lines, m # d
             PROVE  m \in Diff(us, o)
  OBVIOUS
<1>1. m = Line(ts, m.path) /\ d = Line(ts, d.path) /\ m.path \in Path /\ d.path \in Path
  BY DiffLines
<1>2. m.path # d.path
  BY <1>1
<1>3. m.path \notin Subtree(d.path)
  BY <1>1, <1>2, LineOutside
<1>4. \A i \in DOMAIN ts : SameAt(ts[i], us[i], m.path)
  BY <1>1, <1>3 DEF SameOutside
<1> QED
  BY <1>1, <1>4, SameLine

\* The lines left after one was handled, when nothing but the element at its
\* path was modified, and not its type.
LEMMA LinesKeptByModify ==
    ASSUME NEW ts, NEW us, NEW o, DOMAIN ts = DOMAIN us,
           NEW lines \in SUBSET Diff(ts, o), NEW d \in lines,
           \A i \in DOMAIN ts : \A q \in Path \ {d.path} : SameAt(ts[i], us[i], q)
    PROVE  lines \ {d} \subseteq Diff(us, o)
<1> SUFFICES ASSUME NEW m \in lines, m # d
             PROVE  m \in Diff(us, o)
  OBVIOUS
<1>1. m = Line(ts, m.path) /\ d = Line(ts, d.path) /\ m.path \in Path
  BY DiffLines
<1>2. m.path # d.path
  BY <1>1
<1> QED
  BY <1>1, <1>2, SameLine

\* A tree that is not modified is the same everywhere.
LEMMA SameReflexive ==
    ASSUME NEW t, NEW p
    PROVE  SameOutside(t, t, p) /\ \A q \in Path : SameAt(t, t, q)
BY DEF SameOutside, SameAt

\* What two operations at p leave the same, they leave the same together.
LEMMA SameTransitive ==
    ASSUME NEW t, NEW u, NEW v, NEW p, SameOutside(t, u, p), SameOutside(u, v, p)
    PROVE  SameOutside(t, v, p)
BY DEF SameOutside, SameAt

\* removeFromTree leaves all the same but what is at or below its path.
LEMMA RemoveSame ==
    ASSUME NEW t, IsTree(t), NEW p \in Path
    PROVE  SameOutside(t, RemoveFromTree(t, p), p)
<1> SUFFICES ASSUME NEW q \in Path, q \notin Subtree(p)
             PROVE  SameAt(t, RemoveFromTree(t, p), q)
  BY DEF SameOutside
<1> QED
  BY OutsideAncestors DEF SameAt, RemoveFromTree, IsDirectoryIn, Search, IsTree

\* So does copyFromTree.
LEMMA CopySame ==
    ASSUME NEW t, IsTree(t), NEW s, NEW p \in Path
    PROVE  SameOutside(t, CopyFromTree(t, s, p), p)
<1> SUFFICES ASSUME NEW q \in Path, q \notin Subtree(p)
             PROVE  SameAt(t, CopyFromTree(t, s, p), q)
  BY DEF SameOutside
<1> QED
  BY OutsideAncestors DEF SameAt, CopyFromTree, IsDirectoryIn, Search, IsTree

\* So do removeFromTree and copyFromTree in turn.
LEMMA ReplaceSame ==
    ASSUME NEW t, IsTree(t), NEW s, NEW p \in Path
    PROVE  SameOutside(t, ReplaceInTree(t, s, p), p)
BY RemoveFromTreeType, RemoveSame, CopySame, SameTransitive DEF ReplaceInTree

\* So does addSymlinkToTree.
LEMMA AddSymlinkSame ==
    ASSUME NEW t, IsTree(t), NEW p \in Path, NEW e
    PROVE  SameOutside(t, AddSymlinkToTree(t, p, e), p)
<1> SUFFICES ASSUME NEW q \in Path, q \notin Subtree(p)
             PROVE  SameAt(t, AddSymlinkToTree(t, p, e), q)
  BY DEF SameOutside
<1>1. q # p /\ \A r \in Ancestors[q] : r # p
  BY OutsideAncestors DEF Subtree
<1>2. AddSymlinkToTree(t, p, e) =
        [node |-> [r \in DOMAIN t.node \cup {p} |-> IF r = p THEN e ELSE t.node[r]],
         index |-> t.index]
  BY DEF AddSymlinkToTree, IsTree
<1> QED
  BY <1>1, <1>2 DEF SameAt, IsDirectoryIn, Search, IsTree

\* The modify functions leave all the same but the element at their path.
LEMMA ModifySame ==
    ASSUME NEW t, IsTree(t), NEW p \in Path, NEW new \in Element, NEW old \in Element
    PROVE  \A q \in Path \ {p} : SameAt(t, ModifyInTree(t, p, new, old), q)
<1> DEFINE u == ModifyInTree(t, p, new, old)
<1> SUFFICES ASSUME NEW q \in Path \ {p}
             PROVE  SameAt(t, u, q)
  OBVIOUS
<1> DEFINE m == ModifyElement(t.node[p], new, old)
<1>1. /\ u.index = t.index /\ DOMAIN u.node = DOMAIN t.node
      /\ \A r \in DOMAIN t.node : u.node[r] = IF r = p THEN m ELSE t.node[r]
  BY ModifyInTreeType
<1>2. p \in DOMAIN t.node => m.ty = t.node[p].ty
  BY ModifyElementType DEF IsTree, IsPathMap
<1> HIDE DEF m
<1>3. /\ u.index = t.index /\ DOMAIN u.node = DOMAIN t.node
      /\ \A r \in DOMAIN t.node : r # p => u.node[r] = t.node[r]
      /\ p \in DOMAIN t.node => u.node[p].ty = t.node[p].ty
  BY <1>1, <1>2
<1> HIDE DEF u
<1> QED
  BY <1>3 DEF SameAt, IsDirectoryIn, Search, IsTree

=============================================================================
