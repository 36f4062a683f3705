---------------------------- MODULE DirectoryTree ----------------------------
(***************************************************************************)
(* Class DirectoryTree of core.h and the directory on disk it mirrors.     *)
(*                                                                         *)
(* The class stores every entry twice: in the content lists of its         *)
(* DirectoryNodes and in a flat index from path to node.  A tree is        *)
(* therefore a record of two fields: node maps every path that is in a     *)
(* content list to its element, index is the set of paths the index knows. *)
(* The order of the content lists is not modelled here.                    *)
(*                                                                         *)
(* A directory on disk is a partial function from paths to entries.  The   *)
(* operations called "...InTreeAndFilesystem" in the code are a pair of    *)
(* operators, one on the tree and one on the disk.  As in the code the     *)
(* tree operation comes first, and the disk operation reads the new tree.  *)
(*                                                                         *)
(* All callers copy an entry to the place it has in the source tree, so    *)
(* the relativeDstPath parameter of the copy functions is always the       *)
(* parent of the path copied.                                              *)
(***************************************************************************)
EXTENDS FilesystemElement, Sequences

CONSTANTS
    Name,        \* file names
    Path,        \* relative paths: non-empty sequences of names
    Privileged,  \* whether lchown(2) is permitted
    Self,        \* the owner of what the process creates
    Now          \* the mtime the kernel gives to a directory it modifies

Parent(p) == SubSeq(p, 1, Len(p) - 1)

\* path::empty(): the parent of a top level entry
TopLevel == << >>

\* The paths strictly below p
Inside ==
    [p \in Path |-> {q \in Path : Len(q) > Len(p) /\ SubSeq(q, 1, Len(p)) = p}]

Subtree(p) == {p} \cup Inside[p]

Ancestors == [p \in Path |-> {q \in Path : p \in Inside[q]}]

ASSUME PathAssumption ==
    /\ Path \subseteq Seq(Name)
    /\ \A p \in Path : p # TopLevel /\ (Parent(p) = TopLevel \/ Parent(p) \in Path)

ASSUME KernelAssumption ==
    Privileged \in BOOLEAN /\ Self \in Owner /\ Now \in Int

\* f maps some of the paths to members of S
IsPathMap(f, S) == DOMAIN f \subseteq Path /\ f \in [DOMAIN f -> S]

\* Every entry is in directories all the way up
WellFormed(f) ==
    \A p \in DOMAIN f : \A q \in Ancestors[p] : q \in DOMAIN f /\ f[q].ty = "directory"

\* Directories on disk, the contents of metadata files, and trees
IsFilesystem(f) == IsPathMap(f, Entry) /\ WellFormed(f)

IsMetadata(f) == IsPathMap(f, Element) /\ WellFormed(f)

\* The index is of pointers into the content lists: none dangles
IsTree(t) ==
    /\ t = [node |-> t.node, index |-> t.index]
    /\ IsPathMap(t.node, Element)
    /\ t.index \subseteq DOMAIN t.node

EmptyTree == [node |-> << >>, index |-> {}]

-----------------------------------------------------------------------------
(* Construction and saving *)

\* scanDirectory and recursiveBuildFromPath
ScanDirectory(fs, computeHash) ==
    [node |-> [p \in DOMAIN fs |-> FromFilesystem(fs[p], computeHash)],
     index |-> DOMAIN fs]

\* readFrom of a file that writeTo wrote, up to the mtimes that do not parse
Readable(file) == \A p \in DOMAIN file : ReadableElement(file[p])

ReadFrom(file) == [node |-> file, index |-> DOMAIN file]

\* writeTo and recursiveWrite: what is printed are the content lists
WriteTo(t) == [p \in DOMAIN t.node |-> WriteElement(t.node[p])]

-----------------------------------------------------------------------------
(* Queries *)

\* search
Search(t, p) == IF p \in t.index THEN t.node[p] ELSE None

\* isDirectory() of the node the index has for p
IsDirectoryIn(t, p) == p \in t.index /\ t.node[p].ty = "directory"

-----------------------------------------------------------------------------
(* removeFromTree, treeCopy and addSymlinkToTree *)

\* searchNode finds p and its parent, recursiveRemoveFromIndex asserts that
\* what is below is indexed
RemoveSucceeds(t, p) ==
    /\ p \in t.index
    /\ Parent(p) = TopLevel \/ Parent(p) \in t.index
    /\ Inside[p] \cap DOMAIN t.node \subseteq t.index

\* recursiveRemoveFromIndex not called: the index keeps pointers to what is gone.
MutRemoveFromTree(t, p) ==
    [t EXCEPT !.node = [q \in DOMAIN t.node \ Subtree(p) |-> t.node[q]]]

RemoveFromTree(t, p) ==
    [node  |-> [q \in DOMAIN t.node \ Subtree(p) |-> t.node[q]],
     index |-> t.index \ Subtree(p)]

\* Where something can be added at p: the parent is an indexed directory,
\* and no node of its content list has the name already
HasPlaceFor(t, p) ==
    /\ Parent(p) = TopLevel \/ IsDirectoryIn(t, Parent(p))
    /\ p \notin DOMAIN t.node

CopySucceeds(t, srcTree, p) == p \in srcTree.index /\ HasPlaceFor(t, p)

\* recursiveAddToIndex not recursive: only the copied node is indexed.
MutCopyFromTree(t, srcTree, p) ==
    LET copied == Subtree(p) \cap DOMAIN srcTree.node
    IN  [node  |-> [q \in DOMAIN t.node \cup copied |->
                        IF q \in copied THEN srcTree.node[q] ELSE t.node[q]],
         index |-> t.index \cup {p}]

\* copyFromTree, that is treeCopy: the node with its content, and the index
CopyFromTree(t, srcTree, p) ==
    LET copied == Subtree(p) \cap DOMAIN srcTree.node
    IN  [node  |-> [q \in DOMAIN t.node \cup copied |->
                        IF q \in copied THEN srcTree.node[q] ELSE t.node[q]],
         index |-> t.index \cup copied]

\* removeFromTree of p followed by copyFromTree of p
ReplaceSucceeds(t, srcTree, p) ==
    RemoveSucceeds(t, p) /\ CopySucceeds(RemoveFromTree(t, p), srcTree, p)

ReplaceInTree(t, srcTree, p) == CopyFromTree(RemoveFromTree(t, p), srcTree, p)

\* addSymlinkToTree: the node joins its parent's content list, not the index
AddSymlinkToTree(t, p, e) ==
    [t EXCEPT !.node = [q \in DOMAIN t.node \cup {p} |->
                            IF q = p THEN e ELSE t.node[q]]]

\* The callers of the modify functions call each only where new and old, the
\* two elements they compare, differ in its field
ModifyElement(e, new, old) ==
    [e EXCEPT !.perm  = IF new.perm # old.perm THEN new.perm ELSE @,
              !.owner = IF new.owner # old.owner THEN new.owner ELSE @,
              !.mtime = IF new.mtime # old.mtime THEN new.mtime ELSE @]

\* modifyPermissionsInTree, modifyOwnerInTree and modifyMtimeInTree
ModifyInTree(t, p, new, old) == [t EXCEPT !.node[p] = ModifyElement(@, new, old)]

\* computeMissingHashes, on files found below the top path fs
CanComputeMissingHashes(t, fs) ==
    \A p \in DOMAIN t.node :
        t.node[p].ty = "regular" /\ t.node[p].hash = None
            => p \in DOMAIN fs /\ fs[p].ty = "regular"

ComputeMissingHashes(t, fs) ==
    [t EXCEPT !.node =
        [p \in DOMAIN t.node |->
            IF t.node[p].ty = "regular" /\ t.node[p].hash = None
            THEN [t.node[p] EXCEPT !.hash = HashFile(fs[p])]
            ELSE t.node[p]]]

-----------------------------------------------------------------------------
(* The same operations on the disk *)

\* External: changing the owner of what is not a directory clears the set-user-ID
\* bit and, where the group may execute, the set-group-ID bit
KillSetid(perm) ==
    LET q == perm % 2048
    IN  IF q >= 1024 /\ q % 16 >= 8 THEN q - 1024 ELSE q

\* ext_symlink_change_ownership: lchown(2), whose failure is only a warning
Chown(entry, owner) ==
    IF ~Privileged /\ owner # entry.owner THEN entry
    ELSE [entry EXCEPT !.owner = owner,
                       !.perm = IF entry.ty = "directory" THEN @ ELSE KillSetid(@)]

\* External: the kernel updates the mtime of a directory whose entries change
Touch(fs, dir) == IF dir \in DOMAIN fs THEN [fs EXCEPT ![dir].mtime = Now] ELSE fs

\* The parent keeps the mtime of the last change of its entries.
MutFixupParentMtime(fs, t, parent) == fs

\* fixupParentMtime
FixupParentMtime(fs, t, parent) ==
    IF parent = TopLevel THEN fs
    ELSE [fs EXCEPT ![parent].mtime = t.node[parent].mtime]

\* removeFromTreeAndFilesystem after removeFromTree has given t
RemoveFromFilesystem(fs, t, p) ==
    LET removed == [q \in DOMAIN fs \ Subtree(p) |-> fs[q]]
    IN  FixupParentMtime(Touch(removed, Parent(p)), t, Parent(p))

\* recursiveFilesystemCopy of one node: the bytes and, but for directories,
\* the mode come from the disk; the owner and the mtime from the tree
CopyEntry(entry, e) ==
    LET created == [entry EXCEPT !.perm = IF e.ty = "directory" THEN e.perm ELSE @,
                                 !.owner = Self]
    IN  [Chown(created, e.owner) EXCEPT !.mtime = e.mtime]

\* copyFromTreeAndFilesystem after treeCopy has given t
CopyFromFilesystem(fs, srcFs, t, p) ==
    LET copied == Subtree(p) \cap DOMAIN srcFs
        added  == [q \in DOMAIN fs \cup copied |->
                       IF q \in copied THEN CopyEntry(srcFs[q], t.node[q]) ELSE fs[q]]
    IN  FixupParentMtime(Touch(added, Parent(p)), t, Parent(p))

\* The mtime of the link is not set.
MutAddSymlinkToFilesystem(fs, t, p, e) ==
    LET link  == [ty |-> "symlink", perm |-> SymlinkPerm, owner |-> Self,
                  mtime |-> Now, data |-> e.symlink]
        added == [q \in DOMAIN fs \cup {p} |->
                      IF q = p THEN Chown(link, e.owner) ELSE fs[q]]
    IN  FixupParentMtime(Touch(added, Parent(p)), t, Parent(p))

\* addSymlinkToTreeAndFilesystem after addSymlinkToTree has given t
AddSymlinkToFilesystem(fs, t, p, e) ==
    LET link  == [ty |-> "symlink", perm |-> SymlinkPerm, owner |-> Self,
                  mtime |-> e.mtime, data |-> e.symlink]
        added == [q \in DOMAIN fs \cup {p} |->
                      IF q = p THEN Chown(link, e.owner) ELSE fs[q]]
    IN  FixupParentMtime(Touch(added, Parent(p)), t, Parent(p))

\* modifyPermissions-, modifyOwner- and modifyMtimeInTreeAndFilesystem after
\* the tree operations have given t.  chmod(2) follows symbolic links, so the
\* permissions of a link stay.
ModifyEntry(entry, new, old) ==
    LET chmod == [entry EXCEPT !.perm = IF new.perm # old.perm /\ entry.ty # "symlink"
                                        THEN new.perm ELSE @]
        chown == IF new.owner # old.owner THEN Chown(chmod, new.owner) ELSE chmod
    IN  [chown EXCEPT !.mtime = IF new.mtime # old.mtime THEN new.mtime ELSE @]

ModifyInFilesystem(fs, t, p, new, old) ==
    LET modified == [fs EXCEPT ![p] = ModifyEntry(@, new, old)]
    IN  IF new.perm # old.perm \/ new.owner # old.owner
        THEN FixupParentMtime(modified, t, Parent(p))
        ELSE modified

-----------------------------------------------------------------------------
(* What keeps the two in step *)

\* Owners are compared only when the process can set them
DiskOpt == [DefaultOpt EXCEPT !.owner = Privileged]

\* e is what a scan that hashes would show of entry, but for the permission bits
\* that changing the owner clears, and the meaningless ones of symbolic links
MirrorsEntry(entry, e) ==
    Compare(WriteElement(FromFilesystem(entry, TRUE)), WriteElement(e),
            [DiskOpt EXCEPT !.perm = entry.ty # "symlink"])

Mirrors(fs, t) ==
    /\ DOMAIN fs = DOMAIN t.node
    /\ \A p \in DOMAIN fs : MirrorsEntry(fs[p], t.node[p])

=============================================================================
