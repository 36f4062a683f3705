---------------------------- MODULE MetadataFile ----------------------------
(***************************************************************************)
(* The content lists of DirectoryTree and the metadata files written from  *)
(* them: the part of core.cpp that module DirectoryTree abstracts from.    *)
(*                                                                         *)
(* Every DirectoryNode holds the list of the nodes in it.  Here the lists  *)
(* of a tree are the function content, from the paths of directories (and  *)
(* TopLevel, for topContent) to sequences of paths; node and index are     *)
(* those of DirectoryTree.  A metadata file is a sequence of lines, a line *)
(* a sequence of the fields that the stream operators read and write; an   *)
(* empty sequence is the blank line between two directories.               *)
(*                                                                         *)
(* An owner, "us gs" in the code, is the sequence of the words it has when *)
(* printed: two, unless a name contains spaces.                            *)
(***************************************************************************)
EXTENDS DirectoryTree, SequencesExt

CONSTANTS
    Rank,          \* the alphabetical order of names
    Multiline,     \* the names that contain a newline
    Directories,   \* directories that are scanned, and copied from
    Links,         \* symbolic links that are restored from metadata
    MaxChanges     \* a bound on the number of operations on the tree

VARIABLES
    tree,     \* the DirectoryTree of a process, None when there is no process
    file,     \* its metadata file
    complete, \* whether the last process to write it came to the end
    thrown,   \* whether the last readFrom threw an exception
    changes   \* the number of operations on the tree so far

vars == <<tree, file, complete, thrown, changes>>

ASSUME FileAssumption ==
    /\ \A o \in Owner : o \in Seq(STRING) /\ Len(o) >= 2
    /\ Rank \in [Name -> Nat] /\ Multiline \subseteq Name
    /\ \A fs \in Directories : IsFilesystem(fs)
    /\ \A e \in Links : e \in Element /\ e.ty = "symlink"
    /\ MaxChanges \in Nat

-----------------------------------------------------------------------------
(* Content lists *)

EmptyLists == [node |-> << >>, index |-> {}, content |-> TopLevel :> << >>]

\* The tree as the other modules see it
AsTree(t) == IF t = None THEN None ELSE [node |-> t.node, index |-> t.index]

\* getDirectoryContent; topContent for the empty path
Listed(content, p) == IF p \in DOMAIN content THEN content[p] ELSE << >>

Content(t, p) == Listed(t.content, p)

\* operator<: alphabetically, but directories first
Less(node, p, q) ==
    IF (node[p].ty = "directory") = (node[q].ty = "directory")
    THEN Rank[Last(p)] < Rank[Last(q)]
    ELSE node[p].ty = "directory"

\* list::sort
Sorted(node, paths) == SortSeq(paths, LAMBDA p, q : Less(node, p, q))

\* The lists of the directories in P and of the top level: sorted, each with
\* the nodes that are directly in it
SortedLists(node, P) ==
    [q \in {p \in P : node[p].ty = "directory"} |->
        Sorted(node, SetToSeq({p \in DOMAIN node : Parent(p) = q}))]

\* scanDirectory and recursiveBuildFromPath: directory_iterator returns the
\* entries in any order, nodes.sort() puts them in order
ScanLists(fs) ==
    LET t == ScanDirectory(fs, TRUE)
    IN  [node |-> t.node, index |-> t.index,
         content |-> SortedLists(t.node, DOMAIN t.node) @@
             TopLevel :> Sorted(t.node, SetToSeq({p \in DOMAIN fs : Parent(p) = TopLevel}))]

\* The list of the new node's parent is not sorted again.
MutAddToContent(content, node, p) ==
    Parent(p) :> Append(Listed(content, Parent(p)), p) @@ content

\* push_back and sort, of addToDirectoryContent, treeCopy and addSymlinkToTree
AddToContent(content, node, p) ==
    Parent(p) :> Sorted(node, Append(Listed(content, Parent(p)), p)) @@ content

\* treeCopy, with recursiveAdd and recursiveAddToIndex
TreeCopy(t, srcLists, p) ==
    LET copied == CopyFromTree(AsTree(t), AsTree(srcLists), p)
        below  == SortedLists(srcLists.node, Subtree(p) \cap DOMAIN srcLists.node)
    IN  [node |-> copied.node, index |-> copied.index,
         content |-> AddToContent(below @@ t.content, copied.node, p)]

\* removeFromTree: remove_if on the list of the parent
RemoveLists(t, p) ==
    LET removed == RemoveFromTree(AsTree(t), p)
    IN  [node |-> removed.node, index |-> removed.index,
         content |-> [q \in DOMAIN t.content \ Subtree(p) |->
                         IF q = Parent(p) THEN SelectSeq(t.content[q], LAMBDA n : n # p)
                         ELSE t.content[q]]]

\* addSymlinkToTree
AddSymlinkLists(t, p, e) ==
    LET added == AddSymlinkToTree(AsTree(t), p, e)
    IN  [node |-> added.node, index |-> added.index,
         content |-> AddToContent(t.content, added.node, p)]

-----------------------------------------------------------------------------
(* FilesystemElement::writeTo and readFrom *)

Field(kind, value) == [kind |-> kind, value |-> value]

\* What a process that is stopped leaves of a field, and what a newline leaves
\* of a path on either side
Part == Field("part", None)

\* The lines that the element of path p is printed on.  std::quoted protects
\* the spaces in a path and not the newlines.
WriteLines(p, e) ==
    LET fields == << Field("perm", [ty |-> e.ty, perm |-> e.perm % 512]) >>
                  \o [i \in DOMAIN e.owner |-> Field("word", e.owner[i])]
                  \o << Field("mtime", e.mtime) >>
                  \o CASE e.ty = "regular" -> << Field("size", e.size), Field("hash", e.hash) >>
                       [] e.ty = "symlink" -> << Field("target", e.symlink) >>
                       [] e.ty = "directory" -> << >>
    IN  IF \E i \in DOMAIN p : p[i] \in Multiline
        THEN << Append(fields, Part), << Part >> >>
        ELSE << Append(fields, Field("path", p)) >>

\* The fields that readFrom reads, one after the other and then end of line
Expected(ty) ==
    << "perm", "word", "word", "mtime" >>
    \o (CASE ty = "regular" -> << "size", "hash" >>
          [] ty = "symlink" -> << "target" >>
          [] ty = "directory" -> << >>)
    \o << "path" >>

\* readFrom throws no exception; -1 is what timegm returns on errors
ReadableLine(line) ==
    /\ line[1].kind = "perm"
    /\ [i \in DOMAIN line |-> line[i].kind] = Expected(line[1].value.ty)
    /\ line[4].value # -1

ReadElement(line) ==
    LET ty == line[1].value.ty
    IN  [ty |-> ty, perm |-> line[1].value.perm,
         owner |-> << line[2].value, line[3].value >>, mtime |-> line[4].value,
         size    |-> IF ty = "regular" THEN line[5].value ELSE 0,
         hash    |-> IF ty = "regular" THEN line[6].value ELSE None,
         symlink |-> IF ty = "symlink" THEN line[5].value ELSE None]

-----------------------------------------------------------------------------
(* DirectoryTree::writeTo and recursiveWrite *)

\* The blank line is due after an empty list and not after any other.
MutPrinted(t, paths, s) ==
    LET lines == FlattenSeq([i \in DOMAIN paths |-> WriteLines(paths[i], t.node[paths[i]])])
    IN  [out |-> (IF s.printBreak THEN Append(s.out, << >>) ELSE s.out) \o lines,
         printBreak |-> paths = << >>]

\* The blank line, if due, and the elements of one list
Printed(t, paths, s) ==
    LET lines == FlattenSeq([i \in DOMAIN paths |-> WriteLines(paths[i], t.node[paths[i]])])
    IN  [out |-> (IF s.printBreak THEN Append(s.out, << >>) ELSE s.out) \o lines,
         printBreak |-> paths # << >>]

\* The loop stops at the first node that is not a directory
LeadingDirectories(t, paths) ==
    LET first == SelectInSeq(paths, LAMBDA p : t.node[p].ty # "directory")
    IN  IF first = 0 THEN paths ELSE SubSeq(paths, 1, first - 1)

RECURSIVE RecursiveWrite(_, _, _)
RecursiveWrite(t, paths, s) ==
    FoldLeft(LAMBDA r, p : RecursiveWrite(t, Content(t, p), r),
             Printed(t, paths, s), LeadingDirectories(t, paths))

WriteFile(t) ==
    RecursiveWrite(t, Content(t, TopLevel), [out |-> << >>, printBreak |-> FALSE]).out

-----------------------------------------------------------------------------
(* DirectoryTree::readFrom *)

\* The tests of the lambda add, and the assertion of setDirectoryContent: the
\* lines between two blank lines are of one directory, which was in an earlier
\* group and whose content was not
GroupOK(r, dir) ==
    /\ \A i \in DOMAIN r.nodes : Parent(r.nodes[i].path) = dir
    /\ \A i, j \in DOMAIN r.nodes : i # j => r.nodes[i].path # r.nodes[j].path
    /\ \A i \in DOMAIN r.nodes : r.nodes[i].path \notin r.tree.index
    /\ IF Content(r.tree, TopLevel) = << >> THEN dir = TopLevel
       ELSE IsDirectoryIn(r.tree, dir) /\ Content(r.tree, dir) = << >>

AddGroup(r) ==
    LET dir   == Parent(r.nodes[1].path)
        paths == [i \in DOMAIN r.nodes |-> r.nodes[i].path]
        at(p) == CHOOSE i \in DOMAIN paths : paths[i] = p
    IN  IF r.nodes = << >> THEN r
        ELSE IF ~GroupOK(r, dir) THEN [r EXCEPT !.thrown = TRUE]
        ELSE [nodes |-> << >>, thrown |-> FALSE,
              tree |-> [node    |-> [p \in Range(paths) |-> r.nodes[at(p)].e] @@ r.tree.node,
                        index   |-> r.tree.index \cup Range(paths),
                        content |-> dir :> paths @@ r.tree.content]]

\* One turn of the getline loop
ReadLine(r, line) ==
    IF r.thrown THEN r
    ELSE IF line = << >> THEN AddGroup(r)
    ELSE IF ~ReadableLine(line) THEN [r EXCEPT !.thrown = TRUE]
    ELSE [r EXCEPT !.nodes = Append(@, [path |-> Last(line).value, e |-> ReadElement(line)])]

ReadFile(lines) ==
    LET r == FoldLeft(ReadLine, [nodes |-> << >>, tree |-> EmptyLists, thrown |-> FALSE], lines)
    IN  IF r.thrown THEN r ELSE AddGroup(r)

-----------------------------------------------------------------------------
(* The operations *)

Init ==
    /\ \E fs \in Directories : tree = ScanLists(fs)
    /\ file = << >>
    /\ complete = TRUE
    /\ thrown = FALSE
    /\ changes = 0

Changes(t) ==
    /\ tree' = t
    /\ changes' = changes + 1
    /\ UNCHANGED <<file, complete, thrown>>

Copy ==
    \E fs \in Directories, p \in Path :
        LET srcLists == ScanLists(fs)
        IN  /\ CopySucceeds(AsTree(tree), AsTree(srcLists), p)
            /\ Changes(TreeCopy(tree, srcLists, p))

RemoveNode ==
    \E p \in Path : RemoveSucceeds(AsTree(tree), p) /\ Changes(RemoveLists(tree, p))

AddSymlink ==
    \E p \in Path, e \in Links :
        HasPlaceFor(AsTree(tree), p) /\ Changes(AddSymlinkLists(tree, p, e))

Change == tree # None /\ changes < MaxChanges /\ (Copy \/ RemoveNode \/ AddSymlink)

\* The end of a process that saves its tree
Write ==
    /\ tree # None
    /\ file' = WriteFile(tree) /\ complete' = TRUE
    /\ tree' = None
    /\ UNCHANGED <<thrown, changes>>

\* What may be left of a file: some lines, and a part of the next
Cuts(lines) ==
    {SubSeq(lines, 1, n) : n \in 0 .. Len(lines)}
    \cup
    UNION {{Append(SubSeq(lines, 1, n - 1), SubSeq(lines[n], 1, k) \o part) :
               k \in 0 .. Len(lines[n]) - 1, part \in {<< >>, << Part >>}} :
           n \in DOMAIN lines}

\* External: the process is stopped while it writes
Interrupt ==
    /\ tree # None
    /\ file' \in Cuts(WriteFile(tree)) /\ complete' = FALSE
    /\ tree' = None
    /\ UNCHANGED <<thrown, changes>>

\* A new process reads the file.  When readFrom throws, the process ends.
Read ==
    LET r == ReadFile(file)
    IN  /\ tree = None
        /\ tree' = IF r.thrown THEN None ELSE r.tree
        /\ thrown' = r.thrown
        /\ UNCHANGED <<file, complete, changes>>

Next == Change \/ Write \/ Interrupt \/ Read

Spec == Init /\ [][Next]_vars

-----------------------------------------------------------------------------
(* Properties *)

\* The elements of the lines of a file, whatever their order and grouping
Described(lines) ==
    LET whole == {i \in DOMAIN lines : lines[i] # << >> /\ ReadableLine(lines[i])}
        at(p) == CHOOSE i \in whole : Last(lines[i]).value = p
    IN  [p \in {Last(lines[i]).value : i \in whole} |-> ReadElement(lines[at(p)])]

Store == INSTANCE TreeStore WITH tree <- AsTree(tree), saved <- Described(file)

\* The sorted lists, the blank lines and the early break of recursiveWrite, and
\* the grouping that readFrom checks, implement a tree that is saved whole and
\* loaded as it was saved, or in part when the process was stopped in writeTo.
ListsImplementTree == Store!Spec

\* A line was left unfinished at the end of the file
EndsInLine ==
    /\ file # << >> /\ Last(file) # << >>
    /\ Last(Last(file)).kind # "path"

\* "Error reading path", "Error reading hash", "different paths grouped", ... of
\* the two readFrom: they reject a file that ends in the middle of a line, and
\* no other file that writeTo wrote.  A file cut between two lines is accepted.
OnlyTornLinesAreRejected ==
    [][Read => (thrown' <=> EndsInLine)]_vars

\* Readme.md:23: "a printable form that the ddm tool cam produce as an output,
\* as well as accept as input".  A file that writeTo finished can be read.
WrittenFileLoads == thrown => ~complete

=============================================================================
