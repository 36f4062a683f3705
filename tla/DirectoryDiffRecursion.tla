----------------------- MODULE DirectoryDiffRecursion -----------------------
(***************************************************************************)
(* The recursion of diff2 and diff3 as core.cpp has it, level by level     *)
(* through the content lists.  A behaviour picks two or three trees and    *)
(* compares them; the result is compared with DirectoryDiff's definition   *)
(* and with what a diff is for.                                            *)
(***************************************************************************)
EXTENDS DirectoryDiff

CONSTANTS
    Trees,     \* the trees compared
    Options    \* the comparison options

VARIABLES ts, opt, lines

vars == <<ts, opt, lines>>

\* getDirectoryContent of the node of dir, getTreeRoot at top level
Content(t, dir) == {p \in DOMAIN t.node : Parent(p) = dir}

\* The loop over the second list is missing.
MutItemNames(a, b, dir) == Content(a, dir)

ItemNames(a, b, dir) == Content(a, dir) \cup Content(b, dir)

TwoLine(a, b, p) == [path |-> p, e |-> <<Search(a, p), Search(b, p)>>]

\* Descends into directories of either tree.
RECURSIVE MutCompare2(_, _, _, _)
MutCompare2(a, b, dir, o) ==
    LET itemNames == ItemNames(a, b, dir)
        inBoth == {p \in itemNames : p \in a.index /\ p \in b.index}
        result == {TwoLine(a, b, p) : p \in
                      (itemNames \ inBoth) \cup
                      {p \in inBoth : ~Compare(a.node[p], b.node[p], o)}}
        directories == {p \in itemNames : IsDirectoryIn(a, p) \/ IsDirectoryIn(b, p)}
    IN  result \cup UNION {MutCompare2(a, b, p, o) : p \in directories}

\* Diff2Helper::recursiveCompare
RECURSIVE Compare2(_, _, _, _)
Compare2(a, b, dir, o) ==
    LET itemNames == ItemNames(a, b, dir)
        inBoth == {p \in itemNames : p \in a.index /\ p \in b.index}
        result == {TwoLine(a, b, p) : p \in
                      (itemNames \ inBoth) \cup
                      {p \in inBoth : ~Compare(a.node[p], b.node[p], o)}}
        commonDirectories ==
            {p \in inBoth : a.node[p].ty = "directory" /\ b.node[p].ty = "directory"}
    IN  result \cup UNION {Compare2(a, b, p, o) : p \in commonDirectories}

\* Diff3Helper::recursiveCompare
RECURSIVE Compare3(_, _, _, _, _)
Compare3(a, b, c, dir, o) ==
    LET itemNames == ItemNames(a, b, dir) \cup Content(c, dir)
        inAll == {p \in itemNames : p \in a.index /\ p \in b.index /\ p \in c.index}
        differing == {p \in inAll : \/ ~Compare(a.node[p], b.node[p], o)
                                    \/ ~Compare(b.node[p], c.node[p], o)}
        result == {[path |-> p, e |-> <<Search(a, p), Search(b, p), Search(c, p)>>] :
                      p \in (itemNames \ inAll) \cup differing}
        Dirs(p) == {t \in {"a", "b", "c"} :
                      IsDirectoryIn(CASE t = "a" -> a [] t = "b" -> b [] t = "c" -> c, p)}
        Descend(p) ==
            CASE Dirs(p) = {"a", "b", "c"} -> Compare3(a, b, c, p, o)
              [] Dirs(p) = {"b", "c"} ->
                    {[path |-> r.path, e |-> <<None, r.e[1], r.e[2]>>] : r \in Compare2(b, c, p, o)}
              [] Dirs(p) = {"a", "c"} ->
                    {[path |-> r.path, e |-> <<r.e[1], None, r.e[2]>>] : r \in Compare2(a, c, p, o)}
              [] Dirs(p) = {"a", "b"} ->
                    {[path |-> r.path, e |-> <<r.e[1], r.e[2], None>>] : r \in Compare2(a, b, p, o)}
              [] OTHER -> {}
    IN  result \cup UNION {Descend(p) : p \in itemNames}

-----------------------------------------------------------------------------

Init == ts = << >> /\ opt \in Options /\ lines = {}

Diff2 ==
    /\ ts = << >>
    /\ \E a, b \in Trees :
          /\ ts' = <<a, b>>
          /\ lines' = Compare2(a, b, TopLevel, opt)
    /\ UNCHANGED opt

Diff3 ==
    /\ ts = << >>
    /\ \E a, b, c \in Trees :
          /\ ts' = <<a, b, c>>
          /\ lines' = Compare3(a, b, c, TopLevel, opt)
    /\ UNCHANGED opt

Compared == ts # << >> /\ UNCHANGED vars

Next == Diff2 \/ Diff3 \/ Compared

Spec == Init /\ [][Next]_vars

-----------------------------------------------------------------------------

\* The recursion of diff2 and diff3 computes what Diff defines, so that the
\* theorems and runs that use Diff are about the code's result: also when an
\* index lacks entries of the content lists.
RecursionComputesDiff == lines = Diff(ts, opt)

Elements(p) == {Search(ts[i], p) : i \in DOMAIN ts}

DiffersAt(p) ==
    /\ Elements(p) # {None}
    /\ \/ None \in Elements(p)
       \/ \E e, f \in Elements(p) : ~Compare(e, f, opt)

\* Pruning hides no difference: wherever two trees differ, diff2 and diff3
\* report the path or a directory it is in.
EveryDifferenceIsCovered ==
    \A p \in Path : DiffersAt(p) =>
        \E l \in lines : l.path = p \/ l.path \in Ancestors[p]

\* "Pruning comparison, only go down if more than one directory": unless an
\* assertion of diff2 or diff3 fails, every line shows a difference, and lies in
\* directories two trees have.
EveryLineIsADifference ==
    ~LostEntry(ts) => \A l \in lines :
        /\ DiffersAt(l.path)
        /\ \A q \in Ancestors[l.path] :
              \E i, j \in DOMAIN ts : i # j /\ IsDirectoryIn(ts[i], q) /\ IsDirectoryIn(ts[j], q)

=============================================================================
