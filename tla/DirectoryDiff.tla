---------------------------- MODULE DirectoryDiff ----------------------------
(***************************************************************************)
(* diff2 and diff3 of core.cpp.                                            *)
(*                                                                         *)
(* The code descends recursively through the directories two or three      *)
(* trees have in common.  Here the result is defined directly, by which    *)
(* paths are reached and which of these are differences; module            *)
(* DirectoryDiffRecursion follows the code's recursion and is checked to   *)
(* compute the same.  ts is the sequence of the two or three trees, and a  *)
(* line of the result has the elements the trees' indexes hold for path.   *)
(***************************************************************************)
EXTENDS DirectoryTree

\* The trees whose content lists are walked when path p is looked at: all of
\* its ancestors are directories there
Walked(ts, p) ==
    {i \in DOMAIN ts : \A q \in Ancestors[p] : IsDirectoryIn(ts[i], q)}

\* Descends wherever one of the trees has a directory.
MutVisited(ts) ==
    {p \in Path : \E i \in Walked(ts, p) : p \in DOMAIN ts[i].node}

\* Pruning: the walk only goes down directories that two trees have
Visited(ts) ==
    {p \in Path :
        /\ \E i, j \in Walked(ts, p) : i # j
        /\ \E i \in Walked(ts, p) : p \in DOMAIN ts[i].node}

Line(ts, p) == [path |-> p, e |-> [i \in DOMAIN ts |-> Search(ts[i], p)]]

\* Elements are compared only with the next tree that is walked
NextWalked(ts, p, i, j) ==
    /\ i \in Walked(ts, p) /\ j \in Walked(ts, p) /\ i < j
    /\ \A k \in Walked(ts, p) : k <= i \/ k >= j

\* A tree that lacks an entry is always a difference
IsDifference(ts, p, opt) ==
    \/ \E i \in Walked(ts, p) : p \notin ts[i].index
    \/ \E i, j \in Walked(ts, p) :
          /\ NextWalked(ts, p, i, j)
          /\ ~Compare(Search(ts[i], p), Search(ts[j], p), opt)

\* diff2(a, b, opt) and diff3(a, b, c, opt)
Diff(ts, opt) == {Line(ts, p) : p \in {q \in Visited(ts) : IsDifference(ts, q, opt)}}

\* The assertions of recursiveCompare: an entry in a content list is in some
\* index, and comparing is transitive
LostEntry(ts) == \E p \in Visited(ts) : \A i \in DOMAIN ts : p \notin ts[i].index

NotTransitive(ts, opt) ==
    \E p \in Visited(ts) :
        /\ ~IsDifference(ts, p, opt)
        /\ \E i, j \in Walked(ts, p) : ~Compare(Search(ts[i], p), Search(ts[j], p), opt)

\* Lines come out level by level: those of a directory's entries before those
\* of anything further down that directory.  Among the entries of one
\* directory the order is that of an unordered_set.
Precedes(l, m) ==
    /\ Len(l.path) < Len(m.path)
    /\ SubSeq(m.path, 1, Len(l.path) - 1) = Parent(l.path)

FirstLines(lines) == {m \in lines : \A l \in lines : ~Precedes(l, m)}

=============================================================================
