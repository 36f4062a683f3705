------------------------------- MODULE MCDiff -------------------------------
(***************************************************************************)
(* DirectoryDiffRecursion on all pairs and triples of small trees: a chain *)
(* of two directories with a file in each, in which every entry may be     *)
(* missing or have another mtime, the directories may be files, and d/f    *)
(* may be in the content list of d only, as addSymlinkToTree leaves it.    *)
(***************************************************************************)
EXTENDS DirectoryDiffRecursion, TLC

CONSTANTS x, root

MCData == {x}
MCSizeOf == [d \in MCData |-> 1]
MCOwner == {root}
MCName == {"d", "f"}
MCPath == {<<"d">>, <<"d", "d">>, <<"d", "d", "f">>, <<"d", "f">>}

Elem(ty, mtime) ==
    [ty |-> ty, perm |-> 420, owner |-> root, mtime |-> mtime,
     size |-> IF ty = "regular" THEN 1 ELSE 0,
     hash |-> IF ty = "regular" THEN x ELSE None, symlink |-> None]

MCElements ==
    <<"d">> :> {Elem("directory", 1), Elem("directory", 2), Elem("regular", 1)} @@
    <<"d", "d">> :> {Elem("directory", 1), Elem("directory", 2), Elem("regular", 1)} @@
    <<"d", "d", "f">> :> {Elem("regular", 1), Elem("regular", 2)} @@
    <<"d", "f">> :> {Elem("regular", 1)}

IndexedTrees ==
    {ReadFrom(f) :
        f \in {g \in UNION {[P -> UNION {MCElements[p] : p \in MCPath}] :
                              P \in SUBSET MCPath} :
                 (\A p \in DOMAIN g : g[p] \in MCElements[p]) /\ WellFormed(g)}}

MCTrees ==
    IndexedTrees \cup {[t EXCEPT !.index = @ \ {<<"d", "f">>}] : t \in IndexedTrees}

MCOptions == {DefaultOpt, [DefaultOpt EXCEPT !.mtime = FALSE]}

=============================================================================
