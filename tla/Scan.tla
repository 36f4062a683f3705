--------------------------------- MODULE Scan ---------------------------------
(***************************************************************************)
(* What scanSourceTargetDir promises to the backup and to the scrub: it    *)
(* returns with both trees complete, or it throws.                         *)
(***************************************************************************)
EXTENDS NameDatabase

CONSTANTS
    Entry,      \* the entries of the source and of the backup directory
    OwnerId     \* the uid and the gid of each entry of each directory

Side == {"src", "dst"}

VARIABLES
    tree,       \* srcTree and dstTree: the owner of each entry, None if absent
    outcome     \* how the call ended

vars == <<tree, outcome>>

Empty == [s \in Side |-> [e \in Entry |-> None]]

\* The tree of a directory
TreeOf(s) ==
    [e \in Entry |->
        IF OwnerId[s][e] = None THEN None
        ELSE [user  |-> NameFor("user", OwnerId[s][e].user),
              group |-> NameFor("group", OwnerId[s][e].group)]]

Init == tree = Empty /\ outcome = "scanning"

Complete ==
    /\ outcome = "scanning"
    /\ tree' = [s \in Side |-> TreeOf(s)]
    /\ outcome' = "returned"

Throw ==
    /\ outcome = "scanning"
    /\ outcome' = "threw"
    /\ UNCHANGED tree

Spec == Init /\ [][Complete \/ Throw]_vars

=============================================================================
