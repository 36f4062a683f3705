------------------------------ MODULE TreeStore ------------------------------
(***************************************************************************)
(* What a DirectoryTree and its metadata file promise together: the tree   *)
(* is changed by the operations of module DirectoryTree, saving it keeps   *)
(* all of it, and loading gives back what is in the file.  A process that  *)
(* is stopped while it saves leaves part of the tree in the file, with the *)
(* directories all the way up of everything that is left.                  *)
(*                                                                         *)
(* tree is a tree of DirectoryTree, None when no process has one.  saved   *)
(* is what the metadata file says: a function from paths to elements;      *)
(* complete tells whether the last process to write it came to the end.    *)
(***************************************************************************)
EXTENDS DirectoryTree

CONSTANTS
    Directories,   \* directories that are scanned, and copied from
    Links          \* symbolic links that are restored from metadata

VARIABLES tree, saved, complete

Init ==
    /\ \E fs \in Directories : tree = ScanDirectory(fs, TRUE)
    /\ saved = << >>
    /\ complete = TRUE

Copy ==
    \E fs \in Directories, p \in Path :
        LET srcTree == ScanDirectory(fs, TRUE)
        IN  CopySucceeds(tree, srcTree, p) /\ tree' = CopyFromTree(tree, srcTree, p)

Remove == \E p \in Path : RemoveSucceeds(tree, p) /\ tree' = RemoveFromTree(tree, p)

AddSymlink ==
    \E p \in Path, e \in Links :
        HasPlaceFor(tree, p) /\ tree' = AddSymlinkToTree(tree, p, e)

Save == saved' = WriteTo(tree) /\ complete' = TRUE

\* The process is stopped while it saves
SavePart ==
    /\ DOMAIN saved' \subseteq DOMAIN tree.node
    /\ saved' = [p \in DOMAIN saved' |-> WriteElement(tree.node[p])]
    /\ WellFormed(saved')
    /\ complete' = FALSE

\* The process that has the tree
Process ==
    /\ tree # None
    /\ \/ (Copy \/ Remove \/ AddSymlink) /\ UNCHANGED <<saved, complete>>
       \/ (Save \/ SavePart) /\ tree' = None

\* A new process: loading may fail
Load == tree = None /\ tree' \in {None, ReadFrom(saved)} /\ UNCHANGED <<saved, complete>>

Spec == Init /\ [][Process \/ Load]_<<tree, saved, complete>>

=============================================================================
