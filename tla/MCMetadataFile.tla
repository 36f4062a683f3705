--------------------------- MODULE MCMetadataFile ---------------------------
(***************************************************************************)
(* Instances of MetadataFile for TLC.  "a" sorts before the directories    *)
(* "d" and "e", and a link may take the place of either.                   *)
(***************************************************************************)
EXTENDS MetadataFile

CONSTANTS x, y

MCData == {x, y}
MCSizeOf == [d \in MCData |-> 1]
MCName == {"a", "d", "e"}
MCRank == [n \in MCName |-> CASE n = "a" -> 1 [] n = "d" -> 2 [] n = "e" -> 3]
MCPath == {<<"a">>, <<"d">>, <<"d", "a">>, <<"d", "e">>, <<"d", "e", "a">>, <<"e">>}

Root == <<"root", "root">>
DomainUser == <<"user", "domain", "users">>
Self0 == Root
PlainOwner == {Root}
SpacedOwner == {Root, DomainUser}

File(owner, mtime, data) ==
    [ty |-> "regular", perm |-> 420, owner |-> owner, mtime |-> mtime, data |-> data]
Dir == [ty |-> "directory", perm |-> 493, owner |-> Root, mtime |-> 1, data |-> None]

MCLinks == {FromFilesystem([ty |-> "symlink", perm |-> SymlinkPerm, owner |-> Root,
                            mtime |-> 1, data |-> x], TRUE)}

\* Two levels of directories, one of them empty, and files in each
Deep ==
    <<"a">> :> File(Root, 1, x) @@ <<"d">> :> Dir @@ <<"d", "a">> :> File(Root, 1, x)
    @@ <<"d", "e">> :> Dir @@ <<"d", "e", "a">> :> File(Root, 1, y) @@ <<"e">> :> Dir

\* A directory without directories
Flat == <<"d">> :> Dir @@ <<"d", "e">> :> File(Root, 1, y)

MCDirectories == {Deep, Flat}

\* A file whose owner, or mtime, is unusual
SpacedDirectories == {<<"a">> :> File(DomainUser, 1, x)}
OldDirectories == {<<"a">> :> File(Root, -1, x)}

=============================================================================
