------------------------------ MODULE MCBackup ------------------------------
(***************************************************************************)
(* Instances of Backup for TLC.  Contents x and y have the same size, z    *)
(* has another; they are also the targets of symbolic links.               *)
(***************************************************************************)
EXTENDS Backup, TLC

CONSTANTS x, y, z, me, other

MCData == {x, y, z}
MCSizeOf == [d \in MCData |-> IF d = z THEN 2 ELSE 1]
MCOwner == {me, other}
MCName == {"d", "f", "g"}

File(perm, owner, mtime, data) ==
    [ty |-> "regular", perm |-> perm, owner |-> owner, mtime |-> mtime, data |-> data]
Link(mtime, data) ==
    [ty |-> "symlink", perm |-> SymlinkPerm, owner |-> me, mtime |-> mtime, data |-> data]
Dir(mtime) ==
    [ty |-> "directory", perm |-> 493, owner |-> me, mtime |-> mtime, data |-> None]

\* All directories whose entries are taken from the set entries[p] for each p
Directories(entries) ==
    {f \in UNION {[P -> UNION {entries[p] : p \in DOMAIN entries}] :
                    P \in SUBSET DOMAIN entries} :
        /\ \A p \in DOMAIN f : f[p] \in entries[p]
        /\ WellFormed(f)}

\* The metadata file of a directory
MetadataOf(fs) == WriteTo(ScanDirectory(fs, TRUE))

AllMetadata(dirs) == {MetadataOf(fs) : fs \in dirs}

WorldsOf(srcs, dsts, metas) ==
    [src : srcs, dst : dsts, meta1 : metas, meta2 : metas]

-----------------------------------------------------------------------------
(* A single file, with every combination of attributes and contents *)

FilePath == {<<"f">>}
FileEntries ==
    <<"f">> :> {File(perm, me, mtime, data) :
                    perm \in {420, 493}, mtime \in {1, 2}, data \in {x, y}}
FileWorlds ==
    LET dirs == Directories(FileEntries)
    IN  WorldsOf(dirs, dirs, AllMetadata(dirs))

-----------------------------------------------------------------------------
(* A file in a directory: either may be missing, and the directory may be a *)
(* file                                                                     *)

DirPath == {<<"d">>, <<"d", "f">>}
DirEntries(files) ==
    <<"d">> :> {Dir(1), Dir(2), File(420, me, 1, x)} @@ <<"d", "f">> :> files
DirWorlds ==
    LET versions == {File(420, me, 1, x), File(420, me, 2, y)}
        rotten   == File(420, me, 1, y)
        dirs     == Directories(DirEntries(versions \cup {rotten}))
    IN  WorldsOf(dirs, dirs, AllMetadata(Directories(DirEntries(versions))))

-----------------------------------------------------------------------------
(* Symbolic links, at top level and in a directory *)

LinkPath == {<<"f">>, <<"d">>, <<"d", "f">>}
LinkEntries ==
    <<"f">> :> {Link(1, x)} @@
    <<"d">> :> {Dir(1)} @@
    <<"d", "f">> :> {Link(1, x), Link(1, y)}
LinkWorlds ==
    LET dirs == Directories(LinkEntries)
    IN  WorldsOf(dirs, dirs, AllMetadata(dirs))

-----------------------------------------------------------------------------
(* Files of two owners, in a directory, for a process that cannot change owners *)

OwnerWorlds ==
    LET files == {File(420, me, 1, x), File(420, other, 1, x), File(420, me, 2, y)}
        dirs  == Directories(<<"d">> :> {Dir(1)} @@ <<"d", "f">> :> files)
    IN  WorldsOf(dirs, dirs, AllMetadata(dirs))

-----------------------------------------------------------------------------

(* Any of these single entries *)

EntryPath == FilePath \cup LinkPath
EntryWorlds == FileWorlds \cup LinkWorlds \cup OwnerWorlds

-----------------------------------------------------------------------------

(* One fault each *)

\* Metadata file 1 was written with * for the hash of the file
StarWorlds ==
    LET file   == {<<"f">> :> File(420, me, 1, data) : data \in {x, y}}
        hashed == AllMetadata(file)
        star   == {WriteTo(ScanDirectory(fs, FALSE)) : fs \in file}
    IN  [src : file, dst : file, meta1 : star \cup hashed, meta2 : hashed]

\* A set-user-ID file in the source, and a backup that may have it already
SetuidWorlds ==
    LET fs   == <<"f">> :> File(2541, me, 1, x)
        dsts == {<< >>, fs}
    IN  {[src |-> fs, dst |-> dst0, meta1 |-> MetadataOf(dst0), meta2 |-> MetadataOf(dst0)] :
            dst0 \in dsts}

-----------------------------------------------------------------------------

AllCommands == Command

HashCommands == {c \in Command : c.hashAllFiles}

NohashCommands == {c \in Command : c.name = "backup" /\ ~c.hashAllFiles}

=============================================================================
