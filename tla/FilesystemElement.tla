-------------------------- MODULE FilesystemElement --------------------------
(***************************************************************************)
(* One entry of a directory, as ddm sees it: class FilesystemElement of    *)
(* core.h, its two comparisons, its construction from a path on disk and   *)
(* its passage through a line of a metadata file.                          *)
(*                                                                         *)
(* Data abstraction.  The bytes of a file, and the target of a symbolic    *)
(* link, are members of the set Data.  SHA1 is taken to be collision free, *)
(* so the hash of a file is represented by its data.  User and group are   *)
(* always read, written and compared together and are one owner.           *)
(* Permissions keep their width: they are the low 12 bits of st_mode.      *)
(* The relative path of an element is the key it is stored under.          *)
(***************************************************************************)
EXTENDS Integers

CONSTANTS
    Data,     \* contents of regular files and targets of symbolic links
    SizeOf,   \* the size in bytes of each content
    Owner,    \* user/group pairs
    None      \* std::nullopt, the empty hash, the empty symlink target

FileType == {"regular", "directory", "symlink"}

\* st_mode & 07777
Perm == 0 .. 4095

\* lrwxrwxrwx: the mode of every symbolic link on Linux
SymlinkPerm == 511

\* FilesystemElement, the fields that are written to metadata files: size and
\* hash only if regular file, target only if symlink
Element ==
    {e \in [ty : FileType, perm : Perm, owner : Owner, mtime : Int,
            size : Nat, hash : Data \cup {None}, symlink : Data \cup {None}] :
        /\ e.ty # "regular" => e.size = 0 /\ e.hash = None
        /\ e.ty = "symlink" <=> e.symlink # None}

\* What lstat(2), read(2) and readlink(2) show of an entry on disk
Entry ==
    {e \in [ty : FileType, perm : Perm, owner : Owner, mtime : Int,
            data : Data \cup {None}] :
        /\ e.ty = "directory" <=> e.data = None
        /\ e.ty = "symlink" => e.perm = SymlinkPerm}

ASSUME ElementAssumption ==
    /\ SizeOf \in [Data -> Nat]
    /\ None \notin Data
    /\ None \notin Element

-----------------------------------------------------------------------------
(* Construction from a path on disk *)

\* hashFile
HashFile(entry) == entry.data

\* FilesystemElement(p, top, opt), computeHash being opt=ScanOpt::ComputeHash
FromFilesystem(entry, computeHash) ==
    [ty      |-> entry.ty,
     perm    |-> entry.perm,
     owner   |-> entry.owner,
     mtime   |-> entry.mtime,
     size    |-> IF entry.ty = "regular" THEN SizeOf[entry.data] ELSE 0,
     hash    |-> IF entry.ty = "regular" /\ computeHash
                 THEN HashFile(entry) ELSE None,
     symlink |-> IF entry.ty = "symlink" THEN entry.data ELSE None]

IsDirectory(e) == e # None /\ e.ty = "directory"

-----------------------------------------------------------------------------
(* Comparison *)

\* CompareOpt: the metadata to compare
CompareOpt ==
    [perm : BOOLEAN, owner : BOOLEAN, mtime : BOOLEAN,
     size : BOOLEAN, hash : BOOLEAN, symlink : BOOLEAN]

DefaultOpt ==
    [perm |-> TRUE, owner |-> TRUE, mtime |-> TRUE,
     size |-> TRUE, hash |-> TRUE, symlink |-> TRUE]

\* The options of the "is the content the same" tests
ContentOpt == [DefaultOpt EXCEPT !.perm = FALSE, !.owner = FALSE, !.mtime = FALSE]

\* The options of the bit rot tests: all but the content
RotOpt == [DefaultOpt EXCEPT !.size = FALSE, !.hash = FALSE, !.symlink = FALSE]

\* Hashes are compared only when neither computation was omitted
HashesAgree(a, b) == a.hash = b.hash \/ a.hash = None \/ b.hash = None

\* compare(a, b, opt)
Compare(a, b, opt) ==
    /\ a.ty = b.ty
    /\ opt.perm => a.perm = b.perm
    /\ opt.owner => a.owner = b.owner
    /\ opt.mtime => a.mtime = b.mtime
    /\ opt.size => a.size = b.size
    /\ opt.hash => HashesAgree(a, b)
    /\ opt.symlink => a.symlink = b.symlink

\* operator==
Equal(a, b) ==
    /\ a.ty = b.ty /\ a.perm = b.perm /\ a.owner = b.owner
    /\ a.mtime = b.mtime /\ a.size = b.size /\ a.symlink = b.symlink
    /\ HashesAgree(a, b)

\* operator== lifted to optional<FilesystemElement>
OptEqual(a, b) == IF a = None \/ b = None THEN a = b ELSE Equal(a, b)

-----------------------------------------------------------------------------
(* Passage through a line of a metadata file *)

\* writeTo: only the nine rwx bits of the permissions are printed
WriteElement(e) == [e EXCEPT !.perm = @ % 512]

\* readFrom fails on the mtime that timegm reports errors with
ReadableElement(e) == e.mtime # -1

=============================================================================
