----------------------------- MODULE NameDatabase -----------------------------
(***************************************************************************)
(* The user and group databases behind the lookup functions of extfs.cpp,  *)
(* and what a lookup asks of them.  The databases are external.  They are  *)
(* given by the answers of getpwuid_r, getgrgid_r (NameById) and           *)
(* getpwnam_r, getgrnam_r (IdByName); both are None where there is no such *)
(* user or group.  A cache is a function that is None where the map of     *)
(* extfs.cpp has no element.                                               *)
(***************************************************************************)

CONSTANTS
    Thread,     \* the threads that call the functions
    Id,         \* uid_t and gid_t
    Label,      \* names of users and groups
    ToString,   \* to_string: the decimal number of an id, as a name
    NameById,   \* getpwuid_r and getgrgid_r
    IdByName,   \* getpwnam_r and getgrnam_r
    None,       \* nothing found, no call under way
    Thrown      \* the call ended with an exception

\* There are two databases and two pairs of caches, treated in the same way
Kind == {"user", "group"}

ById == [kind : Kind, by : {"id"}, id : Id]
ByName == [kind : Kind, by : {"name"}, name : Label]
Request == ById \cup ByName

ASSUME NameAssumption ==
    /\ ToString \in [Id -> Label]
    /\ NameById \in [Kind -> [Id -> Label \cup {None}]]
    /\ IdByName \in [Kind -> [Label -> Id \cup {None}]]
    /\ None \notin Id \cup Label \cup Request \cup Thread
    /\ Thrown \notin Id \cup Label \cup {None}

-----------------------------------------------------------------------------
\* Not found is no error by id: the name is the number of the id
NameFor(k, i) == IF NameById[k][i] = None THEN ToString[i] ELSE NameById[k][i]

\* map::insert: an element that is present is not replaced
Insert(cache, k, key, value) ==
    IF cache[k][key] = None THEN [cache EXCEPT ![k][key] = value] ELSE cache

=============================================================================
