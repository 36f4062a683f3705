------------------------------ MODULE NameCache ------------------------------
(***************************************************************************)
(* The lookup functions of extfs.cpp as they run: a mutex that is held for *)
(* the whole call, four caches, and the buffer that getpwuid_r and its     *)
(* relatives write the strings of a result into.  The buffer is shared by  *)
(* all calls, and the name of a result is a pointer into it.               *)
(***************************************************************************)
EXTENDS NameDatabase

VARIABLES
    m,              \* the thread that holds the mutex, or None
    structBuffer,   \* the name that is in the buffer
    cache,          \* userCache and groupCache
    reverseCache,   \* userReverseCache and groupReverseCache
    pc,             \* where in its call each thread is
    req,            \* the arguments of the call
    result,         \* the id in the thread's struct passwd, None if no result
    answer          \* the value returned last, None while there is none

cacheVars == <<m, structBuffer, cache, reverseCache, pc, req, result, answer>>

TypeOK ==
    /\ m \in Thread \cup {None}
    /\ structBuffer \in Label \cup {None}
    /\ cache \in [Kind -> [Id -> Label \cup {None}]]
    /\ reverseCache \in [Kind -> [Label -> Id \cup {None}]]
    /\ pc \in [Thread -> {"idle", "lock", "find", "query", "insert", "return"}]
    /\ req \in [Thread -> Request \cup {None}]
    /\ result \in [Thread -> Id \cup {None}]
    /\ answer \in [Thread -> Id \cup Label \cup {None, Thrown}]

CacheInit ==
    /\ m = None
    /\ structBuffer = None
    /\ cache = [k \in Kind |-> [i \in Id |-> None]]
    /\ reverseCache = [k \in Kind |-> [n \in Label |-> None]]
    /\ pc = [t \in Thread |-> "idle"]
    /\ req = [t \in Thread |-> None]
    /\ result = [t \in Thread |-> None]
    /\ answer = [t \in Thread |-> None]

Goto(t, label) == pc' = [pc EXCEPT ![t] = label]

-----------------------------------------------------------------------------
Call(t, r) ==
    /\ pc[t] = "idle"
    /\ Goto(t, "lock")
    /\ req' = [req EXCEPT ![t] = r]
    /\ answer' = [answer EXCEPT ![t] = None]
    /\ UNCHANGED <<m, structBuffer, cache, reverseCache, result>>

\* The mutex is not waited for
MutLock(t) ==
    /\ pc[t] = "lock"
    /\ m' = t
    /\ Goto(t, "find")
    /\ UNCHANGED <<structBuffer, cache, reverseCache, req, result, answer>>

\* unique_lock<mutex> l(m)
Lock(t) ==
    /\ pc[t] = "lock"
    /\ m = None
    /\ m' = t
    /\ Goto(t, "find")
    /\ UNCHANGED <<structBuffer, cache, reverseCache, req, result, answer>>

\* What the cache for this direction has
Cached(r) ==
    IF r.by = "id" THEN cache[r.kind][r.id] ELSE reverseCache[r.kind][r.name]

Hit(t) ==
    /\ pc[t] = "find"
    /\ Cached(req[t]) # None
    /\ answer' = [answer EXCEPT ![t] = Cached(req[t])]
    /\ Goto(t, "return")
    /\ UNCHANGED <<m, structBuffer, cache, reverseCache, req, result>>

Miss(t) ==
    /\ pc[t] = "find"
    /\ Cached(req[t]) = None
    /\ Goto(t, "query")
    /\ UNCHANGED <<m, structBuffer, cache, reverseCache, req, result, answer>>

\* getpwuid_r, getgrgid_r, getpwnam_r, getgrnam_r: the strings go to the
\* buffer, the numbers to the struct passwd of the thread.  What is in the
\* buffer when there is no result is not read.
Query(t) ==
    /\ pc[t] = "query"
    /\ LET r == req[t]
           i == IF r.by = "name" THEN IdByName[r.kind][r.name]
                ELSE IF NameById[r.kind][r.id] # None THEN r.id ELSE None IN
        /\ result' = [result EXCEPT ![t] = i]
        /\ structBuffer' = IF i = None THEN structBuffer
                           ELSE IF r.by = "name" THEN r.name
                           ELSE NameById[r.kind][r.id]
    /\ Goto(t, "insert")
    /\ UNCHANGED <<m, cache, reverseCache, req, answer>>

Throw(t) ==
    /\ answer' = [answer EXCEPT ![t] = Thrown]
    /\ Goto(t, "return")
    /\ UNCHANGED <<m, structBuffer, cache, reverseCache, req, result>>

\* The call to the database fails
QueryFails(t) == pc[t] = "query" /\ Throw(t)

\* The number of an id without a name is not put in the reverse cache
MutInsertName(t) ==
    /\ pc[t] = "insert" /\ req[t].by = "id"
    /\ LET k == req[t].kind
           i == req[t].id
           n == IF result[t] = None THEN ToString[i] ELSE structBuffer IN
        /\ cache' = Insert(cache, k, i, n)
        /\ reverseCache' = IF result[t] = None THEN reverseCache
                           ELSE Insert(reverseCache, k, n, i)
        /\ answer' = [answer EXCEPT ![t] = cache'[k][i]]
    /\ Goto(t, "return")
    /\ UNCHANGED <<m, structBuffer, req, result>>

\* By id: the name is read from the buffer; not found is not an error
InsertName(t) ==
    /\ pc[t] = "insert" /\ req[t].by = "id"
    /\ LET k == req[t].kind
           i == req[t].id
           n == IF result[t] = None THEN ToString[i] ELSE structBuffer IN
        /\ cache' = Insert(cache, k, i, n)
        /\ reverseCache' = Insert(reverseCache, k, n, i)
        /\ answer' = [answer EXCEPT ![t] = cache'[k][i]]
    /\ Goto(t, "return")
    /\ UNCHANGED <<m, structBuffer, req, result>>

\* userCache[result->pw_uid]=user in place of insert
MutInsertId(t) ==
    /\ pc[t] = "insert" /\ req[t].by = "name" /\ result[t] # None
    /\ LET k == req[t].kind
           n == req[t].name IN
        /\ reverseCache' = Insert(reverseCache, k, n, result[t])
        /\ cache' = [cache EXCEPT ![k][result[t]] = n]
        /\ answer' = [answer EXCEPT ![t] = reverseCache'[k][n]]
    /\ Goto(t, "return")
    /\ UNCHANGED <<m, structBuffer, req, result>>

\* By name: the id is in the thread's own struct passwd
InsertId(t) ==
    /\ pc[t] = "insert" /\ req[t].by = "name" /\ result[t] # None
    /\ LET k == req[t].kind
           n == req[t].name IN
        /\ reverseCache' = Insert(reverseCache, k, n, result[t])
        /\ cache' = Insert(cache, k, result[t], n)
        /\ answer' = [answer EXCEPT ![t] = reverseCache'[k][n]]
    /\ Goto(t, "return")
    /\ UNCHANGED <<m, structBuffer, req, result>>

\* We're forced to return an error if the user does not exist
NotFound(t) ==
    /\ pc[t] = "insert" /\ req[t].by = "name" /\ result[t] = None
    /\ Throw(t)

\* The lock is released by the destructor of l
Return(t) ==
    /\ pc[t] = "return"
    /\ m' = None
    /\ Goto(t, "idle")
    /\ result' = [result EXCEPT ![t] = None]
    /\ req' = [req EXCEPT ![t] = None]
    /\ UNCHANGED <<structBuffer, cache, reverseCache, answer>>

\* The steps of a call that is under way
CacheStep(t) ==
    \/ Lock(t) \/ Hit(t) \/ Miss(t) \/ Query(t) \/ QueryFails(t)
    \/ InsertName(t) \/ InsertId(t) \/ NotFound(t) \/ Return(t)

CacheNext == \E t \in Thread : CacheStep(t) \/ \E r \in Request : Call(t, r)

CacheSpec == CacheInit /\ [][CacheNext]_cacheVars

-----------------------------------------------------------------------------
(* Properties *)

Service == INSTANCE NameService
             WITH nameOf <- cache, idOf <- reverseCache, call <- req

\* Lookups are atomic although they share caches and a buffer: whatever the
\* threads do between the lock and the return of ext_lookup_user and
\* ext_lookup_group, callers cannot tell it from lookups at one instant.
LookupsAreAtomic == Service!Spec

\* Names and ids come from the same people: getpwnam_r finds what getpwuid_r
\* gave, and nobody is called by the number of an id without a name
ConsistentDatabase ==
    \A k \in Kind, i \in Id :
        /\ NameById[k][i] # None => IdByName[k][NameById[k][i]] = i
        /\ NameById[k][i] = None => IdByName[k][ToString[i]] = None
        /\ \A j \in Id : ToString[i] = ToString[j] => i = j

\* The owner that a scan reads from a file can be given to the copy of the
\* file: a name that ext_lookup_user gave for an id leads back to that id,
\* also when it is only the number of an id that has no name.
NamesLeadBack ==
    ConsistentDatabase =>
        \A k \in Kind, i \in Id :
            cache[k][i] # None => reverseCache[k][cache[k][i]] = i

\* Elements of the caches are never replaced: two files of one owner have the
\* same owner in the trees, and two names of one id do not compete, as
\* map::insert keeps what is there.
FirstAnswerStands ==
    [][\A k \in Kind :
        /\ \A i \in Id : cache[k][i] # None => cache'[k][i] = cache[k][i]
        /\ \A n \in Label :
            reverseCache[k][n] # None => reverseCache'[k][n] = reverseCache[k][n]
      ]_cacheVars

=============================================================================
