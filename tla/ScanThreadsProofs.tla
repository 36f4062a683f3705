-------------------------- MODULE ScanThreadsProofs --------------------------
(***************************************************************************)
(* The scan in two threads implements the scan, and nothing outlives the   *)
(* call, for any directories, ids and databases.                           *)
(***************************************************************************)
EXTENDS ScanThreads, NameCacheProofs, Integers

\* The tree of the abstract scan, in terms of this module
TreeOf(s, e) ==
    IF OwnerId[s][e] = None THEN None
    ELSE [user  |-> NameFor("user", OwnerId[s][e].user),
          group |-> NameFor("group", OwnerId[s][e].group)]

\* Only ids are looked up, so that a cached name is the name in the database:
\* the answers do not depend on who asked first.
OnlyDatabaseNames ==
    \A k \in Kind, i \in Id : cache[k][i] \in {None, NameFor(k, i)}

\* Where a scan is in the construction of an element
Lookup(s, r) ==
    /\ pc[s] # "idle" => req[s] = r
    /\ pc[s] = "idle" => answer[s] # None
    /\ answer[s] \in {None, Thrown, NameFor(r.kind, r.id)}

EntryInv(s) ==
    /\ scan[s] \in {"user", "group"} =>
        /\ entry[s] \in Entry
        /\ OwnerId[s][entry[s]] # None
    /\ scan[s] = "user" => Lookup(s, UserOf(s, entry[s]))
    /\ scan[s] = "group" =>
        /\ user[s] = NameFor("user", OwnerId[s][entry[s]].user)
        /\ Lookup(s, GroupOf(s, entry[s]))
    /\ scan[s] \notin {"user", "group"} => pc[s] = "idle"

\* What a scan has built, and how it ended
SideInv(s) ==
    /\ \A e \in Entry : tree[s][e] \in {None, TreeOf(s, e)}
    /\ exception[s] \in {<<>>, <<s>>}
    /\ exception[s] # <<>> => scan[s] = "ended"
    /\ scan[s] = "ended" => exception[s] # <<>> \/ Unvisited(s) = {}

OutcomeInv ==
    /\ outcome = "returned" =>
        \A s \in Side : scan[s] = "ended" /\ exception[s] = <<>>
    /\ outcome # "scanning" => \A s \in Side : scan[s] \in {"waiting", "ended"}
    /\ outcome # "scanning" => \A s \in Side :
            exception[s] # <<>> => \E i \in DOMAIN message : message[i] = s
    /\ outcome = "threw" /\ scan["dst"] = "waiting" => exception["src"] # <<>>
    /\ scan["src"] # "waiting"
    /\ scan["dst"] = "waiting" => ~threads
    /\ ~threads /\ scan["dst"] # "waiting" => exception["src"] = <<>> /\ scan["src"] = "ended"

ScanInv ==
    /\ CacheInv /\ ScanTypeOK /\ OnlyDatabaseNames
    /\ \A s \in Side : EntryInv(s) /\ SideInv(s)
    /\ OutcomeInv

\* After the scan the caller looks up names, of which the caches then know more
\* than the one that the database has for an id; the trees stay as they are.
ThreadsInv ==
    IF outcome = "scanning" THEN ScanInv
    ELSE CacheInv /\ ScanTypeOK /\ OutcomeInv

-----------------------------------------------------------------------------
(* Calls of the lookup functions *)

\* The requests of a scan are requests.
LEMMA ScanRequests ==
    ASSUME NEW s \in Side, NEW e \in Entry, OwnerId[s][e] # None
    PROVE  /\ s \in Thread
           /\ OwnerId[s][e] \in [user : Id, group : Id]
           /\ UserOf(s, e) \in ById /\ UserOf(s, e) \in Request
           /\ UserOf(s, e).kind = "user" /\ UserOf(s, e).id = OwnerId[s][e].user
           /\ GroupOf(s, e) \in ById /\ GroupOf(s, e) \in Request
           /\ GroupOf(s, e).kind = "group" /\ GroupOf(s, e).id = OwnerId[s][e].group
<1>1. s \in Thread /\ OwnerId[s][e] \in [user : Id, group : Id]
  BY ScanAssumption
<1> QED
  BY <1>1 DEF UserOf, GroupOf, ById, Request, Kind

\* A name in the database, or the number of an id, is a name.
LEMMA NameForType ==
    ASSUME NEW k \in Kind, NEW i \in Id
    PROVE  NameFor(k, i) \in Label /\ NameFor(k, i) \notin {None, Thrown}
BY NameAssumption DEF NameFor

\* A step of one call leaves the other thread's call alone.
LEMMA CacheStepFrame ==
    ASSUME CacheInv, NEW t \in Thread, NEW u \in Thread, u # t,
           CacheStep(t) \/ \E r \in Request : Call(t, r)
    PROVE  pc'[u] = pc[u] /\ req'[u] = req[u] /\ answer'[u] = answer[u]
<1> USE DEF CacheInv, TypeOK, Goto
<1>1. CASE \E r \in Request : Call(t, r)
  BY <1>1, SMTT(30) DEF Call
<1>2. CASE Lock(t) \/ Hit(t) \/ Miss(t) \/ Query(t) \/ Return(t)
  BY <1>2 DEF Lock, Hit, Miss, Query, Return
<1>3. CASE QueryFails(t) \/ NotFound(t)
  BY <1>3 DEF QueryFails, NotFound, Throw
<1>4. CASE InsertName(t) \/ InsertId(t)
  BY <1>4 DEF InsertName, InsertId
<1> QED
  BY <1>1, <1>2, <1>3, <1>4 DEF CacheStep

\* A lookup by id answers with the name in the database or throws, and keeps
\* the cache to such names.
LEMMA LookupByIdStep ==
    ASSUME CacheInv, OnlyDatabaseNames, NEW t \in Thread, NEW r \in ById,
           Lookup(t, r), CacheStep(t)
    PROVE  OnlyDatabaseNames' /\ Lookup(t, r)' /\ pc[t] # "idle"
<1> USE DEF Goto
<1>0. pc[t] # "idle"
  BY DEF CacheStep, Lock, Hit, Miss, Query, QueryFails, InsertName, InsertId,
    NotFound, Return
<1>1. req[t] = r /\ r \in Request /\ r.by = "id" /\ r.kind \in Kind /\ r.id \in Id
  BY <1>0 DEF Lookup, ById, Request
<1>2. pc \in [Thread -> {"idle", "lock", "find", "query", "insert", "return"}]
      /\ answer \in [Thread -> Id \cup Label \cup {None, Thrown}]
      /\ req \in [Thread -> Request \cup {None}]
  BY DEF CacheInv, TypeOK
<1>3. CASE Lock(t) \/ Miss(t) \/ Query(t)
  BY <1>0, <1>2, <1>3 DEF Lock, Miss, Query, OnlyDatabaseNames, Lookup
<1>4. CASE Hit(t)
  <2>1. Cached(req[t]) = cache[r.kind][r.id] /\ cache[r.kind][r.id] # None
    BY <1>1, <1>4 DEF Hit, Cached
  <2>2. cache[r.kind][r.id] = NameFor(r.kind, r.id)
    BY <1>1, <2>1 DEF OnlyDatabaseNames
  <2>3. answer'[t] = NameFor(r.kind, r.id)
    BY <1>2, <1>4, <2>1, <2>2 DEF Hit
  <2> QED
    BY <1>0, <1>1, <1>2, <1>4, <2>3 DEF Hit, OnlyDatabaseNames, Lookup
<1>5. CASE QueryFails(t)
  BY <1>0, <1>1, <1>2, <1>5 DEF QueryFails, Throw, OnlyDatabaseNames, Lookup
<1>6. CASE InsertName(t)
  <2>1. /\ NameFor(r.kind, r.id) \in Label
        /\ cache' = Insert(cache, r.kind, r.id, NameFor(r.kind, r.id))
        /\ reverseCache' = Insert(reverseCache, r.kind, NameFor(r.kind, r.id), r.id)
        /\ answer' = [answer EXCEPT ![t] = NameFor(r.kind, r.id)]
        /\ cache[r.kind][r.id] = None
    BY <1>1, <1>6, InsertNameLearns
  <2>2. OnlyDatabaseNames'
    <3>1. TypeOK
      BY DEF CacheInv
    <3>2. cache'[r.kind][r.id] = NameFor(r.kind, r.id)
      BY <1>1, <2>1, <3>1, LearnKeeps
    <3>3. \A l \in Kind, j \in Id :
            l # r.kind \/ j # r.id => cache'[l][j] = cache[l][j]
      BY <1>1, <2>1, <3>1, LearnKeeps
    <3> QED
      BY <3>2, <3>3 DEF OnlyDatabaseNames
  <2>3. pc'[t] # "idle" /\ req' = req
    BY <1>2, <1>6 DEF InsertName
  <2>4. Lookup(t, r)'
    BY <1>1, <1>2, <2>1, <2>3 DEF Lookup
  <2> QED
    BY <1>0, <2>2, <2>4
<1>7. CASE Return(t)
  <2>1. answer[t] # None
    BY <1>7 DEF CacheInv, Return
  <2> QED
    BY <1>0, <1>2, <1>7, <2>1 DEF Return, OnlyDatabaseNames, Lookup
<1>8. ~InsertId(t) /\ ~NotFound(t)
  BY <1>1 DEF InsertId, NotFound
<1> QED
  BY <1>3, <1>4, <1>5, <1>6, <1>7, <1>8 DEF CacheStep

\* A call starts a lookup.
LEMMA CallStep ==
    ASSUME CacheInv, OnlyDatabaseNames, NEW t \in Thread, NEW r \in ById,
           Call(t, r)
    PROVE  CacheInv' /\ OnlyDatabaseNames' /\ Lookup(t, r)'
<1>1. r \in Request
  BY DEF Request
<1> QED
  BY <1>1, CallInv, ZenonT(30) DEF Call, Goto, OnlyDatabaseNames, Lookup, CacheInv, TypeOK

-----------------------------------------------------------------------------
(* The invariant *)

\* The initial states.
LEMMA ScanInitInv == Init => ScanInv
<1> SUFFICES ASSUME Init PROVE ScanInv
  OBVIOUS
<1>1. CacheInv
  BY CacheInitInv DEF Init
<1>2. ScanTypeOK
  BY <1>1, ScanAssumption DEF CacheInv, ScanTypeOK, Init, Side
<1>3. OnlyDatabaseNames
  BY DEF Init, CacheInit, OnlyDatabaseNames
<1>4. \A s \in Side : pc[s] = "idle"
  BY ScanAssumption DEF Init, CacheInit
<1>5. \A s \in Side : EntryInv(s) /\ SideInv(s)
  BY <1>4 DEF EntryInv, SideInv, Init
<1>6. OutcomeInv
  BY DEF OutcomeInv, Init, Side
<1> QED
  BY <1>1, <1>2, <1>3, <1>5, <1>6 DEF ScanInv

\* A scan's part of the invariant is about its own state.
LEMMA SideFrame ==
    ASSUME NEW u \in Side, EntryInv(u), SideInv(u),
           pc'[u] = pc[u], req'[u] = req[u], answer'[u] = answer[u],
           scan'[u] = scan[u], entry'[u] = entry[u], user'[u] = user[u],
           tree'[u] = tree[u], exception'[u] = exception[u]
    PROVE  EntryInv(u)' /\ SideInv(u)'
<1>1. EntryInv(u)'
  BY DEF EntryInv, Lookup, UserOf, GroupOf
<1>2. Unvisited(u)' = Unvisited(u)
  BY DEF Unvisited
<1> QED
  BY <1>1, <1>2 DEF SideInv, TreeOf

\* A step of a lookup.
LEMMA LookupStepInv ==
    ASSUME ScanInv, NEW s \in Side, CacheStep(s), UNCHANGED scanVars
    PROVE  ScanInv'
<1>0. s \in Thread /\ Side = Thread
  BY ScanAssumption
<1>1. CacheInv'
  BY <1>0, CacheStepInv, SMTT(30) DEF ScanInv
<1>2. pc[s] # "idle"
  BY SMTT(30) DEF CacheStep, Lock, Hit, Miss, Query, QueryFails, InsertName, InsertId,
    NotFound, Return
<1>3. OnlyDatabaseNames' /\ EntryInv(s)'
  <2>1. CASE scan[s] = "user"
    <3>1. entry[s] \in Entry /\ OwnerId[s][entry[s]] # None
          /\ Lookup(s, UserOf(s, entry[s]))
      BY <2>1 DEF ScanInv, EntryInv
    <3>2. UserOf(s, entry[s]) \in ById
      BY <3>1, ScanRequests
    <3>3. OnlyDatabaseNames' /\ Lookup(s, UserOf(s, entry[s]))'
      BY <1>0, <3>1, <3>2, LookupByIdStep DEF ScanInv, scanVars, UserOf, Lookup
    <3> QED
      BY <2>1, <3>1, <3>3 DEF EntryInv, scanVars
  <2>2. CASE scan[s] = "group"
    <3>1. entry[s] \in Entry /\ OwnerId[s][entry[s]] # None
          /\ Lookup(s, GroupOf(s, entry[s]))
          /\ user[s] = NameFor("user", OwnerId[s][entry[s]].user)
      BY <2>2 DEF ScanInv, EntryInv
    <3>2. GroupOf(s, entry[s]) \in ById
      BY <3>1, ScanRequests
    <3>3. OnlyDatabaseNames' /\ Lookup(s, GroupOf(s, entry[s]))'
      BY <1>0, <3>1, <3>2, LookupByIdStep, SMTT(30) DEF ScanInv, scanVars, GroupOf, Lookup
    <3> QED
      BY <2>2, <3>1, <3>3 DEF EntryInv, scanVars
  <2> QED
    BY <1>2, <2>1, <2>2 DEF ScanInv, EntryInv
<1>4. SideInv(s)'
  BY SMTT(30) DEF ScanInv, SideInv, scanVars, Unvisited, TreeOf
<1>5. ASSUME NEW u \in Side, u # s PROVE EntryInv(u)' /\ SideInv(u)'
  BY <1>0, <1>5, CacheStepFrame, SideFrame DEF ScanInv, scanVars
<1>6. ScanTypeOK' /\ OutcomeInv'
  BY <1>1, Zenon DEF ScanInv, ScanTypeOK, OutcomeInv, scanVars, CacheInv
<1> QED
  BY <1>1, <1>3, <1>4, <1>5, <1>6 DEF ScanInv

\* The construction of an element begins.
LEMMA VisitInv ==
    ASSUME ScanInv, NEW s \in Side, Visit(s)
    PROVE  ScanInv'
<1>0. s \in Thread /\ Side = Thread
  BY ScanAssumption
<1>1. PICK e \in Unvisited(s) :
        entry' = [entry EXCEPT ![s] = e] /\ Call(s, UserOf(s, e))
  BY Zenon DEF Visit
<1>2. /\ scan[s] = "next" /\ scan' = [scan EXCEPT ![s] = "user"]
      /\ UNCHANGED <<threads, user, tree, exception, outcome, message>>
  BY DEF Visit
<1>3. e \in Entry /\ OwnerId[s][e] # None
  BY <1>1 DEF Unvisited
<1>4. UserOf(s, e) \in ById /\ UserOf(s, e) \in Request
  BY <1>3, ScanRequests
<1>5. CacheInv' /\ OnlyDatabaseNames' /\ Lookup(s, UserOf(s, e))'
  BY <1>0, <1>1, <1>4, CallStep DEF ScanInv, UserOf, Lookup
<1>6. scan'[s] = "user" /\ entry'[s] = e
  BY <1>1, <1>2 DEF ScanInv, ScanTypeOK
<1>7. EntryInv(s)'
  BY <1>3, <1>5, <1>6, SMTT(30) DEF EntryInv, UserOf
<1>8. SideInv(s)'
  BY <1>2, <1>6, SMTT(30) DEF ScanInv, SideInv, Unvisited, TreeOf
<1>9. ASSUME NEW u \in Side, u # s PROVE EntryInv(u)' /\ SideInv(u)'
  <2>1. pc'[u] = pc[u] /\ req'[u] = req[u] /\ answer'[u] = answer[u]
    BY <1>0, <1>1, <1>4, <1>9, CacheStepFrame DEF ScanInv
  <2>2. scan'[u] = scan[u] /\ entry'[u] = entry[u]
    BY <1>1, <1>2, <1>9, SMTT(30) DEF ScanInv, ScanTypeOK
  <2> QED
    BY <1>2, <2>1, <2>2, SideFrame, SMTT(30) DEF ScanInv
<1>10. ScanTypeOK'
  BY <1>1, <1>2, <1>3, <1>5, Zenon DEF ScanInv, ScanTypeOK, CacheInv
<1>11. OutcomeInv'
  BY <1>2, <1>6 DEF ScanInv, ScanTypeOK, OutcomeInv, SideInv, Side
<1> QED
  BY <1>5, <1>7, <1>8, <1>9, <1>10, <1>11 DEF ScanInv

\* The user is known, and the group is looked up.
LEMMA GotUserInv ==
    ASSUME ScanInv, NEW s \in Side, GotUser(s)
    PROVE  ScanInv'
<1> DEFINE e == entry[s]
<1>0. s \in Thread /\ Side = Thread
  BY ScanAssumption
<1>1. /\ scan[s] = "user" /\ pc[s] = "idle" /\ answer[s] # Thrown
      /\ scan' = [scan EXCEPT ![s] = "group"]
      /\ user' = [user EXCEPT ![s] = answer[s]]
      /\ Call(s, GroupOf(s, e))
      /\ UNCHANGED <<threads, entry, tree, exception, outcome, message>>
  BY DEF GotUser
<1>2. e \in Entry /\ OwnerId[s][e] # None /\ Lookup(s, UserOf(s, e))
  BY <1>1, SMTT(30) DEF ScanInv, EntryInv
<1>3. answer[s] = NameFor("user", OwnerId[s][e].user)
  BY <1>1, <1>2, ScanRequests DEF Lookup
<1>4. GroupOf(s, e) \in ById /\ GroupOf(s, e) \in Request
      /\ OwnerId[s][e].user \in Id
  BY <1>2, ScanRequests
<1>5. CacheInv' /\ OnlyDatabaseNames' /\ Lookup(s, GroupOf(s, e))'
  BY <1>0, <1>1, <1>4, CallStep DEF ScanInv, GroupOf, Lookup
<1>6. scan'[s] = "group" /\ user'[s] = NameFor("user", OwnerId[s][e].user)
  BY <1>1, <1>3 DEF ScanInv, ScanTypeOK
<1>7. EntryInv(s)'
  BY <1>1, <1>2, <1>5, <1>6, SMTT(30) DEF EntryInv, GroupOf
<1>8. SideInv(s)'
  BY <1>1, <1>6 DEF ScanInv, SideInv, Unvisited, TreeOf
<1>9. ASSUME NEW u \in Side, u # s PROVE EntryInv(u)' /\ SideInv(u)'
  <2>1. pc'[u] = pc[u] /\ req'[u] = req[u] /\ answer'[u] = answer[u]
    BY <1>0, <1>1, <1>4, <1>9, CacheStepFrame DEF ScanInv
  <2>2. scan'[u] = scan[u] /\ user'[u] = user[u]
    BY <1>1, <1>9 DEF ScanInv, ScanTypeOK
  <2> QED
    BY <1>1, <2>1, <2>2, SideFrame, ZenonT(30) DEF ScanInv
<1>10. ScanTypeOK'
  <2>1. answer[s] \in Label
    BY <1>3, <1>4, NameForType DEF Kind
  <2> QED
    BY <1>1, <1>5, <2>1, Zenon DEF ScanInv, ScanTypeOK, CacheInv
<1>11. OutcomeInv'
  BY <1>1, <1>6 DEF ScanInv, ScanTypeOK, OutcomeInv, SideInv, Side
<1> QED
  BY <1>5, <1>7, <1>8, <1>9, <1>10, <1>11 DEF ScanInv

\* An element is complete: its owner is the one in the databases.
LEMMA GotGroupInv ==
    ASSUME ScanInv, NEW s \in Side, GotGroup(s)
    PROVE  ScanInv'
<1> DEFINE e == entry[s]
           o == [user |-> user[s], group |-> answer[s]]
<1>0. s \in Thread /\ Side = Thread
  BY ScanAssumption
<1>1. /\ scan[s] = "group" /\ pc[s] = "idle" /\ answer[s] # Thrown
      /\ tree' = [tree EXCEPT ![s][e] = o]
      /\ scan' = [scan EXCEPT ![s] = "next"]
      /\ entry' = [entry EXCEPT ![s] = None]
      /\ user' = [user EXCEPT ![s] = None]
      /\ UNCHANGED <<cacheVars, threads, exception, outcome, message>>
  BY DEF GotGroup
<1>2. /\ e \in Entry /\ OwnerId[s][e] # None /\ Lookup(s, GroupOf(s, e))
      /\ user[s] = NameFor("user", OwnerId[s][e].user)
  BY <1>1 DEF ScanInv, EntryInv
<1>3. answer[s] = NameFor("group", OwnerId[s][e].group)
  BY <1>1, <1>2, ScanRequests DEF Lookup
<1>4. o = TreeOf(s, e)
  BY <1>2, <1>3 DEF TreeOf
<1>5. o \in Owner
  <2>1. OwnerId[s][e].user \in Id /\ OwnerId[s][e].group \in Id
    BY <1>2, ScanRequests, SMTT(30)
  <2> QED
    BY <1>2, <1>3, <2>1, NameForType DEF Kind, Owner
<1> HIDE DEF o
<1>6. CacheInv' /\ OnlyDatabaseNames'
  BY <1>1, SMTT(30) DEF ScanInv, CacheInv, cacheVars, OnlyDatabaseNames, TypeOK, Holds, Cached
<1>7. scan'[s] = "next" /\ pc'[s] = "idle"
  <2>1. s \in DOMAIN scan
    BY DEF ScanInv, ScanTypeOK
  <2>2. pc' = pc
    BY <1>1 DEF cacheVars
  <2> QED
    BY <1>1, <2>1, <2>2
<1>8. EntryInv(s)'
  BY <1>7 DEF EntryInv
<1>9. SideInv(s)'
  <2>1. \A f \in Entry : tree'[s][f] = IF f = e THEN o ELSE tree[s][f]
    BY <1>1, <1>2 DEF ScanInv, ScanTypeOK
  <2>2. \A f \in Entry : tree'[s][f] \in {None, TreeOf(s, f)}
    BY <1>4, <2>1 DEF ScanInv, SideInv
  <2> QED
    BY <1>1, <1>7, <2>2 DEF ScanInv, SideInv, TreeOf
<1>10. ASSUME NEW u \in Side, u # s PROVE EntryInv(u)' /\ SideInv(u)'
  <2>1. pc'[u] = pc[u] /\ req'[u] = req[u] /\ answer'[u] = answer[u]
    BY <1>1, SMTT(30) DEF cacheVars
  <2>2. scan'[u] = scan[u] /\ user'[u] = user[u] /\ entry'[u] = entry[u]
        /\ tree'[u] = tree[u]
    BY <1>1, <1>10 DEF ScanInv, ScanTypeOK
  <2> QED
    BY <1>1, <2>1, <2>2, SideFrame DEF ScanInv
<1>11. ScanTypeOK'
  BY <1>1, <1>2, <1>5, <1>6, Zenon DEF ScanInv, ScanTypeOK, CacheInv
<1>12. OutcomeInv'
  BY <1>1, <1>7 DEF ScanInv, ScanTypeOK, OutcomeInv, SideInv, Side
<1> QED
  BY <1>6, <1>8, <1>9, <1>10, <1>11, <1>12 DEF ScanInv

\* A scan ends, with an exception or because nothing is left to visit.
LEMMA EndInv ==
    ASSUME ScanInv, NEW s \in Side, ReadFails(s) \/ LookupFails(s) \/ EndScan(s)
    PROVE  ScanInv'
<1>1. /\ scan[s] \in {"next", "user", "group"} /\ pc[s] = "idle"
      /\ scan' = [scan EXCEPT ![s] = "ended"]
      /\ \A u \in Side : u # s =>
            entry'[u] = entry[u] /\ user'[u] = user[u] /\ exception'[u] = exception[u]
      /\ exception'[s] # <<>> \/ Unvisited(s) = {}
      /\ exception'[s] \in {<<>>, <<s>>}
      /\ UNCHANGED <<cacheVars, threads, tree, outcome, message>>
  <2>1. CASE EndScan(s)
    BY <2>1 DEF EndScan, ScanInv, EntryInv, SideInv
  <2>2. CASE ReadFails(s) \/ LookupFails(s)
    <3>1. Catch(s) /\ scan[s] \in {"next", "user", "group"} /\ pc[s] = "idle"
      BY <2>2 DEF ReadFails, LookupFails
    <3>2. exception'[s] = <<s>> /\ <<s>> # <<>>
      BY <3>1, SMTT(30) DEF Catch, ScanInv, ScanTypeOK
    <3> QED
      BY <3>1, <3>2 DEF Catch, ScanInv, ScanTypeOK
  <2> QED
    BY <2>1, <2>2, SMTT(30)
<1>2. CacheInv' /\ OnlyDatabaseNames'
  BY <1>1 DEF ScanInv, CacheInv, cacheVars, OnlyDatabaseNames, TypeOK, Holds, Cached
<1>3. scan'[s] = "ended" /\ pc'[s] = "idle"
  BY <1>1, Zenon DEF ScanInv, ScanTypeOK, cacheVars
<1>4. EntryInv(s)' /\ SideInv(s)'
  BY <1>1, <1>3, Zenon DEF ScanInv, EntryInv, SideInv, Unvisited, TreeOf
<1>5. ASSUME NEW u \in Side, u # s PROVE EntryInv(u)' /\ SideInv(u)'
  <2>1. pc'[u] = pc[u] /\ req'[u] = req[u] /\ answer'[u] = answer[u]
    BY <1>1, ZenonT(30) DEF cacheVars
  <2>2. scan'[u] = scan[u]
    BY <1>1, <1>5, ZenonT(30) DEF ScanInv, ScanTypeOK
  <2> QED
    BY <1>1, <1>5, <2>1, <2>2, SideFrame, ZenonT(30) DEF ScanInv
<1>6. ScanTypeOK'
  <2>1. /\ entry' \in [Side -> Entry \cup {None}]
        /\ user' \in [Side -> Label \cup {None}]
    BY SMTT(30) DEF ScanInv, ScanTypeOK, ReadFails, LookupFails, EndScan, Catch
  <2>2. exception' \in [Side -> {<<>>, <<"src">>, <<"dst">>}]
    <3>1. <<s>> \in {<<"src">>, <<"dst">>}
      BY DEF Side
    <3> QED
      BY <3>1 DEF ScanInv, ScanTypeOK, ReadFails, LookupFails, EndScan, Catch
  <2> QED
    BY <1>1, <1>2, <2>1, <2>2, ZenonT(30) DEF ScanInv, ScanTypeOK, CacheInv
<1>7. OutcomeInv'
  <2>1. outcome = "scanning" /\ outcome' = "scanning"
    BY <1>1 DEF ScanInv, OutcomeInv, ScanTypeOK
  <2>2. scan'["src"] # "waiting"
    BY <1>1 DEF ScanInv, OutcomeInv, ScanTypeOK, Side
  <2>3. scan'["dst"] = "waiting" => ~threads'
    BY <1>1 DEF ScanInv, OutcomeInv, ScanTypeOK, Side
  <2>4. ~threads' /\ scan'["dst"] # "waiting" =>
          exception'["src"] = <<>> /\ scan'["src"] = "ended"
    BY <1>1 DEF ScanInv, OutcomeInv, ScanTypeOK, Side
  <2> QED
    BY <2>1, <2>2, <2>3, <2>4 DEF OutcomeInv
<1> QED
  BY <1>2, <1>4, <1>5, <1>6, <1>7 DEF ScanInv

\* Without threads, the scan of the backup directory starts.
LEMMA ScanDstInv ==
    ASSUME ScanInv, ScanDst
    PROVE  ScanInv'
<1>1. /\ ~threads /\ scan["src"] = "ended" /\ scan["dst"] = "waiting"
      /\ exception["src"] = <<>> /\ scan' = [scan EXCEPT !["dst"] = "next"]
      /\ UNCHANGED <<cacheVars, threads, entry, user, tree, exception, outcome, message>>
  BY DEF ScanDst
<1>2. CacheInv' /\ OnlyDatabaseNames'
  BY <1>1, Zenon DEF ScanInv, CacheInv, cacheVars, OnlyDatabaseNames, TypeOK, Holds, Cached
<1>3. scan'["dst"] = "next" /\ scan'["src"] = "ended"
  BY <1>1 DEF ScanInv, ScanTypeOK, Side
<1>4. EntryInv("dst")' /\ SideInv("dst")'
  BY <1>1, <1>3, Zenon DEF ScanInv, EntryInv, SideInv, Unvisited, TreeOf, cacheVars, Side
<1>5. EntryInv("src")' /\ SideInv("src")'
  BY <1>1, <1>3, SideFrame DEF ScanInv, cacheVars, Side
<1>6. ScanTypeOK'
  BY <1>1, <1>2, Zenon DEF ScanInv, ScanTypeOK, CacheInv
<1>7. OutcomeInv'
  BY <1>1, <1>3 DEF ScanInv, ScanTypeOK, OutcomeInv, Side
<1> QED
  BY <1>2, <1>4, <1>5, <1>6, <1>7 DEF ScanInv, Side

\* Two messages in one: nothing of either is lost.
LEMMA Concat ==
    ASSUME NEW x \in {<<>>, <<"src">>}, NEW y \in {<<>>, <<"dst">>},
           NEW text \in {x \o y, y \o x}
    PROVE  /\ text \in Seq(Side)
           /\ text = <<>> => x = <<>> /\ y = <<>>
           /\ x # <<>> => \E i \in DOMAIN text : text[i] = "src"
           /\ y # <<>> => \E i \in DOMAIN text : text[i] = "dst"
<1>1. x \in Seq(Side) /\ y \in Seq(Side) /\ Len(x) \in {0, 1} /\ Len(y) \in {0, 1}
  <2>1. /\ <<"src">> \in Seq(Side) /\ Len(<<"src">>) = 1
        /\ <<"dst">> \in Seq(Side) /\ Len(<<"dst">>) = 1
        /\ <<>> \in Seq(Side) /\ Len(<<>>) = 0
    BY DEF Side
  <2>2. (x = <<>> \/ x = <<"src">>) /\ (y = <<>> \/ y = <<"dst">>)
    OBVIOUS
  <2> QED
    BY <2>1, <2>2, Zenon
<1>2. /\ x # <<>> => Len(x) = 1 /\ x[1] = "src"
      /\ y # <<>> => Len(y) = 1 /\ y[1] = "dst"
  OBVIOUS
<1>3. /\ text \in Seq(Side) /\ Len(text) = Len(x) + Len(y)
      /\ DOMAIN text = 1 .. Len(text)
  BY <1>1, SMTT(30)
<1>4. x # <<>> => text[1] = "src" \/ text[Len(y) + 1] = "src"
  BY <1>1, <1>2
<1>5. y # <<>> => text[1] = "dst" \/ text[Len(x) + 1] = "dst"
  BY <1>1, <1>2
<1>6. text = <<>> => Len(x) = 0 /\ Len(y) = 0
  BY <1>1, <1>3
<1>7. text = <<>> => x = <<>> /\ y = <<>>
  BY <1>2, <1>6
<1>8. x # <<>> => 1 \in DOMAIN text /\ Len(y) + 1 \in DOMAIN text
  BY <1>1, <1>2, <1>3
<1>9. y # <<>> => 1 \in DOMAIN text /\ Len(x) + 1 \in DOMAIN text
  BY <1>1, <1>2, <1>3
<1> QED
  BY <1>3, <1>4, <1>5, <1>7, <1>8, <1>9, Zenon

\* What is known when the call is left: which scans have ended, and that the
\* message is empty only if neither threw.
LEMMA LeaveFacts ==
    ASSUME ScanInv, Join \/ Propagate
    PROVE  /\ outcome = "scanning"
           /\ \A s \in Side : scan[s] \in {"waiting", "ended"}
           /\ outcome' = "returned" =>
                \A s \in Side : scan[s] = "ended" /\ exception[s] = <<>>
           /\ outcome' = "threw" /\ scan["dst"] = "waiting" => exception["src"] # <<>>
           /\ outcome' \in {"returned", "threw"} /\ message' \in Seq(Side)
           /\ \A s \in Side :
                exception[s] # <<>> => \E i \in DOMAIN message' : message'[i] = s
           /\ UNCHANGED <<cacheVars, threads, scan, entry, user, tree, exception>>
<1>0. PICK x, y : x = exception["src"] /\ y = exception["dst"]
  OBVIOUS
<1>1. x \in {<<>>, <<"src">>} /\ y \in {<<>>, <<"dst">>}
  BY <1>0 DEF ScanInv, SideInv, Side
<1>2. (x # <<>> => scan["src"] = "ended") /\ (y # <<>> => scan["dst"] = "ended")
  BY <1>0 DEF ScanInv, SideInv, Side
<1>3. /\ outcome = "scanning"
      /\ message' = y \o x \/ message' = x \o y
      /\ outcome' = IF message' = <<>> THEN "returned" ELSE "threw"
      /\ UNCHANGED <<cacheVars, threads, scan, entry, user, tree, exception>>
  BY <1>0, Zenon DEF Join, Propagate, Finish
<1>4. x # <<>> \/ scan["dst"] = "ended"
  BY <1>0 DEF Join, Propagate
<1>5. scan["src"] = "ended"
  BY <1>0, <1>2, <1>4 DEF Join, Propagate, ScanInv, OutcomeInv
<1>6. scan["dst"] \in {"waiting", "ended"}
  BY <1>4 DEF Join, Propagate, ScanInv, OutcomeInv
<1>7. /\ message' = <<>> => x = <<>> /\ y = <<>>
      /\ message' \in Seq(Side)
      /\ x # <<>> => \E i \in DOMAIN message' : message'[i] = "src"
      /\ y # <<>> => \E i \in DOMAIN message' : message'[i] = "dst"
  <2>1. PICK text : text = message'
    OBVIOUS
  <2>2. text \in {x \o y, y \o x}
    BY <1>3, <2>1
  <2>3. /\ text \in Seq(Side)
        /\ text = <<>> => x = <<>> /\ y = <<>>
        /\ x # <<>> => \E i \in DOMAIN text : text[i] = "src"
        /\ y # <<>> => \E i \in DOMAIN text : text[i] = "dst"
    BY <1>1, <2>2, Concat
  <2> QED
    BY <2>1, <2>3
<1> QED
  BY <1>0, <1>3, <1>4, <1>5, <1>6, <1>7 DEF Side

\* The call is left.
LEMMA LeaveInv ==
    ASSUME ScanInv, Join \/ Propagate
    PROVE  ScanInv'
<1>1. UNCHANGED <<cacheVars, threads, scan, entry, user, tree, exception>>
  BY LeaveFacts
<1>2. CacheInv' /\ OnlyDatabaseNames'
  BY <1>1, Zenon DEF ScanInv, CacheInv, cacheVars, OnlyDatabaseNames, TypeOK, Holds, Cached
<1>3. \A s \in Side : EntryInv(s)' /\ SideInv(s)'
  BY <1>1, SideFrame, Zenon DEF ScanInv, cacheVars
<1>4. ScanTypeOK'
  BY <1>1, <1>2, LeaveFacts, Zenon DEF ScanInv, ScanTypeOK, CacheInv
<1>5. OutcomeInv'
  BY <1>1, LeaveFacts, Zenon DEF ScanInv, OutcomeInv
<1> QED
  BY <1>2, <1>3, <1>4, <1>5 DEF ScanInv

\* A step of the scan keeps the invariant of the scan.
LEMMA ScanStepInv ==
    ASSUME ScanInv,
           \/ \E s \in Side : Scanning(s)
           \/ Join \/ ScanDst \/ Propagate
    PROVE  ScanInv'
<1>1. ASSUME NEW s \in Side, Scanning(s) PROVE ScanInv'
  BY <1>1, VisitInv, GotUserInv, GotGroupInv, EndInv, LookupStepInv DEF Scanning
<1> QED
  BY <1>1, ScanDstInv, LeaveInv

\* After the scan only lookups are left.
LEMMA AfterScan ==
    ASSUME outcome # "scanning", ScanTypeOK, OutcomeInv, Next
    PROVE  /\ UNCHANGED scanVars
           /\ \/ \E s \in Side : CacheStep(s)
              \/ \E r \in ByName : Call("dst", r)
              \/ UNCHANGED cacheVars
<1>1. \A s \in Side : scan[s] \in {"waiting", "ended"}
  BY DEF OutcomeInv
<1>2. ASSUME NEW s \in Side, Scanning(s) PROVE CacheStep(s) /\ UNCHANGED scanVars
  BY <1>1, <1>2, SMTT(30) DEF Scanning, Visit, GotUser, GotGroup, ReadFails, LookupFails, EndScan
<1>3. ~Join /\ ~Propagate
  BY DEF Join, Propagate
<1>4. ~ScanDst
  BY DEF ScanDst, OutcomeInv, ScanTypeOK, Side
<1>5. CASE ChangeOwner
  BY <1>5 DEF ChangeOwner
<1>6. CASE Terminated
  BY <1>6 DEF Terminated, vars
<1> QED
  BY <1>2, <1>3, <1>4, <1>5, <1>6 DEF Next

\* Every step keeps the invariant.
LEMMA ThreadsNextInv == ThreadsInv /\ [Next]_vars => ThreadsInv'
<1> SUFFICES ASSUME ThreadsInv, [Next]_vars PROVE ThreadsInv'
  OBVIOUS
<1>1. CASE UNCHANGED vars
  <2>1. CacheInv' = CacheInv /\ OnlyDatabaseNames' = OnlyDatabaseNames
    BY <1>1, ZenonT(30) DEF vars, CacheInv, cacheVars, OnlyDatabaseNames, TypeOK, Holds, Cached
  <2>2. outcome' = outcome
    BY <1>1 DEF vars, scanVars
  <2>3. ScanTypeOK /\ OutcomeInv /\ CacheInv => ScanTypeOK' /\ OutcomeInv'
    BY <1>1, <2>1, Zenon DEF vars, scanVars, ScanTypeOK, OutcomeInv, CacheInv
  <2>4. ScanInv => \A s \in Side : EntryInv(s)' /\ SideInv(s)'
    BY <1>1, SideFrame, Zenon DEF vars, scanVars, ScanInv, cacheVars
  <2> QED
    BY <2>1, <2>2, <2>3, <2>4 DEF ThreadsInv, ScanInv
<1>2. CASE outcome = "scanning" /\ Next
  <2>1. ScanInv
    BY <1>2 DEF ThreadsInv
  <2>2. ~ChangeOwner /\ ~Terminated
    BY <1>2 DEF ChangeOwner, Terminated
  <2>3. ScanInv'
    BY <1>2, <2>1, <2>2, ScanStepInv DEF Next
  <2> QED
    BY <2>3 DEF ThreadsInv, ScanInv
<1>3. CASE outcome # "scanning" /\ Next
  <2>1. CacheInv /\ ScanTypeOK /\ OutcomeInv
    BY <1>3 DEF ThreadsInv
  <2>2. /\ UNCHANGED scanVars
        /\ \/ \E s \in Side : CacheStep(s)
           \/ \E r \in ByName : Call("dst", r)
           \/ UNCHANGED cacheVars
    BY <1>3, <2>1, AfterScan
  <2>3. CacheInv'
    <3>1. CASE \E s \in Side : CacheStep(s)
      BY <2>1, <3>1, CacheStepInv, ScanAssumption
    <3>2. CASE \E r \in ByName : Call("dst", r)
      <4>1. "dst" \in Thread /\ ByName \subseteq Request
        BY ScanAssumption DEF Side, Request
      <4> QED
        BY <2>1, <3>2, <4>1, CallInv
    <3>3. CASE UNCHANGED cacheVars
      BY <2>1, <3>3, ZenonT(30) DEF CacheInv, cacheVars, TypeOK, Holds, Cached
    <3> QED
      BY <2>2, <3>1, <3>2, <3>3
  <2>4. ScanTypeOK' /\ OutcomeInv'
    BY <2>1, <2>2, <2>3, Zenon DEF ScanTypeOK, OutcomeInv, scanVars, CacheInv
  <2>5. outcome' # "scanning"
    BY <1>3, <2>2 DEF scanVars
  <2> QED
    BY <2>3, <2>4, <2>5 DEF ThreadsInv
<1> QED
  BY <1>1, <1>2, <1>3

-----------------------------------------------------------------------------
(* The theorems *)

\* ThreadsInv is an invariant.
THEOREM ThreadsInvariant == Spec => []ThreadsInv
<1>1. Init => ThreadsInv
  BY ScanInitInv DEF Init, ThreadsInv
<1> QED
  BY <1>1, ThreadsNextInv, PTL DEF Spec

\* When scanSourceTargetDir is left no thread is scanning, and no message is
\* lost: NothingOutlivesTheCall.
THEOREM NothingOutlivesTheCallTheorem == Spec => []NothingOutlivesTheCall
<1>1. ThreadsInv => NothingOutlivesTheCall
  BY Zenon DEF ThreadsInv, ScanInv, OutcomeInv, NothingOutlivesTheCall
<1> QED
  BY <1>1, ThreadsInvariant, PTL

\* A scan that has ended without an exception has the whole directory.
LEMMA EndedIsComplete ==
    ASSUME ScanInv, NEW s \in Side, scan[s] = "ended", exception[s] = <<>>
    PROVE  tree[s] = ScanSpec!TreeOf(s)
<1>1. Unvisited(s) = {}
  BY DEF ScanInv, SideInv
<1>2. ASSUME NEW e \in Entry PROVE tree[s][e] = TreeOf(s, e)
  BY <1>1 DEF ScanInv, SideInv, Unvisited, TreeOf
<1>3. tree[s] = [e \in Entry |-> tree[s][e]]
  BY DEF ScanInv, ScanTypeOK
<1>4. ScanSpec!TreeOf(s) = [e \in Entry |-> TreeOf(s, e)]
  BY Zenon DEF TreeOf, ScanSpec!TreeOf, NameFor, ScanSpec!NameFor
<1>5. tree[s] = [e \in Entry |-> TreeOf(s, e)]
  <2> DEFINE f[e \in Entry] == TreeOf(s, e)
  <2>1. \A e \in Entry : tree[s][e] = f[e]
    BY <1>2
  <2>2. tree[s] = f
    BY <1>3, <2>1
  <2> QED
    BY <2>2
<1> QED
  BY <1>4, <1>5

\* The scan in two threads, and the one without threads, implement the scan:
\* ScanIsComplete.
THEOREM ScanIsCompleteTheorem == Spec => ScanIsComplete
<1>1. Init => ScanSpec!Init
  BY DEF Init, ScanSpec!Init, ScanSpec!Empty, treeBar, Side, ScanSpec!Side
<1>2. ThreadsInv /\ [Next]_vars => [ScanSpec!Complete \/ ScanSpec!Throw]_ScanSpec!vars
  <2> SUFFICES ASSUME ThreadsInv, [Next]_vars
               PROVE  [ScanSpec!Complete \/ ScanSpec!Throw]_ScanSpec!vars
    OBVIOUS
  <2>1. CASE Join \/ Propagate
    <3>0. ScanInv
      BY <2>1 DEF Join, Propagate, ThreadsInv
    <3>1. CASE outcome' = "returned"
      <4>1. \A s \in Side : tree[s] = ScanSpec!TreeOf(s)
        BY <2>1, <3>0, <3>1, LeaveFacts, EndedIsComplete
      <4>2. tree = [s \in Side |-> tree[s]]
        BY <3>0 DEF ScanInv, ScanTypeOK
      <4>3. treeBar' = [s \in ScanSpec!Side |-> ScanSpec!TreeOf(s)]
        BY <2>1, <3>0, <3>1, <4>1, <4>2, LeaveFacts DEF treeBar, Side, ScanSpec!Side
      <4> QED
        BY <2>1, <3>0, <3>1, <4>3, LeaveFacts DEF ScanSpec!Complete
    <3>2. CASE outcome' = "threw"
      BY <2>1, <3>0, <3>2, LeaveFacts DEF ScanSpec!Throw, treeBar
    <3> QED
      BY <2>1, <3>0, <3>1, <3>2, LeaveFacts
  <2>2. ASSUME NEW s \in Side, Scanning(s), outcome = "scanning"
        PROVE  UNCHANGED <<treeBar, outcome>>
    <3>1. outcome' = outcome
      BY <2>2 DEF Scanning, Visit, GotUser, GotGroup, ReadFails, LookupFails,
        EndScan, Catch, scanVars
    <3> QED
      BY <2>2, <3>1 DEF treeBar
  <2>3. CASE ScanDst
    BY <2>3, Zenon DEF ScanDst, treeBar, ScanSpec!vars
  <2>4. CASE UNCHANGED scanVars
    BY <2>4 DEF scanVars, treeBar, ScanSpec!vars
  <2>5. CASE outcome # "scanning" /\ Next
    BY <2>4, <2>5, AfterScan DEF ThreadsInv
  <2>6. CASE outcome = "scanning" /\ Next
    BY <2>1, <2>2, <2>3, <2>6 DEF Next, ChangeOwner, Terminated, ScanSpec!vars
  <2> QED
    BY <2>4, <2>5, <2>6 DEF vars
<1> QED
  BY <1>1, <1>2, ThreadsInvariant, PTL DEF Spec, ScanIsComplete, ScanSpec!Spec

-----------------------------------------------------------------------------
(* The caches in this program *)

\* A step of the program is a step of the lookup functions, or leaves their
\* state alone.
LEMMA ScanUsesCache == ThreadsInv /\ [Next]_vars => [CacheNext]_cacheVars
<1> SUFFICES ASSUME ThreadsInv, [Next]_vars PROVE [CacheNext]_cacheVars
  OBVIOUS
<1>0. Side = Thread /\ "dst" \in Thread /\ ByName \subseteq Request
  BY ScanAssumption DEF Side, Request
<1>1. CASE UNCHANGED cacheVars
  BY <1>1
<1>2. ASSUME NEW s \in Side, Visit(s) PROVE CacheNext
  <2>1. PICK e \in Unvisited(s) : Call(s, UserOf(s, e))
    BY <1>2 DEF Visit
  <2>2. UserOf(s, e) \in Request
    BY <2>1, ScanRequests DEF Unvisited
  <2> QED
    BY <1>0, <2>1, <2>2 DEF CacheNext
<1>3. ASSUME NEW s \in Side, GotUser(s) PROVE CacheNext
  <2>1. scan[s] = "user" /\ Call(s, GroupOf(s, entry[s]))
    BY <1>3 DEF GotUser
  <2>2. entry[s] \in Entry /\ OwnerId[s][entry[s]] # None
    BY <2>1 DEF ThreadsInv, ScanInv, EntryInv, OutcomeInv
  <2>3. GroupOf(s, entry[s]) \in Request
    BY <2>2, ScanRequests
  <2> QED
    BY <1>0, <2>1, <2>3 DEF CacheNext
<1>4. ASSUME NEW s \in Side, Scanning(s) PROVE CacheNext \/ UNCHANGED cacheVars
  BY <1>0, <1>2, <1>3, <1>4 DEF Scanning, GotGroup, ReadFails, LookupFails, Catch, EndScan,
    CacheNext
<1>5. CASE ChangeOwner
  BY <1>0, <1>5 DEF ChangeOwner, CacheNext
<1>6. CASE Join \/ Propagate \/ ScanDst \/ Terminated \/ UNCHANGED vars
  BY <1>6, Zenon DEF Join, Propagate, Finish, ScanDst, Terminated, vars
<1> QED
  BY <1>4, <1>5, <1>6 DEF Next

\* The program calls the lookup functions as CacheSpec says, so that its owners
\* survive a copy: NamesLeadBack, for the names that the scans read and the ids
\* that the caller then looks up.
THEOREM OwnersSurviveCopying == Spec => []NamesLeadBack
<1>1. Init => CacheInit
  BY DEF Init
<1>2. Spec => CacheSpec
  BY <1>1, ScanUsesCache, ThreadsInvariant, PTL DEF Spec, CacheSpec
<1> QED
  BY <1>2, NamesLeadBackTheorem, PTL

=============================================================================
