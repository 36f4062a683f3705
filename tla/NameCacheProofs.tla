--------------------------- MODULE NameCacheProofs ---------------------------
(***************************************************************************)
(* The lookup functions are atomic, names lead back to ids, and answers    *)
(* stand, for any number of threads, ids and names and any databases.      *)
(***************************************************************************)
EXTENDS NameCache, TLAPS

\* The thread is between the construction and the destruction of its lock
Holds(t) == pc[t] \in {"find", "query", "insert", "return"}

\* The mutex, and what a thread knows between two steps of its call because
\* nobody else can be in one: the caches still lack what it missed, and the
\* buffer still holds its result.
CacheInv ==
    /\ TypeOK
    /\ \A t \in Thread :
        /\ Holds(t) <=> m = t
        /\ pc[t] = "idle" <=> req[t] = None
        /\ pc[t] = "return" => answer[t] # None
        /\ pc[t] \in {"lock", "find", "query", "insert"} => answer[t] = None
        /\ pc[t] \in {"query", "insert"} => Cached(req[t]) = None
        /\ pc[t] = "insert" /\ req[t].by = "id" =>
            \/ /\ result[t] = None
               /\ NameById[req[t].kind][req[t].id] = None
            \/ /\ result[t] = req[t].id
               /\ NameById[req[t].kind][req[t].id] # None
               /\ structBuffer = NameById[req[t].kind][req[t].id]
        /\ pc[t] = "insert" /\ req[t].by = "name" =>
            result[t] = IdByName[req[t].kind][req[t].name]

\* A request is by id or by name, and has what it asks about.
LEMMA RequestFields ==
    ASSUME NEW r \in Request
    PROVE  /\ r # None /\ r.kind \in Kind
           /\ \/ r.by = "id" /\ r.id \in Id
              \/ r.by = "name" /\ r.name \in Label
BY NameAssumption DEF Request, ById, ByName

\* The invariant holds of the empty caches.
LEMMA CacheInitInv == CacheInit => CacheInv
BY NameAssumption DEF CacheInit, CacheInv, TypeOK, Holds, Kind, Cached

\* What Insert makes of the caches when a name and an id are learned.
LEMMA LearnKeeps ==
    ASSUME TypeOK, NEW k \in Kind, NEW i \in Id, NEW n \in Label,
           cache' = Insert(cache, k, i, n),
           reverseCache' = Insert(reverseCache, k, n, i)
    PROVE  /\ cache' \in [Kind -> [Id -> Label \cup {None}]]
           /\ reverseCache' \in [Kind -> [Label -> Id \cup {None}]]
           /\ cache'[k][i] = IF cache[k][i] = None THEN n ELSE cache[k][i]
           /\ reverseCache'[k][n] = IF reverseCache[k][n] = None
                                    THEN i ELSE reverseCache[k][n]
           /\ \A l \in Kind, j \in Id :
                /\ l # k \/ j # i => cache'[l][j] = cache[l][j]
                /\ cache[l][j] # None => cache'[l][j] = cache[l][j]
           /\ \A l \in Kind, o \in Label :
                /\ l # k \/ o # n => reverseCache'[l][o] = reverseCache[l][o]
                /\ reverseCache[l][o] # None =>
                     reverseCache'[l][o] = reverseCache[l][o]
<1>1. cache \in [Kind -> [Id -> Label \cup {None}]] /\ None \notin Label
  BY NameAssumption DEF TypeOK
<1>2. reverseCache \in [Kind -> [Label -> Id \cup {None}]] /\ None \notin Id
  BY NameAssumption DEF TypeOK
<1>3. /\ cache' \in [Kind -> [Id -> Label \cup {None}]]
      /\ cache'[k][i] = IF cache[k][i] = None THEN n ELSE cache[k][i]
      /\ \A l \in Kind, j \in Id :
           /\ l # k \/ j # i => cache'[l][j] = cache[l][j]
           /\ cache[l][j] # None => cache'[l][j] = cache[l][j]
  BY <1>1 DEF Insert
<1>4. /\ reverseCache' \in [Kind -> [Label -> Id \cup {None}]]
      /\ reverseCache'[k][n] = IF reverseCache[k][n] = None
                               THEN i ELSE reverseCache[k][n]
      /\ \A l \in Kind, o \in Label :
           /\ l # k \/ o # n => reverseCache'[l][o] = reverseCache[l][o]
           /\ reverseCache[l][o] # None =>
                reverseCache'[l][o] = reverseCache[l][o]
  BY <1>2, SMTT(30) DEF Insert
<1> QED
  BY <1>3, <1>4

\* A call keeps the invariant.
LEMMA CallInv ==
    ASSUME CacheInv, NEW t \in Thread, NEW r \in Request, Call(t, r)
    PROVE  CacheInv'
BY RequestFields, NameAssumption DEF CacheInv, TypeOK, Call, Goto, Holds, Cached

\* The name that InsertName learns is the one the database gives, or the
\* number of the id: nobody has written to the buffer since Query.
LEMMA InsertNameLearns ==
    ASSUME CacheInv, NEW t \in Thread, InsertName(t)
    PROVE  LET k == req[t].kind
               i == req[t].id IN
           /\ k \in Kind /\ i \in Id /\ NameFor(k, i) \in Label
           /\ cache[k][i] = None
           /\ cache' = Insert(cache, k, i, NameFor(k, i))
           /\ reverseCache' = Insert(reverseCache, k, NameFor(k, i), i)
           /\ answer' = [answer EXCEPT ![t] = NameFor(k, i)]
<1> DEFINE k == req[t].kind
           i == req[t].id
           n == IF result[t] = None THEN ToString[i] ELSE structBuffer
<1>1. req[t] \in Request /\ req[t].by = "id"
  BY DEF CacheInv, TypeOK, InsertName
<1>2. k \in Kind /\ i \in Id
  BY <1>1, RequestFields, SMTT(30)
<1>3. n = NameFor(k, i) /\ NameFor(k, i) \in Label
  BY <1>2, NameAssumption, SMTT(30) DEF CacheInv, InsertName, NameFor
<1>4. cache[k][i] = None
  BY <1>1 DEF CacheInv, InsertName, Cached
<1>5. /\ cache' = Insert(cache, k, i, n)
      /\ reverseCache' = Insert(reverseCache, k, n, i)
      /\ answer' = [answer EXCEPT ![t] = cache'[k][i]]
  BY DEF InsertName
<1> HIDE DEF k, i, n
<1>6. cache'[k][i] = n
  <2>1. TypeOK /\ n \in Label
    BY <1>3, SMTT(30) DEF CacheInv
  <2> QED
    BY <1>2, <1>4, <1>5, <2>1, LearnKeeps
<1> USE DEF k, i
<1> QED
  BY <1>2, <1>3, <1>4, <1>5, <1>6

\* The id that InsertId learns is the one the database gives.
LEMMA InsertIdLearns ==
    ASSUME CacheInv, NEW t \in Thread, InsertId(t)
    PROVE  LET k == req[t].kind
               n == req[t].name
               i == IdByName[k][n] IN
           /\ k \in Kind /\ n \in Label /\ i \in Id
           /\ reverseCache[k][n] = None
           /\ cache' = Insert(cache, k, i, n)
           /\ reverseCache' = Insert(reverseCache, k, n, i)
           /\ answer' = [answer EXCEPT ![t] = i]
<1> DEFINE k == req[t].kind
           n == req[t].name
           i == IdByName[k][n]
<1>1. req[t] \in Request /\ req[t].by = "name" /\ result[t] # None
  BY DEF CacheInv, TypeOK, InsertId
<1>2. k \in Kind /\ n \in Label
  BY <1>1, RequestFields
<1>3. result[t] = i /\ i \in Id
  BY <1>1, <1>2, NameAssumption DEF CacheInv, InsertId
<1>4. reverseCache[k][n] = None
  BY <1>1, SMTT(30) DEF CacheInv, InsertId, Cached
<1>5. /\ cache' = Insert(cache, k, i, n)
      /\ reverseCache' = Insert(reverseCache, k, n, i)
      /\ answer' = [answer EXCEPT ![t] = reverseCache'[k][n]]
  BY <1>3 DEF InsertId
<1> HIDE DEF k, i, n
<1>6. reverseCache'[k][n] = i
  <2>1. TypeOK
    BY DEF CacheInv
  <2> QED
    BY <1>2, <1>3, <1>4, <1>5, <2>1, LearnKeeps
<1> USE DEF k, i, n
<1> QED
  BY <1>2, <1>3, <1>4, <1>5, <1>6

\* Every step of a call keeps the invariant.
LEMMA CacheStepInv ==
    ASSUME CacheInv, NEW t \in Thread, CacheStep(t)
    PROVE  CacheInv'
<1> USE NameAssumption
<1>0. req[t] # None => req[t] \in Request
  BY DEF CacheInv, TypeOK
<1>1. CASE Lock(t)
  BY <1>1, SMTT(30) DEF CacheInv, TypeOK, Lock, Goto, Holds, Cached
<1>2. CASE Hit(t)
  <2>1. req[t] \in Request
    BY <1>0, <1>2 DEF CacheInv, Hit
  <2>2. Cached(req[t]) \in Id \cup Label \cup {None}
    BY <2>1, RequestFields DEF Cached, CacheInv, TypeOK
  <2> QED
    BY <1>2, <2>1, <2>2, ZenonT(30) DEF CacheInv, TypeOK, Hit, Goto, Holds, Cached
<1>3. CASE Miss(t)
  BY <1>3 DEF CacheInv, TypeOK, Miss, Goto, Holds, Cached
<1>4. CASE Query(t)
  <2>1. req[t] \in Request
    BY <1>0, <1>4 DEF CacheInv, Query
  <2>2. \A u \in Thread : Holds(u) <=> u = t
    BY <1>4, SMTT(30) DEF CacheInv, Query, Holds
  <2>3. TypeOK'
    BY <1>4, <2>1, RequestFields DEF CacheInv, TypeOK, Query, Goto
  <2>4. Cached(req[t]) = None /\ answer[t] = None
    BY <1>4 DEF CacheInv, Query
  <2>5. \A u \in Thread :
          /\ Holds(u)' <=> m' = u
          /\ pc'[u] = "idle" <=> req'[u] = None
          /\ pc'[u] = "return" => answer'[u] # None
          /\ pc'[u] \in {"lock", "find", "query", "insert"} => answer'[u] = None
          /\ pc'[u] \in {"query", "insert"} => Cached(req[u])' = None
    BY <1>4, <2>2, <2>4 DEF CacheInv, TypeOK, Query, Goto, Holds, Cached
  <2>6. \A u \in Thread : pc'[u] = "insert" => u = t
    BY <1>4, <2>2 DEF CacheInv, TypeOK, Query, Goto, Holds
  <2>7. req[t].by = "id" =>
          \/ result'[t] = None /\ NameById[req[t].kind][req[t].id] = None
          \/ /\ result'[t] = req[t].id
             /\ NameById[req[t].kind][req[t].id] # None
             /\ structBuffer' = NameById[req[t].kind][req[t].id]
    BY <1>4, <2>1, RequestFields DEF CacheInv, TypeOK, Query
  <2>8. req[t].by = "name" => result'[t] = IdByName[req[t].kind][req[t].name]
    BY <1>4 DEF CacheInv, TypeOK, Query
  <2>9. req' = req
    BY <1>4 DEF Query
  <2> QED
    BY <2>3, <2>5, <2>6, <2>7, <2>8, <2>9 DEF CacheInv
<1>5. CASE QueryFails(t)
  BY <1>5 DEF CacheInv, TypeOK, QueryFails, Throw, Goto, Holds, Cached
<1>6. CASE InsertName(t)
  <2>1. \A u \in Thread : Holds(u) <=> u = t
    BY <1>6 DEF CacheInv, InsertName, Holds
  <2>2. /\ answer' = [answer EXCEPT ![t] = NameFor(req[t].kind, req[t].id)]
        /\ NameFor(req[t].kind, req[t].id) \in Label
    BY <1>6, InsertNameLearns, SMTT(30)
  <2>3. /\ cache' \in [Kind -> [Id -> Label \cup {None}]]
        /\ reverseCache' \in [Kind -> [Label -> Id \cup {None}]]
    BY <1>6, InsertNameLearns, LearnKeeps DEF CacheInv
  <2>4. /\ pc' = [pc EXCEPT ![t] = "return"]
        /\ UNCHANGED <<m, structBuffer, req, result>>
    BY <1>6 DEF InsertName, Goto
  <2>5. TypeOK'
    BY <2>2, <2>3, <2>4 DEF CacheInv, TypeOK
  <2>6. \A u \in Thread : pc'[u] \notin {"query", "insert"}
    BY <2>1, <2>4, SMTT(30) DEF CacheInv, TypeOK, Holds
  <2>7. \A u \in Thread :
          /\ Holds(u)' <=> m' = u
          /\ pc'[u] = "idle" <=> req'[u] = None
          /\ pc'[u] = "return" => answer'[u] # None
          /\ pc'[u] \in {"lock", "find", "query", "insert"} => answer'[u] = None
    BY <1>6, <2>2, <2>4 DEF CacheInv, TypeOK, InsertName, Holds
  <2> QED
    BY <2>5, <2>6, <2>7 DEF CacheInv
<1>7. CASE InsertId(t)
  <2>1. \A u \in Thread : Holds(u) <=> u = t
    BY <1>7 DEF CacheInv, InsertId, Holds
  <2>2. /\ answer' = [answer EXCEPT ![t] = IdByName[req[t].kind][req[t].name]]
        /\ IdByName[req[t].kind][req[t].name] \in Id
    BY <1>7, InsertIdLearns, SMTT(30)
  <2>3. /\ cache' \in [Kind -> [Id -> Label \cup {None}]]
        /\ reverseCache' \in [Kind -> [Label -> Id \cup {None}]]
    BY <1>7, InsertIdLearns, LearnKeeps DEF CacheInv
  <2>4. /\ pc' = [pc EXCEPT ![t] = "return"]
        /\ UNCHANGED <<m, structBuffer, req, result>>
    BY <1>7 DEF InsertId, Goto
  <2>5. TypeOK'
    BY <2>2, <2>3, <2>4, SMTT(30) DEF CacheInv, TypeOK
  <2>6. \A u \in Thread : pc'[u] \notin {"query", "insert"}
    BY <2>1, <2>4 DEF CacheInv, TypeOK, Holds
  <2>7. \A u \in Thread :
          /\ Holds(u)' <=> m' = u
          /\ pc'[u] = "idle" <=> req'[u] = None
          /\ pc'[u] = "return" => answer'[u] # None
          /\ pc'[u] \in {"lock", "find", "query", "insert"} => answer'[u] = None
    BY <1>7, <2>2, <2>4, SMTT(30) DEF CacheInv, TypeOK, InsertId, Holds
  <2> QED
    BY <2>5, <2>6, <2>7 DEF CacheInv
<1>8. CASE NotFound(t)
  BY <1>8, SMTT(30) DEF CacheInv, TypeOK, NotFound, Throw, Goto, Holds, Cached
<1>9. CASE Return(t)
  BY <1>9 DEF CacheInv, TypeOK, Return, Goto, Holds, Cached
<1> QED
  BY <1>1, <1>2, <1>3, <1>4, <1>5, <1>6, <1>7, <1>8, <1>9 DEF CacheStep

-----------------------------------------------------------------------------
(* The theorems *)

\* Every step of a call is a lookup at one instant, or is not seen.
LEMMA CacheStepImplements ==
    ASSUME CacheInv, NEW t \in Thread, CacheStep(t)
    PROVE  [Service!Next]_Service!vars
<1> USE DEF Service!Next, Service!vars
<1>0. req[t] # None => req[t] \in Request
  BY DEF CacheInv, TypeOK
<1>1. CASE Lock(t)
  BY <1>1 DEF Lock
<1>2. CASE Hit(t)
  <2>1. req[t] \in Request /\ answer[t] = None
    BY <1>0, <1>2 DEF CacheInv, Hit
  <2>2. CASE req[t].by = "id"
    <3>1. Service!LookupName(t)
      BY <1>2, <2>1, <2>2, NameAssumption
      DEF Hit, Cached, Service!LookupName, Service!Pending, Service!Answer
    <3> QED
      BY <3>1, SMTT(30)
  <2>3. CASE req[t].by = "name"
    <3>1. Service!LookupId(t)
      BY <1>2, <2>1, <2>3, NameAssumption
      DEF Hit, Cached, Service!LookupId, Service!Pending, Service!Answer
    <3> QED
      BY <3>1, SMTT(30)
  <2> QED
    BY <2>1, <2>2, <2>3, RequestFields
<1>3. CASE Miss(t)
  BY <1>3, SMTT(30) DEF Miss
<1>4. CASE Query(t)
  BY <1>4 DEF Query
<1>5. CASE QueryFails(t)
  <2>1. Service!Fail(t)
    BY <1>5, <1>0, RequestFields, SMTT(30) DEF CacheInv, QueryFails, Throw, Cached,
      Service!Fail, Service!Pending, Service!Answer
  <2> QED
    BY <2>1, SMTT(30)
<1>6. CASE InsertName(t)
  <2>1. req[t] # None /\ answer[t] = None /\ req[t].by = "id" /\ req' = req
    BY <1>6, SMTT(30) DEF CacheInv, InsertName
  <2>2. Service!LookupName(t)
    BY <1>6, <2>1, InsertNameLearns, Zenon
    DEF Service!LookupName, Service!Pending, Service!Answer, Service!Learn,
      Service!Insert, Insert, Service!NameFor, NameFor
  <2> QED
    BY <2>2
<1>7. CASE InsertId(t)
  <2>1. req[t] # None /\ answer[t] = None /\ req[t].by = "name" /\ req' = req
    BY <1>7 DEF CacheInv, InsertId
  <2>2. IdByName[req[t].kind][req[t].name] # None
    BY <1>7, InsertIdLearns, NameAssumption, SMTT(30)
  <2>3. Service!LookupId(t)
    BY <1>7, <2>1, <2>2, InsertIdLearns, Zenon
    DEF Service!LookupId, Service!Pending, Service!Answer, Service!Learn,
      Service!Insert, Insert
  <2> QED
    BY <2>3
<1>8. CASE NotFound(t)
  <2>1. Service!Fail(t)
    BY <1>8, <1>0, RequestFields DEF CacheInv, NotFound, Throw, Cached,
      Service!Fail, Service!Pending, Service!Answer
  <2> QED
    BY <2>1
<1>9. CASE Return(t)
  <2>1. Service!Return(t)
    BY <1>9 DEF CacheInv, Return, Service!Return
  <2> QED
    BY <2>1
<1> QED
  BY <1>1, <1>2, <1>3, <1>4, <1>5, <1>6, <1>7, <1>8, <1>9 DEF CacheStep

\* The invariant is an invariant.
THEOREM CacheInvariant == CacheSpec => []CacheInv
<1>1. CacheInv /\ [CacheNext]_cacheVars => CacheInv'
  <2> SUFFICES ASSUME CacheInv, [CacheNext]_cacheVars PROVE CacheInv'
    OBVIOUS
  <2>1. CASE CacheNext
    BY <2>1, CacheStepInv, CallInv DEF CacheNext
  <2>2. CASE UNCHANGED cacheVars
    BY <2>2 DEF cacheVars, CacheInv, TypeOK, Holds, Cached
  <2> QED
    BY <2>1, <2>2
<1> QED
  BY <1>1, CacheInitInv, PTL DEF CacheSpec

\* ext_lookup_user and ext_lookup_group implement lookups at one instant,
\* for any number of threads: LookupsAreAtomic.
THEOREM LookupsAreAtomicTheorem == CacheSpec => LookupsAreAtomic
<1>1. CacheInit => Service!Init
  BY DEF CacheInit, Service!Init, Kind, Service!Kind
<1>2. CacheInv /\ [CacheNext]_cacheVars => [Service!Next]_Service!vars
  <2> SUFFICES ASSUME CacheInv, [CacheNext]_cacheVars
               PROVE  [Service!Next]_Service!vars
    OBVIOUS
  <2>1. ASSUME NEW t \in Thread, NEW r \in Request, Call(t, r)
        PROVE  Service!Next
    <3>1. Service!Invoke(t, r)
      BY <2>1 DEF CacheInv, Call, Service!Invoke, Service!Answer
    <3> QED
      BY <3>1 DEF Service!Next, Request, Service!Request, ById, Service!ById,
        ByName, Service!ByName, Kind, Service!Kind
  <2>2. CASE CacheNext
    BY <2>2, <2>1, CacheStepImplements DEF CacheNext
  <2>3. CASE UNCHANGED cacheVars
    BY <2>3 DEF cacheVars, Service!vars
  <2> QED
    BY <2>2, <2>3
<1> QED
  BY <1>1, <1>2, CacheInvariant, PTL
  DEF CacheSpec, LookupsAreAtomic, Service!Spec

\* What a step does to the caches: nothing, or it learns an id and a name
\* from the database.
LEMMA CacheGrows ==
    ASSUME CacheInv, [CacheNext]_cacheVars
    PROVE  \/ UNCHANGED <<cache, reverseCache>>
           \/ \E k \in Kind, i \in Id, n \in Label :
                /\ cache' = Insert(cache, k, i, n)
                /\ reverseCache' = Insert(reverseCache, k, n, i)
                /\ \/ cache[k][i] = None /\ n = NameFor(k, i)
                   \/ reverseCache[k][n] = None /\ i = IdByName[k][n]
<1>1. ASSUME NEW t \in Thread, CacheStep(t), ~InsertName(t), ~InsertId(t)
      PROVE  UNCHANGED <<cache, reverseCache>>
  BY <1>1 DEF CacheStep, Lock, Hit, Miss, Query, QueryFails, NotFound, Throw,
    Return
<1>2. ASSUME NEW t \in Thread, NEW r \in Request, Call(t, r)
      PROVE  UNCHANGED <<cache, reverseCache>>
  BY <1>2 DEF Call
<1> QED
  BY <1>1, <1>2, InsertNameLearns, InsertIdLearns DEF CacheNext, cacheVars

\* No element of a cache is ever replaced: FirstAnswerStands.
THEOREM FirstAnswerStandsTheorem == CacheSpec => FirstAnswerStands
<1>1. CacheInv /\ [CacheNext]_cacheVars =>
        [\A k \in Kind :
          /\ \A i \in Id : cache[k][i] # None => cache'[k][i] = cache[k][i]
          /\ \A n \in Label :
              reverseCache[k][n] # None => reverseCache'[k][n] = reverseCache[k][n]
        ]_cacheVars
  BY CacheGrows, LearnKeeps DEF CacheInv
<1> QED
  BY <1>1, CacheInvariant, PTL DEF CacheSpec, FirstAnswerStands

\* What the caches can hold: an id in the reverse cache comes from the
\* database, or is one without a name under its number.
ReverseOrigin ==
    \A k \in Kind, n \in Label :
        LET i == reverseCache[k][n] IN
        i # None => \/ IdByName[k][n] = i
                    \/ NameById[k][i] = None /\ ToString[i] = n

LeadBackInv == NamesLeadBack /\ (ConsistentDatabase => ReverseOrigin)

\* A name that was given for an id leads back to it: NamesLeadBack.
THEOREM NamesLeadBackTheorem == CacheSpec => []NamesLeadBack
<1>1. CacheInit => LeadBackInv
  BY DEF CacheInit, LeadBackInv, NamesLeadBack, ReverseOrigin
<1>2. CacheInv /\ LeadBackInv /\ [CacheNext]_cacheVars => LeadBackInv'
  <2> SUFFICES ASSUME CacheInv, LeadBackInv, [CacheNext]_cacheVars,
                      ConsistentDatabase
               PROVE  (\A k \in Kind, i \in Id :
                         cache'[k][i] # None => reverseCache'[k][cache'[k][i]] = i)
                      /\ ReverseOrigin'
    BY DEF LeadBackInv, NamesLeadBack, ConsistentDatabase
  <2>1. CASE UNCHANGED <<cache, reverseCache>>
    BY <2>1 DEF LeadBackInv, NamesLeadBack, ReverseOrigin
  <2>2. ASSUME NEW k \in Kind, NEW i \in Id, NEW n \in Label,
               cache' = Insert(cache, k, i, n),
               reverseCache' = Insert(reverseCache, k, n, i),
               \/ cache[k][i] = None /\ n = NameFor(k, i)
               \/ reverseCache[k][n] = None /\ i = IdByName[k][n]
        PROVE  (\A l \in Kind, j \in Id :
                  cache'[l][j] # None => reverseCache'[l][cache'[l][j]] = j)
               /\ ReverseOrigin'
    <3>1. \/ IdByName[k][n] = i
          \/ NameById[k][i] = None /\ ToString[i] = n
      BY <2>2 DEF NameFor, ConsistentDatabase
    <3>2. reverseCache[k][n] # None => reverseCache[k][n] = i
      <4> SUFFICES ASSUME reverseCache[k][n] # None
                   PROVE  reverseCache[k][n] = i
        OBVIOUS
      <4> DEFINE j == reverseCache[k][n]
      <4>1. j \in Id
        BY DEF CacheInv, TypeOK
      <4>2. \/ IdByName[k][n] = j
            \/ NameById[k][j] = None /\ ToString[j] = n
        BY DEF LeadBackInv, ReverseOrigin
      <4>3. cache[k][i] = None /\ n = NameFor(k, i)
        BY <2>2
      <4> HIDE DEF j
      <4>4. j = i
        BY <3>1, <4>1, <4>2, <4>3, NameAssumption
        DEF ConsistentDatabase, NameFor
      <4> QED
        BY <4>4 DEF j
    <3> TypeOK
      BY DEF CacheInv
    <3>3. reverseCache'[k][n] = i
      <4>1. reverseCache'[k][n] = IF reverseCache[k][n] = None
                                  THEN i ELSE reverseCache[k][n]
        BY <2>2, LearnKeeps
      <4> QED
        BY <3>2, <4>1
    <3>4. ReverseOrigin'
      <4>1. \A l \in Kind, o \in Label :
              l # k \/ o # n => reverseCache'[l][o] = reverseCache[l][o]
        BY <2>2, LearnKeeps
      <4> QED
        BY <3>1, <3>3, <4>1 DEF LeadBackInv, ReverseOrigin
    <3>5. ASSUME NEW l \in Kind, NEW j \in Id, cache'[l][j] # None
          PROVE  reverseCache'[l][cache'[l][j]] = j
      <4>1. CASE cache[l][j] # None
        <5>1. cache'[l][j] = cache[l][j] /\ cache[l][j] \in Label
          BY <2>2, <4>1, LearnKeeps DEF CacheInv, TypeOK
        <5>2. reverseCache[l][cache[l][j]] = j
          BY <4>1 DEF LeadBackInv, NamesLeadBack
        <5> QED
          BY <2>2, <5>1, <5>2, LearnKeeps, NameAssumption, SMTT(30) DEF CacheInv
      <4>2. CASE cache[l][j] = None
        <5>1. l = k /\ j = i /\ cache'[l][j] = n
          BY <2>2, <3>5, <4>2, LearnKeeps DEF CacheInv
        <5> QED
          BY <3>3, <5>1
      <4> QED
        BY <4>1, <4>2, SMTT(30)
    <3> QED
      BY <3>4, <3>5
  <2> QED
    BY <2>1, <2>2, CacheGrows
<1>3. LeadBackInv => NamesLeadBack
  BY DEF LeadBackInv
<1> QED
  BY <1>1, <1>2, <1>3, CacheInvariant, PTL DEF CacheSpec

=============================================================================
