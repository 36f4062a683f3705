----------------------------- MODULE NameService -----------------------------
(***************************************************************************)
(* What the functions ext_lookup_user and ext_lookup_group of extfs.h      *)
(* promise to their callers, who may be on several threads: a lookup       *)
(* happens at one instant, and the first answer to a question stays the    *)
(* answer to it until the program ends.                                    *)
(***************************************************************************)
EXTENDS NameDatabase

VARIABLES
    nameOf,     \* for every kind and id, the name given so far
    idOf,       \* for every kind and name, the id given so far
    call,       \* for every thread, the request it waits for
    answer      \* for every thread, the answer to its last request

vars == <<nameOf, idOf, call, answer>>

Init ==
    /\ nameOf = [k \in Kind |-> [i \in Id |-> None]]
    /\ idOf = [k \in Kind |-> [n \in Label |-> None]]
    /\ call = [t \in Thread |-> None]
    /\ answer = [t \in Thread |-> None]

-----------------------------------------------------------------------------
\* An answer teaches both directions
Learn(k, i, n) ==
    /\ nameOf' = Insert(nameOf, k, i, n)
    /\ idOf' = Insert(idOf, k, n, i)

Answer(t, a) == answer' = [answer EXCEPT ![t] = a]

Invoke(t, r) ==
    /\ call[t] = None
    /\ call' = [call EXCEPT ![t] = r]
    /\ Answer(t, None)
    /\ UNCHANGED <<nameOf, idOf>>

Pending(t) == call[t] # None /\ answer[t] = None

\* ext_lookup_user(uid_t), ext_lookup_group(gid_t)
LookupName(t) ==
    /\ Pending(t) /\ call[t].by = "id"
    /\ LET k == call[t].kind
           i == call[t].id IN
        \/ /\ nameOf[k][i] # None
           /\ Answer(t, nameOf[k][i])
           /\ UNCHANGED <<nameOf, idOf>>
        \/ /\ nameOf[k][i] = None
           /\ Answer(t, NameFor(k, i))
           /\ Learn(k, i, NameFor(k, i))
    /\ UNCHANGED call

\* ext_lookup_user(const string&), ext_lookup_group(const string&)
LookupId(t) ==
    /\ Pending(t) /\ call[t].by = "name"
    /\ LET k == call[t].kind
           n == call[t].name IN
        \/ /\ idOf[k][n] # None
           /\ Answer(t, idOf[k][n])
           /\ UNCHANGED <<nameOf, idOf>>
        \/ /\ idOf[k][n] = None /\ IdByName[k][n] # None
           /\ Answer(t, IdByName[k][n])
           /\ Learn(k, IdByName[k][n], n)
    /\ UNCHANGED call

\* A database that fails, or has no such name, and only for what no earlier
\* answer has taught
Fail(t) ==
    /\ Pending(t)
    /\ call[t].by = "id" => nameOf[call[t].kind][call[t].id] = None
    /\ call[t].by = "name" => idOf[call[t].kind][call[t].name] = None
    /\ Answer(t, Thrown)
    /\ UNCHANGED <<nameOf, idOf, call>>

Return(t) ==
    /\ call[t] # None /\ answer[t] # None
    /\ call' = [call EXCEPT ![t] = None]
    /\ UNCHANGED <<nameOf, idOf, answer>>

Next ==
    \E t \in Thread :
        \/ \E r \in Request : Invoke(t, r)
        \/ LookupName(t)
        \/ LookupId(t)
        \/ Fail(t)
        \/ Return(t)

Spec == Init /\ [][Next]_vars

=============================================================================
