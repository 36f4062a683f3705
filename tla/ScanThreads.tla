----------------------------- MODULE ScanThreads -----------------------------
(***************************************************************************)
(* scanSourceTargetDir as it runs: with threads, the source is scanned in  *)
(* the background while the caller scans the backup, each catching its own *)
(* exceptions, and the caller joins the thread before it looks at either.  *)
(* Without, the caller scans one directory after the other.  Both scans    *)
(* look up the names of the owner of every entry in the caches of          *)
(* NameCache; later, the caller looks up the ids of the owners that it     *)
(* gives to copies in the same caches.                                     *)
(*                                                                         *)
(* A scan is named by its side.  The entries of a directory are visited in *)
(* any order, and reading one (lstat, readlink, the hash) may fail.        *)
(***************************************************************************)
EXTENDS NameCache, Sequences

CONSTANTS Entry, OwnerId

Side == {"src", "dst"}

ASSUME ScanAssumption ==
    /\ Thread = Side
    /\ OwnerId \in [Side -> [Entry -> [user : Id, group : Id] \cup {None}]]
    /\ None \notin [user : Id, group : Id] \cup [user : Label, group : Label]
    /\ None \notin Entry

VARIABLES
    threads,    \* the argument threads
    scan,       \* where in scanDirectory each side is
    entry,      \* the entry each side is constructing an element for
    user,       \* the user of that entry, once it was looked up
    tree,       \* srcTree and dstTree
    exception,  \* backgroundException and foregroundException
    outcome,    \* how scanSourceTargetDir ended
    message     \* the message of the exception it threw

scanVars == <<threads, scan, entry, user, tree, exception, outcome, message>>
vars == <<cacheVars, scanVars>>

Owner == [user : Label, group : Label]

ScanTypeOK ==
    /\ TypeOK
    /\ threads \in BOOLEAN
    /\ scan \in [Side -> {"waiting", "next", "user", "group", "ended"}]
    /\ entry \in [Side -> Entry \cup {None}]
    /\ user \in [Side -> Label \cup {None}]
    /\ tree \in [Side -> [Entry -> Owner \cup {None}]]
    /\ exception \in [Side -> {<<>>, <<"src">>, <<"dst">>}]
    /\ outcome \in {"scanning", "returned", "threw"}
    /\ message \in Seq(Side)

\* With threads both scans start, otherwise the one of the source does
Init ==
    /\ CacheInit
    /\ threads \in BOOLEAN
    /\ scan = [s \in Side |-> IF threads \/ s = "src" THEN "next" ELSE "waiting"]
    /\ entry = [s \in Side |-> None]
    /\ user = [s \in Side |-> None]
    /\ tree = [s \in Side |-> [e \in Entry |-> None]]
    /\ exception = [s \in Side |-> <<>>]
    /\ outcome = "scanning"
    /\ message = <<>>

-----------------------------------------------------------------------------
(* scanDirectory *)

Unvisited(s) == {e \in Entry : OwnerId[s][e] # None /\ tree[s][e] = None}

UserOf(s, e) == [kind |-> "user", by |-> "id", id |-> OwnerId[s][e].user]
GroupOf(s, e) == [kind |-> "group", by |-> "id", id |-> OwnerId[s][e].group]

\* The constructor of FilesystemElement: lstat, then the name of the user
Visit(s) ==
    /\ scan[s] = "next"
    /\ \E e \in Unvisited(s) :
        /\ entry' = [entry EXCEPT ![s] = e]
        /\ Call(s, UserOf(s, e))
    /\ scan' = [scan EXCEPT ![s] = "user"]
    /\ UNCHANGED <<threads, user, tree, exception, outcome, message>>

\* then the name of the group
GotUser(s) ==
    /\ scan[s] = "user" /\ pc[s] = "idle" /\ answer[s] # Thrown
    /\ user' = [user EXCEPT ![s] = answer[s]]
    /\ Call(s, GroupOf(s, entry[s]))
    /\ scan' = [scan EXCEPT ![s] = "group"]
    /\ UNCHANGED <<threads, entry, tree, exception, outcome, message>>

\* then the content; the element joins the tree
GotGroup(s) ==
    /\ scan[s] = "group" /\ pc[s] = "idle" /\ answer[s] # Thrown
    /\ tree' = [tree EXCEPT ![s][entry[s]] =
                    [user |-> user[s], group |-> answer[s]]]
    /\ scan' = [scan EXCEPT ![s] = "next"]
    /\ entry' = [entry EXCEPT ![s] = None]
    /\ user' = [user EXCEPT ![s] = None]
    /\ UNCHANGED <<cacheVars, threads, exception, outcome, message>>

\* The exception of the background thread is lost
MutCatch(s) ==
    /\ scan' = [scan EXCEPT ![s] = "ended"]
    /\ entry' = [entry EXCEPT ![s] = None]
    /\ user' = [user EXCEPT ![s] = None]
    /\ exception' = [exception EXCEPT ![s] = IF s = "src" THEN <<>> ELSE <<s>>]
    /\ UNCHANGED <<cacheVars, threads, tree, outcome, message>>

\* catch(exception& e) of either side
Catch(s) ==
    /\ scan' = [scan EXCEPT ![s] = "ended"]
    /\ entry' = [entry EXCEPT ![s] = None]
    /\ user' = [user EXCEPT ![s] = None]
    /\ exception' = [exception EXCEPT ![s] = <<s>>]
    /\ UNCHANGED <<cacheVars, threads, tree, outcome, message>>

\* The directory or an entry can't be read
ReadFails(s) ==
    /\ scan[s] \in {"next", "group"} /\ pc[s] = "idle"
    /\ Catch(s)

\* The entry is tried again
MutLookupFails(s) ==
    /\ scan[s] \in {"user", "group"} /\ pc[s] = "idle" /\ answer[s] = Thrown
    /\ scan' = [scan EXCEPT ![s] = "next"]
    /\ entry' = [entry EXCEPT ![s] = None]
    /\ user' = [user EXCEPT ![s] = None]
    /\ UNCHANGED <<cacheVars, threads, tree, exception, outcome, message>>

LookupFails(s) ==
    /\ scan[s] \in {"user", "group"} /\ pc[s] = "idle" /\ answer[s] = Thrown
    /\ Catch(s)

EndScan(s) ==
    /\ scan[s] = "next" /\ Unvisited(s) = {}
    /\ scan' = [scan EXCEPT ![s] = "ended"]
    /\ UNCHANGED <<cacheVars, threads, entry, user, tree, exception, outcome, message>>

Scanning(s) ==
    \/ Visit(s) \/ GotUser(s) \/ GotGroup(s)
    \/ ReadFails(s) \/ LookupFails(s) \/ EndScan(s)
    \/ CacheStep(s) /\ UNCHANGED scanVars

-----------------------------------------------------------------------------
(* scanSourceTargetDir *)

\* An empty message is no exception
Finish(text) ==
    /\ message' = text
    /\ outcome' = IF text = <<>> THEN "returned" ELSE "threw"
    /\ UNCHANGED <<cacheVars, threads, scan, entry, user, tree, exception>>

\* A foreground exception does not wait for the thread
MutJoin ==
    /\ outcome = "scanning" /\ threads
    /\ scan["dst"] = "ended"
    /\ exception["dst"] = <<>> => scan["src"] = "ended"
    /\ Finish(exception["dst"] \o exception["src"])

\* t.join(), and the two messages become one
Join ==
    /\ outcome = "scanning" /\ threads
    /\ scan["src"] = "ended" /\ scan["dst"] = "ended"
    /\ Finish(exception["dst"] \o exception["src"])

\* Without threads: dst is scanned once src was, unless that threw
ScanDst ==
    /\ ~threads /\ scan["src"] = "ended" /\ scan["dst"] = "waiting"
    /\ exception["src"] = <<>>
    /\ scan' = [scan EXCEPT !["dst"] = "next"]
    /\ UNCHANGED <<cacheVars, threads, entry, user, tree, exception, outcome, message>>

Propagate ==
    /\ outcome = "scanning" /\ ~threads
    /\ \/ exception["src"] # <<>>
       \/ scan["dst"] = "ended"
    /\ Finish(exception["src"] \o exception["dst"])

-----------------------------------------------------------------------------
(* After the scan *)

\* ext_symlink_change_ownership, which the caller of scanSourceTargetDir, now the
\* only thread, calls for the entries that it copies: the names come from the trees
\* or from a metadata file, and an exception is only a warning
ChangeOwner ==
    /\ outcome = "returned"
    /\ \E r \in ByName : Call("dst", r)
    /\ UNCHANGED scanVars

Terminated == outcome # "scanning" /\ UNCHANGED vars

Next ==
    \/ \E s \in Side : Scanning(s)
    \/ Join \/ ScanDst \/ Propagate \/ ChangeOwner \/ Terminated

Spec == Init /\ [][Next]_vars

\* Each thread runs.  A scan makes finitely many lookups, so that the mutex is
\* free for good once the other scan has ended: no more is asked of it.
FairSpec ==
    /\ Spec
    /\ \A s \in Side : WF_vars(Scanning(s))
    /\ WF_vars(Join \/ ScanDst \/ Propagate)

-----------------------------------------------------------------------------
(* Properties *)

\* What the caller may look at: the trees, once the call has returned
treeBar == IF outcome = "returned" THEN tree
           ELSE [s \in Side |-> [e \in Entry |-> None]]

ScanSpec == INSTANCE Scan WITH tree <- treeBar

\* The scan in two threads implements the scan: when scanSourceTargetDir
\* returns, both trees have every entry under the names the databases have
\* for its owner, whatever the other thread looked up in between; an error of
\* either thread, or of both, makes it throw.
ScanIsComplete == ScanSpec!Spec

\* When scanSourceTargetDir is left, by return or exception, no thread is
\* scanning: the strings and the trees that the background thread refers to
\* are gone after that.  And what each side had to say is in the message.
NothingOutlivesTheCall ==
    outcome # "scanning" =>
        \A s \in Side :
            /\ scan[s] \in {"waiting", "ended"}
            /\ exception[s] # <<>> => \E i \in DOMAIN message : message[i] = s

\* A scan ends: the threads do not wait for each other for ever, whatever
\* fails, as ext_lookup_user releases its mutex also when it throws.
ScanEnds == <>(outcome # "scanning")

=============================================================================
