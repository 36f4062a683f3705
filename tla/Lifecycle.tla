------------------------------ MODULE Lifecycle ------------------------------
(***************************************************************************)
(* Runs of ddm, one after the other, on the same disk.  A run may end by   *)
(* itself, fail in the middle of a change to the backup directory because  *)
(* of an I/O error, or be stopped by a crash at any point: the memory of   *)
(* the process is lost, the disk stays as it is, and the next run has to   *)
(* make do with it.  Between two runs the user may edit the source.        *)
(*                                                                         *)
(* Module Backup makes the change of one line in a single step.  Here the  *)
(* variable before remembers what the last step changed, so that a fault   *)
(* can leave the disk anywhere between the two states.  What is left of a  *)
(* metadata file that was being written is what module TreeStore says:     *)
(* either it ends in the middle of a line, and cannot be loaded, or it has *)
(* a part of the tree.                                                     *)
(*                                                                         *)
(* The user agrees to every question: the properties are about what the    *)
(* program can repair.                                                     *)
(***************************************************************************)
EXTENDS Backup

CONSTANTS
    Sources,      \* the states the user may leave the source directory in
    Fragment,     \* what a file has in it whose copy was interrupted
    MaxFaults,    \* bounds on the number of faults and
    MaxEdits      \* of edits of the source

VARIABLES
    before,       \* the directory and metadata tree 1 before the last step
    faults, edits,
    cut,          \* the metadata files that a fault left cut
    failed        \* the paths where the last step of a failed run was at work

lifeVars == <<vars, before, faults, edits, cut, failed>>

ASSUME LifecycleAssumption ==
    /\ \A fs \in Sources : IsFilesystem(fs)
    /\ Fragment \in Data
    /\ MaxFaults \in Nat /\ MaxEdits \in Nat

-----------------------------------------------------------------------------
(* What a step that was not completed may leave in the backup directory *)

\* A new entry while it is written: it belongs to the process, its mtime is not
\* yet set, and a file may have only a part of its content
Unfinished(e) ==
    {[e EXCEPT !.owner = Self, !.mtime = Now, !.data = data] :
        data \in IF e.ty = "regular" THEN {e.data, Fragment} ELSE {e.data}}

\* The same content with some of the attributes changed
Mixed(old, new) ==
    {[old EXCEPT !.perm = perm, !.owner = owner, !.mtime = mtime] :
        perm \in {old.perm, new.perm}, owner \in {old.owner, new.owner},
        mtime \in {old.mtime, new.mtime}}

At(fs, p) == IF p \in DOMAIN fs THEN fs[p] ELSE None

\* A directory in which something changes has the mtime Now until fixupParentMtime
Touched(old, new, p, e) ==
    IF \E q \in Inside[p] : Parent(q) = p /\ At(old, q) # At(new, q)
    THEN {e, [e EXCEPT !.mtime = Now]} ELSE {e}

\* What may be found at path p between directories old and new, None for nothing
Stages(old, new, p) ==
    LET o == At(old, p)
        n == At(new, p)
    IN  IF o # None /\ n # None /\ o.ty = n.ty /\ o.data = n.data
        THEN UNION {Touched(old, new, p, e) : e \in Mixed(o, n)}
        ELSE {None} \cup (IF o # None THEN Touched(old, new, p, o) ELSE {})
                    \cup (IF n # None THEN {n} \cup Unfinished(n) ELSE {})

\* Nothing is wrong anywhere but where the step was at work
Between(old, new) ==
    LET P      == DOMAIN old \cup DOMAIN new
        stages == [p \in P |-> Stages(old, new, p)]
        all    == {f \in [P -> UNION {stages[p] : p \in P}] : \A p \in P : f[p] \in stages[p]}
    IN  {fs \in {[p \in {q \in P : f[q] # None} |-> f[p]] : f \in all} : WellFormed(fs)}

\* What may be left of a file into which tree t was being written
Remains(t) ==
    LET whole == WriteTo(t)
    IN  {Torn} \cup {f \in {[p \in P |-> whole[p]] : P \in SUBSET DOMAIN whole} : WellFormed(f)}

-----------------------------------------------------------------------------

LifeInit ==
    /\ Init
    /\ before = [dst |-> dst, meta1Tree |-> meta1Tree]
    /\ faults = 0 /\ edits = 0
    /\ cut = {} /\ failed = {}

\* askYesNo returns false
Declines ==
    \/ \E d \in diff : DeclineFix(d) \/ BackupKeepNewer(d)
    \/ EndAfterScrub /\ cmd.name = "backup" /\ result = 1

\* A step of the program with a user who agrees
Step ==
    /\ Program /\ ~Declines
    /\ before' = [dst |-> dst, meta1Tree |-> meta1Tree]
    /\ cut' = cut \ ((IF pc = "write1" THEN {1} ELSE {}) \cup (IF pc = "write2" THEN {2} ELSE {}))
    /\ UNCHANGED <<faults, edits, failed>>

\* A new process is started
NewProcess ==
    /\ cmd' \in Commands
    /\ pc' = "start"
    /\ dstTree' = EmptyTree /\ meta1Tree' = EmptyTree /\ meta2Tree' = EmptyTree
    /\ meta2TreePresent' = TRUE /\ save' = FALSE
    /\ meta1NeedsBackup' = FALSE /\ meta2NeedsBackup' = FALSE
    /\ diff' = {}
    /\ unrecoverable' = FALSE /\ maybeRecoverable' = FALSE /\ redo' = FALSE
    /\ updateMeta1' = FALSE /\ updateMeta2' = FALSE
    /\ bitrot' = FALSE
    /\ result' = 0
    /\ failed' = {}

NextRun ==
    /\ pc \in Final
    /\ NewProcess
    /\ before' = [dst |-> dst, meta1Tree |-> EmptyTree]
    /\ UNCHANGED <<src, dst, fileVars, faults, edits, cut>>

\* Edits that the next run has to cope with
Edit ==
    /\ pc = "start" /\ edits < MaxEdits /\ edits' = edits + 1
    /\ src' \in Sources
    /\ UNCHANGED <<cmd, pc, diff, bitrot, result, dirVars, metaVars, fileVars, tmVars,
                   scrubVars, before, faults, cut, failed>>

\* The last step was one that changed the backup directory, and it may not
\* have been completed
Fault == faults < MaxFaults /\ faults' = faults + 1 /\ UNCHANGED <<src, edits>>

CrashInDirectory ==
    /\ Fault /\ pc \in {"compare", "scrub", "backup"}
    /\ dst' \in Between(before.dst, dst)
    /\ NewProcess
    /\ before' = [dst |-> dst', meta1Tree |-> EmptyTree]
    /\ UNCHANGED <<fileVars, cut>>

\* The destructor was stopped after a rename to .bak, or in writeTo
CrashInDestructor ==
    /\ Fault
    /\ \/ /\ pc = "exit" /\ save /\ meta1NeedsBackup
          /\ meta1bak' = meta1 /\ meta1' = None /\ cut' = cut \cup {1}
          /\ UNCHANGED <<meta2, meta2bak>>
       \/ /\ pc = "write1"
          /\ meta1' \in Remains(meta1Tree) /\ cut' = cut \cup {1}
          /\ UNCHANGED <<meta2, meta1bak, meta2bak>>
       \/ /\ pc = "exit2"
          /\ meta2bak' = Moved(meta2, meta2bak, meta2NeedsBackup)
          /\ meta2' = Moved(None, meta2, meta2NeedsBackup)
          /\ cut' = Moved(cut \cup {2}, cut, meta2NeedsBackup)
          /\ UNCHANGED <<meta1, meta1bak>>
       \/ /\ pc = "write2"
          /\ meta2' \in Remains(IF meta2TreePresent THEN meta2Tree ELSE meta1Tree)
          /\ cut' = cut \cup {2}
          /\ UNCHANGED <<meta1, meta1bak, meta2bak>>
    /\ NewProcess
    /\ before' = [dst |-> dst, meta1Tree |-> EmptyTree]
    /\ UNCHANGED dst

\* Metadata tree t may have taken the permissions and the owner of the line whose
\* mtime could not be set
PartlyUpdated(t, new) ==
    {[t EXCEPT !.node[p].perm = new.node[p].perm, !.node[p].owner = new.node[p].owner] :
        p \in {q \in DOMAIN t.node \cap DOMAIN new.node :
                SameContent(t.node[q], new.node[q])}}

\* The last step threw an exception: the metadata tree was not yet changed, but
\* for attributes that came first, and the destructor saves it.  (In a scrub it
\* saves nothing, and an exception is like a crash.)
IoError ==
    /\ Fault /\ pc = "backup" /\ before.dst # dst
    /\ dst' \in Between(before.dst, dst)
    /\ meta1Tree' \in {before.meta1Tree} \cup PartlyUpdated(before.meta1Tree, meta1Tree)
    /\ pc' = "exit"
    /\ result' = 10
    /\ failed' = LET P == {p \in Path : At(before.dst, p) # At(dst, p)}
                 IN  P \cup {Parent(p) : p \in P}
    /\ before' = [dst |-> dst', meta1Tree |-> meta1Tree']
    /\ UNCHANGED <<cmd, diff, bitrot, dstTree, meta2Tree, fileVars, tmVars, scrubVars, cut>>

LifeNext == Step \/ NextRun \/ Edit \/ CrashInDirectory \/ CrashInDestructor \/ IoError

LifeSpec == LifeInit /\ [][LifeNext]_lifeVars

\* Every process runs to its end unless it is stopped, and the user runs the
\* command again
FairLifeSpec == LifeSpec /\ WF_lifeVars(Step \/ NextRun)

-----------------------------------------------------------------------------
(* Properties *)

Whole(file, i) == file \notin {Torn, None} /\ i \notin cut

\* The destructor of TreeManager rewrites the metadata files in place: a crash,
\* wherever it happens, spares one of the two.  (A second crash, in the run that
\* repairs the other one, may not.)
OneFileSurvives == pc = "start" /\ faults <= 1 => Whole(meta1, 1) \/ Whole(meta2, 2)

\* "Unrecoverable inconsistencies found" (scrubImpl).  Whatever one crash or
\* error leaves in the backup directory, a run with --fixup can repair, with
\* two exceptions: an entry that the user has removed from the source, and one
\* that the directory and both metadata files disagree on because one of these
\* was being written.
CrashIsRecoverable ==
    [][unrecoverable' /\ ~unrecoverable /\ faults <= 1 =>
        \E d \in diff \ diff' :
            d.path \notin DOMAIN src \/ (AllDiffer(d) /\ cut # {})]_lifeVars

\* An exception in backupImpl unwinds through ~TreeManager, which saves the
\* metadata: they then describe the backup directory, both of them, except where
\* the operation that failed was at work.  (After a crash in an earlier run they
\* may not: see ScrubReconciles.)
FailureIsLocal ==
    pc = "done" /\ failed # {} /\ faults <= 1 =>
        \A p \in Path \ failed :
            At(ReadFrom(meta1).node, p) = At(ScanDirectory(dst, TRUE).node, p)
            /\ At(meta2, p) = At(meta1, p)

\* The backup is equal to the source and the metadata files describe it
InOrder ==
    /\ Diff(<<ScanDirectory(src, TRUE), ScanDirectory(dst, TRUE)>>, DefaultOpt) = {}
    /\ CanLoad(meta1) /\ CanLoad(meta2)
    /\ Diff(<<ScanDirectory(dst, TRUE), ReadFrom(meta1), ReadFrom(meta2)>>, DefaultOpt) = {}

\* The cases left to the user: a metadata file that is cut, an entry that the
\* source has no more, or one that all three disagree on
NeedsUser ==
    \/ ~CanLoad(meta1) \/ ~CanLoad(meta2) \/ cut # {}
    \/ \E p \in DOMAIN meta1 \cup DOMAIN meta2 : p \notin DOMAIN src
    \/ \E d \in Diff(<<ScanDirectory(dst, TRUE), ReadFrom(meta1), ReadFrom(meta2)>>,
                      DefaultOpt) : AllDiffer(d)

\* Readme: "you can back up your source directory any time you want".  When the
\* backup is run again and again, whatever stopped earlier runs, one of the runs
\* ends with everything in order, or the user is needed and remains so.
RunsConverge == <>(pc = "done" /\ InOrder) \/ <>[]NeedsUser

=============================================================================
