-------------------------------- MODULE Cli --------------------------------
(***************************************************************************)
(* main.cpp: the command line, the output file, ls, diff, and the calls to *)
(* scrub and backup.  Commands are entered one after the other in the same *)
(* shell; between them the user edits directories and deletes files.       *)
(*                                                                         *)
(* The directories of -s and -t, and what scrub and backup do to them, are *)
(* module Backup: here a call is recorded and its result is any.           *)
(***************************************************************************)
EXTENDS DirectoryDiff, Commands

CONSTANTS
    Dir,            \* directories, as named on the command line
    Here,           \* the one that is the current directory
    File,           \* names of files for -o
    Nowhere,        \* a path at which there is nothing and nothing can be created
    PlaceOf,        \* where in a directory a file is: <<directory, path>>, or None
    Blank, Filled,  \* the bytes of a file when just created, and when written
    Contents,       \* the states of directories
    CommandLines

VARIABLES
    dirs,       \* the directories
    files,      \* what the files hold, None for a file that does not exist
    vm,         \* the options of the running command, None in the shell
    pc,
    created,    \* whether this process has created its output file
    call,       \* the call of scrub or backup that it made, if any
    exitCode,
    stands      \* of which directory a file is the listing, and if with hashes

vars == <<dirs, files, vm, pc, created, call, exitCode, stands>>

Word == {"perm", "owner", "mtime", "size", "hash", "symlink"}

\* What boost::program_options makes of argv.  parses is FALSE for an unknown
\* option or one without its value; ignore is the set of the words of -i.
CommandLine ==
    [parses : BOOLEAN,
     command : {"ls", "diff", "scrub", "backup", "unknown", None},
     flags : SUBSET {"help", "source", "target", "nohash", "fixup"},
     ignore : SUBSET (Word \cup {"all", "invalid"}) \cup {None},
     inputs : UNION {[1 .. n -> Dir \cup File \cup {Nowhere}] : n \in 0 .. 4},
     output : File \cup {Nowhere, None}]

ASSUME CliAssumption ==
    /\ Here \in Dir
    /\ PlaceOf \in [File -> (Dir \X Path) \cup {None}]
    /\ {Blank, Filled} \subseteq Data
    /\ \A fs \in Contents : IsFilesystem(fs)
    /\ CommandLines \subseteq CommandLine

Given(flag) == flag \in vm.flags

-----------------------------------------------------------------------------

Init ==
    /\ dirs \in [Dir -> Contents]
    /\ files = [f \in File |-> None]
    /\ vm = None /\ pc = "shell" /\ created = FALSE /\ call = None /\ exitCode = 0
    /\ stands = [f \in File |-> None]

Enter ==
    /\ pc = "shell" /\ pc' = "parse"
    /\ vm' \in CommandLines
    /\ UNCHANGED <<dirs, files, created, call, exitCode, stands>>

\* The exit status of a process whose assertion failed
AbortCode == 134

\* return of main, or help()
Exit(code) == exitCode' = code /\ pc' = "ended" /\ UNCHANGED vm

Disk == <<dirs, files, created, stands>>

Parse ==
    /\ pc = "parse"
    /\ \/ ~vm.parses /\ Exit(10)
       \/ vm.parses /\ vm.command = None /\ Exit(100)
       \/ vm.parses /\ vm.command # None /\ pc' = "output" /\ UNCHANGED <<vm, exitCode>>
    /\ UNCHANGED <<Disk, call>>

\* A file in a directory is an entry of it as well
WithEntry(f, data) ==
    IF PlaceOf[f] = None THEN dirs
    ELSE LET d == PlaceOf[f][1]
             e == [ty |-> "regular", perm |-> 420, owner |-> Self, mtime |-> Now,
                   data |-> data]
         IN  [dirs EXCEPT ![d] = [p \in DOMAIN @ \cup {PlaceOf[f][2]} |->
                                    IF p = PlaceOf[f][2] THEN e ELSE @[p]]]

\* What a file holds: a metadata file, possibly empty, or the lines of a diff
Metadata(lines) == [kind |-> "metadata", lines |-> lines]
DiffLines == [kind |-> "diff", lines |-> << >>]

\* ofstream::open
Create(f) ==
    /\ dirs' = WithEntry(f, Blank)
    /\ files' = [files EXCEPT ![f] = Metadata(<< >>)]
    /\ stands' = [stands EXCEPT ![f] = [fs |-> << >>, hashed |-> TRUE]]
    /\ created' = TRUE
    /\ pc' = "dispatch"
    /\ UNCHANGED <<vm, exitCode>>

\* The output file is opened without looking whether it exists.
MutOpenOutput ==
    /\ pc = "output"
    /\ \/ vm.output = None /\ pc' = "dispatch" /\ UNCHANGED <<Disk, vm, exitCode>>
       \/ vm.output = Nowhere /\ Exit(10) /\ UNCHANGED Disk
       \/ vm.output \in File /\ Create(vm.output)
    /\ UNCHANGED call

OpenOutput ==
    /\ pc = "output"
    /\ \/ vm.output = None /\ pc' = "dispatch" /\ UNCHANGED <<Disk, vm, exitCode>>
       \/ vm.output = Nowhere /\ Exit(10) /\ UNCHANGED Disk
       \/ vm.output \in File /\ files[vm.output] # None /\ Exit(10) /\ UNCHANGED Disk
       \/ vm.output \in File /\ files[vm.output] = None /\ Create(vm.output)
    /\ UNCHANGED call

Runs(command) == pc = "dispatch" /\ vm.command = command

-----------------------------------------------------------------------------
(* Usage *)

LsUsage ==
    \/ {"help", "source", "target", "fixup"} \cap vm.flags # {}
    \/ vm.ignore # None \/ Len(vm.inputs) > 1

DiffUsage ==
    \/ {"help", "source", "target", "fixup"} \cap vm.flags # {}
    \/ Len(vm.inputs) \notin {2, 3}


ScrubUsage ==
    \/ Given("help") \/ vm.ignore # None \/ Given("nohash")
    \/ ~ \/ Given("source") /\ Given("target") /\ Len(vm.inputs) = 2
         \/ ~Given("source") /\ ~Given("target") /\ Len(vm.inputs) = 3

BackupUsage ==
    \/ Given("help") \/ vm.ignore # None
    \/ ~Given("source") \/ ~Given("target")
    \/ Len(vm.inputs) \notin {0, 2}

\* help() for an unknown command, the usage message of a known one
Usage ==
    /\ \/ Runs("unknown")
       \/ Runs("ls") /\ LsUsage
       \/ Runs("diff") /\ DiffUsage
       \/ Runs("scrub") /\ ScrubUsage
       \/ Runs("backup") /\ BackupUsage
    /\ Exit(100)
    /\ UNCHANGED <<Disk, call>>

-----------------------------------------------------------------------------
(* ls and diff *)

\* operator<< on the output file, if there is one
WriteOutput(content, listed) ==
    LET f == vm.output
    IN  IF f = None THEN UNCHANGED Disk
        ELSE /\ dirs' = WithEntry(f, IF content.kind = "diff" \/ content.lines # << >>
                                     THEN Filled ELSE Blank)
             /\ files' = [files EXCEPT ![f] = content]
             /\ stands' = [stands EXCEPT ![f] = listed]
             /\ UNCHANGED created

Ls ==
    LET d    == IF vm.inputs = << >> THEN Here ELSE vm.inputs[1]
        hash == ~Given("nohash")
    IN  /\ Runs("ls") /\ ~LsUsage
        /\ \/ d \notin Dir /\ Exit(10) /\ UNCHANGED Disk
           \/ /\ d \in Dir /\ Exit(0)
              /\ WriteOutput(Metadata(WriteTo(ScanDirectory(dirs[d], hash))),
                             [fs |-> dirs[d], hashed |-> hash])
        /\ UNCHANGED call

\* "all" is taken for "perm,owner,mtime".
MutCompareOptOf(words) ==
    [w \in Word |-> w \notin words /\ ("all" \in words => w \notin {"perm", "owner", "mtime"})]

\* CompareOpt::CompareOpt
CompareOptOf(words) == [w \in Word |-> {w, "all"} \cap words = {}]

\* fromPath
CanLoad(x) ==
    \/ x \in Dir
    \/ x \in File /\ files[x] # None /\ files[x].kind = "metadata" /\ Readable(files[x].lines)

FromPath(x) ==
    IF x \in Dir THEN ScanDirectory(dirs[x], ~Given("nohash")) ELSE ReadFrom(files[x].lines)

DiffResult ==
    LET opt   == IF vm.ignore = None THEN DefaultOpt ELSE CompareOptOf(vm.ignore)
        ts    == [i \in DOMAIN vm.inputs |-> FromPath(vm.inputs[i])]
        lines == Diff(ts, opt)
    IN  IF NotTransitive(ts, opt) THEN Exit(AbortCode) /\ UNCHANGED Disk
        ELSE /\ Exit(IF lines = {} THEN 0 ELSE 1)
             /\ WriteOutput(IF lines = {} THEN Metadata(<< >>) ELSE DiffLines,
                            [fs |-> << >>, hashed |-> TRUE])

DiffCmd ==
    LET throws == \/ vm.ignore # None /\ "invalid" \in vm.ignore
                  \/ \E i \in DOMAIN vm.inputs : ~CanLoad(vm.inputs[i])
    IN  /\ Runs("diff") /\ ~DiffUsage
        /\ \/ throws /\ Exit(10) /\ UNCHANGED Disk
           \/ ~throws /\ DiffResult
        /\ UNCHANGED call

-----------------------------------------------------------------------------
(* scrub and backup *)

Calls(name, source, fixup, hashAllFiles) ==
    /\ call' = [name |-> name, source |-> source, fixup |-> fixup,
                hashAllFiles |-> hashAllFiles]
    /\ \E code \in {0, 1, 2, 10} : Exit(code)
    /\ UNCHANGED Disk

ScrubCmd ==
    /\ Runs("scrub") /\ ~ScrubUsage
    /\ Calls("scrub", Given("source"), Given("fixup"), ~Given("nohash"))

BackupCmd ==
    /\ Runs("backup") /\ ~BackupUsage
    /\ \/ /\ Len(vm.inputs) = 2
          /\ Calls("backup", TRUE, Given("fixup"), ~Given("nohash"))
       \/ /\ Len(vm.inputs) = 0
          /\ Calls("simple", TRUE, FALSE, FALSE)

-----------------------------------------------------------------------------
(* The user *)

Return ==
    /\ pc = "ended" /\ pc' = "shell"
    /\ vm' = None /\ created' = FALSE /\ call' = None /\ exitCode' = 0
    /\ UNCHANGED <<dirs, files, stands>>

EditDirectory ==
    /\ pc = "shell"
    /\ \E d \in Dir \ {PlaceOf[f][1] : f \in {g \in File : PlaceOf[g] # None}}, fs \in Contents :
          dirs' = [dirs EXCEPT ![d] = fs]
    /\ UNCHANGED <<files, vm, pc, created, call, exitCode, stands>>

DeleteFile ==
    /\ pc = "shell"
    /\ \E f \in File :
          /\ files[f] # None
          /\ dirs' = IF PlaceOf[f] = None THEN dirs
                     ELSE [dirs EXCEPT ![PlaceOf[f][1]] =
                             [p \in DOMAIN @ \ {PlaceOf[f][2]} |-> @[p]]]
          /\ files' = [files EXCEPT ![f] = None]
          /\ stands' = [stands EXCEPT ![f] = None]
    /\ UNCHANGED <<vm, pc, created, call, exitCode>>

Next ==
    \/ Enter \/ Parse \/ OpenOutput \/ Usage \/ Ls \/ DiffCmd \/ ScrubCmd \/ BackupCmd
    \/ Return \/ EditDirectory \/ DeleteFile

Spec == Init /\ [][Next]_vars

-----------------------------------------------------------------------------
(* Properties *)

\* The directory an input of diff stands for
StandsFor(x) ==
    IF x \in Dir THEN [fs |-> dirs[x], hashed |-> ~Given("nohash")] ELSE stands[x]

\* Two entries are the same but for what is ignored.  Contents are compared when
\* both were hashed.
SameEntry(a, b, ignored, hashed) ==
    /\ a.ty = b.ty
    /\ \A w \in {"perm", "owner", "mtime"} \ ignored : a[w] = b[w]
    /\ a.ty = "regular" =>
          /\ "size" \notin ignored => SizeOf[a.data] = SizeOf[b.data]
          /\ "hash" \notin ignored /\ hashed => a.data = b.data
    /\ a.ty = "symlink" /\ "symlink" \notin ignored => a.data = b.data

SameDirectory(x, y, ignored) ==
    /\ DOMAIN x.fs = DOMAIN y.fs
    /\ \A p \in DOMAIN x.fs : SameEntry(x.fs[p], y.fs[p], ignored, x.hashed /\ y.hashed)

\* "Allow to check if differences found" (diffCmd), "when using 'all' only the
\* presence of a file and its type matters" (help).  The exit code of diff is 0
\* if and only if the directories its inputs are, or are listings of, are the
\* same but for what -i names: through listing, loading, parsing of -i and the
\* pruned walk, whatever commands and edits came between.
DiffExitCode ==
    pc = "ended" /\ vm.command = "diff" /\ exitCode \in {0, 1} =>
        LET ignored == IF vm.ignore = None THEN {}
                       ELSE IF "all" \in vm.ignore THEN Word ELSE vm.ignore
            input(i) == StandsFor(vm.inputs[i])
        IN  exitCode = 0 <=> \A i, j \in DOMAIN vm.inputs :
                                SameDirectory(input(i), input(j), ignored)

\* "Output file ... already exists. Aborting." (main): what a file holds is never
\* changed by a process that did not create it.
OutputNotOverwritten ==
    [][\A f \in File : files[f] # None /\ files'[f] # files[f] =>
            vm = None \/ (created /\ f = vm.output)]_vars


\* Readme: "You can produce a metadata file from a directory with the `ddm ls`
\* option."  When ls ends well, comparing the directory with the file made of it
\* finds no difference.
ListingIsCurrent ==
    pc = "ended" /\ vm.command = "ls" /\ exitCode = 0 /\ vm.output # None =>
        LET d == IF vm.inputs = << >> THEN Here ELSE vm.inputs[1]
        IN  Diff(<<ScanDirectory(dirs[d], TRUE), ReadFrom(files[vm.output].lines)>>,
                 DefaultOpt) = {}

=============================================================================
