------------------------------- MODULE MCCli -------------------------------
(***************************************************************************)
(* Instances of Cli for TLC: two directories and one output file.          *)
(***************************************************************************)
EXTENDS Cli, TLC

CONSTANTS x, y, z, root, user, a, b, m

MCData == {x, y, z}
MCSizeOf == [d \in MCData |-> IF d = z THEN 2 ELSE 1]
MCOwner == {root, user}
MCName == {"d", "f"}
MCPath == {<<"d">>, <<"d", "f">>}
MCDir == {a, b}
MCFile == {m}

FileEntry(perm, mtime, data) ==
    [ty |-> "regular", perm |-> perm, owner |-> root, mtime |-> mtime, data |-> data]
DirEntry == [ty |-> "directory", perm |-> 493, owner |-> root, mtime |-> 1, data |-> None]
LinkEntry(data) ==
    [ty |-> "symlink", perm |-> SymlinkPerm, owner |-> root, mtime |-> 1, data |-> data]

\* Nothing, a file or a link where others have a directory, and directories whose
\* entry differs in its presence, type, attributes, content or size
MCContents ==
    {<< >>} \cup {<<"d">> :> e : e \in {FileEntry(420, 1, x), LinkEntry(x), DirEntry}}
    \cup {<<"d">> :> DirEntry @@ <<"d", "f">> :> e :
            e \in {FileEntry(420, 1, x), FileEntry(493, 2, x), FileEntry(420, 1, y),
                   FileEntry(420, 1, z), LinkEntry(x), LinkEntry(y)}}

Outside == [f \in MCFile |-> None]

Ddm(command, flags, ignore, inputs, output) ==
    [parses |-> TRUE, command |-> command, flags |-> flags, ignore |-> ignore,
     inputs |-> inputs, output |-> output]

LsLines ==
    {Ddm("ls", flags, None, inputs, output) :
        flags \in {{}, {"nohash"}}, inputs \in {<< >>, <<b>>}, output \in {None, m}}
    \cup {Ddm("ls", {}, None, <<Nowhere>>, m), Ddm("ls", {}, None, <<a>>, Nowhere)}

DiffLinesOf ==
    {Ddm("diff", flags, ignore, inputs, None) :
        flags \in {{}, {"nohash"}},
        ignore \in {None, {}, {"all"}, {"mtime", "perm"}, {"hash", "size"}, {"symlink"},
                    {"mtime", "invalid"}},
        inputs \in {<<a, b>>, <<a, m>>, <<m, a, b>>, <<a, m, b>>}}
    \cup {Ddm("diff", {}, None, <<a, b>>, m)}

CallLines ==
    {Ddm(command, flags, None, inputs, None) :
        command \in {"scrub", "backup"},
        flags \in SUBSET {"source", "target", "nohash", "fixup"},
        inputs \in {<< >>, <<m, m>>, <<a, m, m>>}}

WrongLines ==
    {[Ddm("ls", {}, None, << >>, m) EXCEPT !.parses = FALSE], Ddm(None, {"help"}, None, << >>, m),
     Ddm("unknown", {}, None, << >>, m)}
    \cup {Ddm("ls", {"help"}, None, << >>, m), Ddm("ls", {}, {"all"}, << >>, m),
          Ddm("diff", {}, None, <<a>>, m), Ddm("diff", {"fixup"}, None, <<a, b>>, m),
          Ddm("scrub", {}, {"hash"}, <<a, m, m>>, m), Ddm("backup", {"help"}, None, << >>, m)}

MCCommandLines == LsLines \cup DiffLinesOf \cup CallLines \cup WrongLines

-----------------------------------------------------------------------------
(* The output file is in the directory that is listed: "ddm ls -o m" *)

InHere == [f \in MCFile |-> <<a, <<"f">>>>]
InHerePath == MCPath \cup {<<"f">>}
InHereLines == {Ddm("ls", {}, None, << >>, m)}

=============================================================================
