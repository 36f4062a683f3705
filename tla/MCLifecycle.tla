----------------------------- MODULE MCLifecycle -----------------------------
(***************************************************************************)
(* Instances of Lifecycle for TLC.  A backup that is in order, and a       *)
(* source in which the user has since made changes.  z is the content of a *)
(* file whose copy was interrupted.                                        *)
(***************************************************************************)
EXTENDS Lifecycle, MCBackup

LifePath == {<<"d">>, <<"d", "f">>, <<"g">>}
LifeEntries ==
    <<"d">> :> {Dir(1)} @@
    <<"d", "f">> :> {File(420, me, 1, x), File(420, me, 2, y), File(493, me, 1, x)} @@
    <<"g">> :> {File(420, me, 1, x)}

\* The first file may be missing with its directory, or have been changed; the
\* second may be missing beside one version of the first
LifeDirectories ==
    {fs \in Directories(LifeEntries) :
        /\ <<"d">> \in DOMAIN fs => <<"d", "f">> \in DOMAIN fs
        /\ <<"g">> \in DOMAIN fs \/ At(fs, <<"d", "f">>) = File(420, me, 1, x)}

LifeWorlds ==
    {[src |-> new, dst |-> old, meta1 |-> MetadataOf(old), meta2 |-> MetadataOf(old)] :
        old, new \in LifeDirectories}

\* Edits after the start: the first file is changed, or a file is removed
EditedSources ==
    {fs \in LifeDirectories :
        At(fs, <<"d", "f">>) # File(493, me, 1, x)
        /\ (<<"g">> \in DOMAIN fs => At(fs, <<"d", "f">>) # File(420, me, 1, x))}

FixupCommands == {c \in Command : c.name = "backup" /\ c.fixup /\ c.hashAllFiles}

=============================================================================
