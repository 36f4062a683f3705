------------------------------ MODULE Commands ------------------------------
(***************************************************************************)
(* The calls that main.cpp makes to scrub and backup of backup.h, by the   *)
(* arguments that matter there.                                            *)
(***************************************************************************)

\* scrub without and with a source, backup with metadata files, and backup
\* without; a backup is given its source, a scrub always computes hashes
Command ==
    [name : {"scrub"}, source : BOOLEAN, fixup : BOOLEAN, hashAllFiles : {TRUE}]
    \cup
    [name : {"backup"}, source : {TRUE}, fixup : BOOLEAN, hashAllFiles : BOOLEAN]
    \cup
    [name : {"simple"}, source : {TRUE}, fixup : {FALSE}, hashAllFiles : {FALSE}]

=============================================================================
