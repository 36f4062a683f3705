-------------------------------- MODULE MCScan --------------------------------
(***************************************************************************)
(* Two entries on each side, one of them on both.  Id 0 is user root and   *)
(* group adm, id 1 has only a number, so that the sides ask for the same   *)
(* ids and for other ones.  User 0 has a second name, toor, which only a   *)
(* lookup by name can find.                                                *)
(***************************************************************************)
EXTENDS ScanThreads

CONSTANTS a, b, c, root, toor, adm, zero, one

MCThread == {"src", "dst"}
MCId == {0, 1}
MCLabel == {root, toor, adm, zero, one}
MCEntry == {a, b, c}
MCToString == [i \in MCId |-> IF i = 1 THEN one ELSE zero]

MCNameById ==
    [k \in {"user", "group"} |->
        [i \in MCId |->
            IF i = 1 THEN None ELSE IF k = "user" THEN root ELSE adm]]

MCIdByName ==
    [k \in {"user", "group"} |->
        [n \in MCLabel |->
            IF n \in (IF k = "user" THEN {root, toor} ELSE {adm}) THEN 0 ELSE None]]

\* The database is one that NamesLeadBack is about
ASSUME MCAssumption == ConsistentDatabase

MCOwnerId ==
    [s \in {"src", "dst"} |->
        [e \in MCEntry |->
            IF e = (IF s = "src" THEN c ELSE a) THEN None
            ELSE [user  |-> IF e = b THEN 1 ELSE 0,
                  group |-> IF s = "src" THEN 1 ELSE 0]]]

=============================================================================
