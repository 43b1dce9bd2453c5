------------------------------ MODULE MCRoster ------------------------------
(* Roster for TLC: the settings that differ in what is kept.                   *)
EXTENDS Roster

Setting(fetch, clear, without) ==
    [autoFetch |-> fetch, autoClear |-> clear, rosterless |-> without]

MCContacts == {"a"}
MCIds      == {1, 2, 3}
MCConfigs  == {Setting(TRUE, TRUE, FALSE), Setting(TRUE, FALSE, FALSE), Setting(FALSE, TRUE, TRUE)}

=============================================================================
