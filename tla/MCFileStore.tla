---------------------------- MODULE MCFileStore ----------------------------
(***************************************************************************)
(* Small instances of the two file stores for TLC.  They share nothing, so *)
(* a behaviour follows one of them: of FileStore two workflows that        *)
(* compete for one unit of an additive key, of AttemptFiles two claims     *)
(* that compete for one slot and a connection record.                      *)
(***************************************************************************)
EXTENDS FileStore, AttemptFiles

MCInput == {"x1", "x2"}
MCInputsOf == [w \in {"w1", "w2"} |-> IF w = "w1" THEN {"x1"} ELSE {"x2"}]
MCPlan == [x \in MCInput |-> {"unit"}]
MCKey == [i \in {"unit"} |-> "units"]
MCAmount == [i \in {"unit"} |-> 1]
MCCeiling == [k \in {"units"} |-> 1]

MCTargets == [b \in {"b1", "b2"} |-> IF b = "b1" THEN {"claim1", "slot"} ELSE {"claim2", "slot"}]

VARIABLE store

StoresInit ==
    /\ FileInit /\ FilesInit
    /\ store \in {"lifecycle", "attempts"}
    /\ store = "lifecycle" => ordered

StoresNext ==
    /\ UNCHANGED store
    /\ \/ store = "lifecycle" /\ FileNext /\ UNCHANGED files
       \/ store = "attempts" /\ FilesNext /\ UNCHANGED fileVars

StoresSpec == StoresInit /\ [][StoresNext]_<<fileVars, files, store>>
=============================================================================
