------------------------------ MODULE MCLogin ------------------------------
(***************************************************************************)
(* Starts and logins for TLC: any file of the cache may be missing or bad, *)
(* and beside that at most MaxFaults of what the logins read.              *)
(***************************************************************************)
EXTENDS Login

CONSTANT MaxFaults   \* bound: settings, keys of the maps and database at fault at the start

ASSUME MCLoginAssumption == MaxFaults \in Nat

Faults ==
  Cardinality((IF configFile = "unreadable" THEN {} ELSE ConfigKeys \ settings)
              \cup (IF keys = "whole" THEN {} ELSE {"keys"})
              \cup (IF database = "works" THEN {} ELSE {"database"}))

MCInit == Init /\ Faults <= MaxFaults

MCSpec == MCInit /\ [][Next]_vars /\ WF_startVars(Start)
=============================================================================
