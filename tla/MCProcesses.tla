------------------------------ MODULE MCProcesses ------------------------------
(* Processes for TLC: one of each command and two users.                   *)
EXTENDS Processes, TLC
=============================================================================
