-------------------------- MODULE MCClientThreads --------------------------
(***************************************************************************)
(* Instances of ClientThreads for TLC: ids 1 and 2 are given to Slaves, and *)
(* the world has room for 1 alone, as the code's has for 1 .. 3 of the 9.   *)
(***************************************************************************)
EXTENDS ClientThreads

MCSlaveId == {1, 2}
MCOthers == {1}
=============================================================================
