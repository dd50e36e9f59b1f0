---------------------------- MODULE MCSafeQueue ----------------------------
(***************************************************************************)
(* Instance of SafeQueue for TLC: two pushers, two threads that wait and   *)
(* one that does not, on a heap of three nodes.                            *)
(***************************************************************************)
EXTENDS SafeQueue
=============================================================================
