--------------------------- MODULE MCMasterWorld ---------------------------
(***************************************************************************)
(* MasterWorld for TLC: users type "x-1" and "tick".                       *)
(***************************************************************************)
EXTENDS MasterWorld

XNeg == [x |-> -1, y |-> 0]

MCMove == {Still, XNeg}
=============================================================================
