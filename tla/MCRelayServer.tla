--------------------------- MODULE MCRelayServer ---------------------------
(***************************************************************************)
(* Instances of RelayServer for TLC.                                       *)
(***************************************************************************)
EXTENDS RelayServer, TLC

\* Peers are interchangeable: nothing orders them, and the connection numbers
\* that do order connections are values of a variable.
PeerSymmetry == Permutations(Peer)
=============================================================================
