--------------------------- MODULE MCRelaySystem ---------------------------
(***************************************************************************)
(* Instances of RelaySystem for TLC.                                       *)
(***************************************************************************)
EXTENDS RelaySystem, TLC

\* Neither clients nor peers are ordered by anything.
SystemSymmetry == Permutations(Peer) \union Permutations(Client)

\* What a client can send: its own id of a slot, or that of another connection.
MCGameState == [is_current : BOOLEAN]
MCPlayerInput ==
  [id : 0 .. ACTIVE_PLAYERS_SIZE - 1, id_is_current : BOOLEAN, role_is_current : BOOLEAN]
=============================================================================
