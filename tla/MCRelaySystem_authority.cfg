\* A Master that lost its connection, connects again and does not register,
\* while the next Master has been chosen.
SPECIFICATION SysSpec
CONSTANTS
  p1 = p1
  p2 = p2
  Peer = {p1, p2}
  c1 = c1
  c2 = c2
  Client = {c1, c2}
  NULL = NULL
  ACTIVE_PLAYERS_SIZE = 2
  GameState <- MCGameState
  PlayerInput <- MCPlayerInput
  MaxConnects = 3
  MaxRequests = 1
  StreamCapacity = 1
SYMMETRY SystemSymmetry
INVARIANT
  OneAuthority
CHECK_DEADLOCK FALSE
