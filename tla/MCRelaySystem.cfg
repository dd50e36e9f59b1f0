\* Two clients that connect, register, tick, connect again, end and come back.
SPECIFICATION SysSpec
CONSTANTS
  p1 = p1
  p2 = p2
  Peer = {p1, p2}
  c1 = c1
  c2 = c2
  Client = {c1, c2}
  NULL = NULL
  ACTIVE_PLAYERS_SIZE = 2
  GameState <- MCGameState
  PlayerInput <- MCPlayerInput
  MaxConnects = 3
  MaxRequests = 1
  StreamCapacity = 1
SYMMETRY SystemSymmetry
INVARIANTS
  SysInv
  BeliefsMatchTheTable
  OneCurrentMaster
  CurrentPacketsAreTrue
PROPERTY
  ImplementsLinks
CHECK_DEADLOCK FALSE
