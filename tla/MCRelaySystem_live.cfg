\* One client that connects again and again, and fills the table with the
\* slots of connections it has left.  No symmetry: liveness.
SPECIFICATION FairSysSpec
CONSTANTS
  p1 = p1
  p2 = p2
  p3 = p3
  Peer = {p1, p2, p3}
  c1 = c1
  Client = {c1}
  NULL = NULL
  ACTIVE_PLAYERS_SIZE = 2
  GameState <- MCGameState
  PlayerInput <- MCPlayerInput
  MaxConnects = 3
  MaxRequests = 1
  StreamCapacity = 0
PROPERTIES
  RegistrationCompletes
  AbandonedSlotsAreFreed
  RequestsAreAnswered
  GhostsAreRemoved
CHECK_DEADLOCK FALSE
