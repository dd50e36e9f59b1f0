\* The player table, smaller than the number of peers so that it is full at
\* times, both kinds of streams, and the abstract session it implements.
SPECIFICATION Spec
CONSTANTS
  p1 = p1
  p2 = p2
  p3 = p3
  Peer = {p1, p2, p3}
  NULL = NULL
  ACTIVE_PLAYERS_SIZE = 2
  GameState = {"state"}
  PlayerInput = {"input"}
  MaxConnects = 3
  MaxRequests = 1
  StreamCapacity = 1
SYMMETRY PeerSymmetry
INVARIANTS
  OneMasterAtSlotZero
  SlotsHoldDistinctLivePeers
  UserInfoMatchesTable
  AnswerComesFirst
  MasterKnowsEverySlave
  InputsReachOnlyTheMaster
  ServerInv
PROPERTY
  ImplementsSession
CHECK_DEADLOCK FALSE
