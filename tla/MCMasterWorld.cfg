SPECIFICATION FairWorldSpec
CONSTANTS
  HALF = 2
  JUNK = 0
  REFUSED = REFUSED
  Slave = {1}
  Move <- MCMove
  MaxMoves = 1
  MaxJoins = 2
  MaxTicks = 2
CHECK_DEADLOCK FALSE
INVARIANTS
  WorldTypeOK
  EachMovesItself
  MasterMovesOnce
  PacketsSurviveTheTrip
PROPERTY
  MoverStops
