\* Every interleaving of the three threads, and what they owe the user.
SPECIFICATION FairSpec
CONSTANTS
  SlaveId <- MCSlaveId
  Others <- MCOthers
  NULL = NULL
  Nobody = Nobody
  MaxCommands = 2
INVARIANTS
  ThreadsCanGoOn
  ClientInv
  MutexesAreHeldInTheirSections
  PointersOutliveTheirTests
  SlaveNewsFindsAWorld
  NetThreadUsesALiveHost
  
PROPERTIES
  ExitTerminates
  CommandsAreExecuted
