\* The comment of client.c:824 against the code.
SPECIFICATION Spec
CONSTANTS
  SlaveId <- MCSlaveId
  Others <- MCOthers
  NULL = NULL
  Nobody = Nobody
  MaxCommands = 2
INVARIANT
  ExitWaitsForTheDisconnect
