\* The prompt of client.c:736 against the code.
SPECIFICATION Spec
CONSTANTS
  SlaveId <- MCSlaveId
  Others <- MCOthers
  NULL = NULL
  Nobody = Nobody
  MaxCommands = 2
INVARIANT
  ExitFindsAPeer
