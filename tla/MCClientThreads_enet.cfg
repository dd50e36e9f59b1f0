\* README.md:96 against the code.
SPECIFICATION Spec
CONSTANTS
  SlaveId <- MCSlaveId
  Others <- MCOthers
  NULL = NULL
  Nobody = Nobody
  MaxCommands = 2
INVARIANT
  OneThreadInENet
