\* The comment of client.c:528 and README.md:23 against the code.
SPECIFICATION Spec
CONSTANTS
  SlaveId <- MCSlaveId
  Others <- MCOthers
  NULL = NULL
  Nobody = Nobody
  MaxCommands = 2
PROPERTY
  UpdatesAreNeverLost
