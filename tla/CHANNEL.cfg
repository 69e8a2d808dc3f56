SPECIFICATION FairSpec
CONSTANTS
  MaxIn = 2
  MaxOut = 2
  MaxErr = 1
  Window = 1
  Modes = {"exec", "pty", "sftp"}
CHECK_DEADLOCK FALSE
INVARIANTS TypeOK InputWhole OutputWhole
PROPERTIES SessionEnds BridgeEnds
