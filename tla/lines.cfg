\* The byte parser, with losses and overlong texts.
SPECIFICATION FairSpec
CONSTANTS
  Texts <- TextValues
  Echoes <- EchoValues
  BufSize = 3
  ReadSize = 5
  MaxItems = 3
  MaxLoss = 1
INVARIANTS
  TypeOK
  NoResidue
  ExactLines
  NoFalseReset
  Resync
PROPERTY
  Delivered
CHECK_DEADLOCK FALSE
