\* One client and the daemon over a byte stream.
SPECIFICATION FairSpec
CONSTANTS
  Sizes = {1, 5}
  DaemonBuf = 6
  WaitBuf = 5
  AppBuf = 6
  Ids = {0, 1}
  MaxReq = 2
  MaxEvt = 1
  MaxShort = 1
INVARIANTS
  TypeOK
  RequestsInOrder
  RepliesInOrder
  OwnAnswer
PROPERTY
  CallsReturn
CHECK_DEADLOCK FALSE
