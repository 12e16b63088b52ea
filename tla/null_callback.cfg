SPECIFICATION Spec
CONSTANTS
  Users = {u1}
  Kinds = {"store"}
  Urc = {}
  InitKinds <- NoKinds
  NetKinds <- NoKinds
  ExSubmit = FALSE
  ReadyAtStart = TRUE
  MaxCmd = 4
  MaxLines = 1
  MaxOut = 1
INVARIANT SafeDisconnect
CHECK_DEADLOCK FALSE
