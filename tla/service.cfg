SPECIFICATION FairSpec
CONSTANTS
  Users = {u1, u2}
  Kinds = {"basic", "hangup"}
  Urc = {}
  InitKinds <- OneSimple
  NetKinds <- NoKinds
  ExSubmit = FALSE
  ReadyAtStart = TRUE
  MaxCmd = 4
  MaxLines = 0
  MaxOut = 0
PROPERTIES
  Served
  ImplementsService

CHECK_DEADLOCK FALSE
