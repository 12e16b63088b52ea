SPECIFICATION Spec
CONSTANTS
  Users = {u1, u2}
  Kinds = {"basic", "ext", "hangup"}
  Urc = {"reg"}
  InitKinds <- NoKinds
  NetKinds <- OneSet
  ExSubmit = FALSE
  ReadyAtStart = TRUE
  MaxCmd = 4
  MaxLines = 1
  MaxOut = 2
INVARIANTS
  QueueAwake
  NoStaleUser
  Fifo
  MessagesFlow
  NoCrossTalk
  CrashFree
  AnswersInOrder
SYMMETRY UserSymmetry

CHECK_DEADLOCK FALSE
