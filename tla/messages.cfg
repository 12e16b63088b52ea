SPECIFICATION Spec
CONSTANTS
  Users = {u1, u2}
  Kinds = {"basic", "sms", "blank"}
  Urc = {}
  InitKinds <- NoKinds
  NetKinds <- NoKinds
  ExSubmit = FALSE
  ReadyAtStart = TRUE
  MaxCmd = 4
  MaxLines = 1
  MaxOut = 1
INVARIANTS
  TypeOK
  ToldOnce
  OneInFlight
  AnswersInOrder
SYMMETRY UserSymmetry

CHECK_DEADLOCK FALSE
