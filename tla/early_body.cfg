SPECIFICATION Spec
CONSTANTS
  Users = {u1, u2}
  Kinds = {"basic", "sms"}
  Urc = {}
  InitKinds <- NoKinds
  NetKinds <- NoKinds
  ExSubmit = FALSE
  ReadyAtStart = TRUE
  MaxCmd = 4
  MaxLines = 1
  MaxOut = 1
INVARIANT BodyAfterPrompt
CHECK_DEADLOCK FALSE
