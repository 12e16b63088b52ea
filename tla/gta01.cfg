SPECIFICATION Spec
CONSTANTS
  Users = {u1}
  Kinds = {"list", "cbsub", "store", "alive", "power", "hangup"}
  Urc = {"ready", "nocarrier", "reg", "mt", "other", "text"}
  InitKinds <- NoKinds
  NetKinds <- OneReg
  ExSubmit = TRUE
  ReadyAtStart = FALSE
  MaxCmd = 6
  MaxLines = 1
  MaxOut = 1
INVARIANTS
  QueueAwake
  OneInFlight
  ToldOnce

CHECK_DEADLOCK FALSE
