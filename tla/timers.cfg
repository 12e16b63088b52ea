\* Timers against the clock, the signal handler at every point.
SPECIFICATION Spec
CONSTANTS
  Sec = 2
  CmdTimeout = 2
  AliveEvery = 1
  Jitter = 1
  MaxTime = 5
INVARIANTS
  TypeOK
  Armed
  NoStaleTimer
PROPERTY
  NotEarly
CHECK_DEADLOCK FALSE
