SPECIFICATION Spec
CONSTANTS
  Pkgs <- MCPkgs
  Name <- MCName
  Version <- MCVersion
  Files <- MCFiles
  Conf <- MCConf
  Deps <- MCDeps
  Order <- MCOrder
  FirstFeed <- MCFirst
  NextFeed <- MCNext
  Edits = {}
  MaxCmds = 2
  MaxFaults = 0
INVARIANT SplitKept
CHECK_DEADLOCK FALSE
