SPECIFICATION Spec
CONSTANTS
  Pkgs <- MCPkgs
  Name <- MCName
  Version <- MCVersion
  Files <- MCFiles
  Conf <- MCConf
  Deps <- MCDeps
  Order <- MCOrder
  FirstFeed <- MCFirst
  NextFeed <- MCNext
  Edits = {e1, e2}
  MaxCmds = 3
  MaxFaults = 1
SYMMETRY Symmetry
INVARIANTS TypeOK   OneVersion 
CHECK_DEADLOCK FALSE
