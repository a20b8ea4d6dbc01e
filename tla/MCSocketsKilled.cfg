CONSTANTS
  Kind = "network"
  Tasks = {"t"}
  Slots = {1}
  Objects = {1}
  Sockets = {"Tcp"}
  Operations = {"Send"}
  MaxOps = 1
  MaxGeneration = 1
  Kills = TRUE
  None = None
SPECIFICATION Spec
INVARIANT SocketsTornDown
CHECK_DEADLOCK FALSE
