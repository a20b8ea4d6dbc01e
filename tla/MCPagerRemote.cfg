CONSTANTS
  MAX_PAGER_REQUESTS = 2
  Procs = {1, 2}
  Pages = {0}
  Remote = {1}
  Killable = {}
  Signalled = {}
  Pressure = FALSE
SPECIFICATION Spec
CHECK_DEADLOCK FALSE
INVARIANT NoLostFaultWakeup
