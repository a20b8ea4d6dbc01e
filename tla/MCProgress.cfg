CONSTANT Nil = Nil
SPECIFICATION Spec
PROPERTIES WaitsEnd KillAcknowledged ReadyRuns
CHECK_DEADLOCK FALSE
