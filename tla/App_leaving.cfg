\* A client that leaves when it is told to reconnect.
CONSTANTS
    QueueLen = 2
    Memory = TRUE
    MaxConns = 2
    MaxData <- MCData
    PatientData = 2
    EagerData = 0
SPECIFICATION Spec
INVARIANT LeavingIsSafe
CHECK_DEADLOCK FALSE
