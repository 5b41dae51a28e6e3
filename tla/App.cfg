\* Patient clients and others; no memory at times.
CONSTANTS
    QueueLen = 2
    Memory = FALSE
    MaxConns = 2
    MaxData <- MCData
    PatientData = 2
    EagerData = 1
SPECIFICATION FairSpec
INVARIANTS TypeOK SendTaskGone SyncIsLive NoneForgotten OldPassphraseIsDoomed
PROPERTIES ClosedIsDeleted NameIsServed
CHECK_DEADLOCK FALSE
