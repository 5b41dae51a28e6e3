\* Restarts under every failure, and a phone that comes and goes.
CONSTANTS
    StackFails = TRUE
    MaxRestarts = 2
    MaxLinks = 2
SPECIFICATION FairSpec
INVARIANTS TypeOK StartedIsUp NoLeak
PROPERTY LastNameIsShown
CHECK_DEADLOCK FALSE
