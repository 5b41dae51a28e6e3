CONSTANTS
    Kinds = {"raw", "passphrase", "ephemeral"}
    c1 = c1
    Consoles <- MCConsoles
    Sizes <- MCSizes
    MaxItems = 2
    MaxInput = 4
    MaxLines = 2
SPECIFICATION Spec
INVARIANTS
    TypeOK
    WellFramed
    LateLines
    HeaderTellsLength
    RawFramesWhole
CHECK_DEADLOCK FALSE
