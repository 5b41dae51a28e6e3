\* The string with the name is gone when spp_cb() reads it.
CONSTANTS
    StackFails = FALSE
    MaxRestarts = 1
    MaxLinks = 1
SPECIFICATION Spec
INVARIANT ScanShowsName
CHECK_DEADLOCK FALSE
