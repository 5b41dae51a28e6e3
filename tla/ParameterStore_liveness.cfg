SPECIFICATION FairSpec
CONSTANTS
    App = App
    Joystick = Joystick
    Nobody = Nobody
    Params <- MCParams
    Editable <- MCEditable
    Watched <- MCEditable
    Sensors <- MCSensors
    Sets <- MCSets
    Lo <- MCLo
    Hi <- MCHi
    Default <- MCDefault
    Inputs <- MCInputs
    QueueLen = 1
    NvsFails = TRUE
    MaxChanges = 1
    MaxBacklog = 0
INVARIANT
    InRange
PROPERTY
    SetCompletes
CHECK_DEADLOCK FALSE
