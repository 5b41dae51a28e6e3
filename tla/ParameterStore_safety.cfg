SPECIFICATION Spec
CONSTANTS
    App = App
    Joystick = Joystick
    Nobody = Nobody
    Params <- MCParams
    Editable <- MCEditable
    Watched <- MCEditable
    Sensors <- MCSensors
    Sets <- MCSets
    Lo <- MCLo
    Hi <- MCHi
    Default <- MCDefault
    Inputs <- MCInputs
    QueueLen = 2
    NvsFails = FALSE
    MaxChanges = 3
    MaxBacklog = 3
INVARIANTS
    TypeOK
    NeverForgets
    ClientUpToDate
CHECK_DEADLOCK FALSE
