\* Both protocols, three clients of which two are trusted; calls fail.
CONSTANTS
    Peers = {alice, stranger, bob}
    Trusted = {alice, bob}
    Fails = TRUE
    None = None
    MaxFrames = 4
SPECIFICATION Spec
INVARIANTS KeyAgreed OnlyGenuine
CHECK_DEADLOCK FALSE
