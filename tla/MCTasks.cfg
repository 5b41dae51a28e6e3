\* Streams of up to six bytes, cut in every way, with lines that are too long, and
\* parameters that change at any moment of a burst.
CONSTANTS
    MaxCount = 4
    MaxAccum = 2
    Chars = {0, 1}
    MaxChunk = 5
    BufSize = 4
    ConsoleChars = {"a", "b"}
    MaxStarts = 2
    MaxBytes = 6
SPECIFICATION MCSpec
INVARIANTS LinesArrive FramesArrive AccumBounded ConsoleLinesArrive BurstInBetween
PROPERTIES LedSettles LedSwitchesOff
CHECK_DEADLOCK FALSE
