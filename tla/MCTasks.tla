------------------------------- MODULE MCTasks -------------------------------
(* Three parts that touch nothing of the others, in one run of TLC: the
   incoming bytes of a connection, the serial console and the LED.  `part`
   says which of them moves. *)
EXTENDS ByteStream

CONSTANTS BufSize, ConsoleChars, MaxStarts, MaxCount

ASSUME TasksAssumption ==
    /\ BufSize \in Nat \ {0, 1}
    /\ MaxCount \in Nat \ {0}

VARIABLES
    part,
    task, starts, typed, done, line, said, place, places,
    enabled, count, ledPc, blinks, level, seen

consoleVars == <<task, starts, typed, done, line, said, place, places>>
ledVars == <<enabled, count, ledPc, blinks, level, seen>>
allVars == <<part, vars, consoleVars, ledVars>>

Serial == INSTANCE SerialLineReader WITH Chars <- ConsoleChars, sent <- typed, lines <- said
Led == INSTANCE LedBlink WITH pc <- ledPc, i <- blinks

MCInit ==
    /\ part \in {"stream", "console", "led"}
    /\ Init
    /\ Serial!Init
    /\ Led!Init /\ (part # "led" => count = 1)

LedMoves(Step) == part = "led" /\ Step /\ UNCHANGED <<part, vars, consoleVars>>

MCNext ==
    \/ part = "stream" /\ Next /\ UNCHANGED <<part, consoleVars, ledVars>>
    \/ part = "console" /\ Serial!Next /\ UNCHANGED <<part, vars, ledVars>>
    \/ LedMoves(Led!Next)

MCSpec == MCInit /\ [][MCNext]_allVars /\ WF_allVars(LedMoves(Led!Run))

\* Each line typed at the console comes out once, no longer than the buffer
\* (main/serial_line_reader.cpp).
ConsoleLinesArrive == Serial!ConsoleLinesArrive

\* A burst of the LED ends between two of the numbers it was meanwhile set to
\* (main/led_blink_task.cpp).
BurstInBetween == Led!BurstInBetween

\* Once the parameters are left alone, bursts come to have the number that was
\* set last (main/led_blink_task.cpp).
LedSettles == part = "led" => Led!Settles

\* A LED that is switched off goes dark and stays so (main/led_blink_task.cpp).
LedSwitchesOff == part = "led" => Led!SwitchesOff
==============================================================================
