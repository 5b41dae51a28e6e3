------------------------------- MODULE LedBlink -------------------------------
(***************************************************************************)
(* LedBlinkTask (main/led_blink_task.cpp): the task that blinks, and the   *)
(* two callbacks of the store that set its members, without a lock, in the *)
(* task that sets the parameter.  That a callback may be missed is in      *)
(* ParameterStore (WatchersFollow); here it arrives.                       *)
(***************************************************************************)
EXTENDS Naturals

CONSTANT MaxCount    \* the greatest BlinkCount, 9 in the code

VARIABLES
    enabled,    \* ledEnabled_
    count,      \* blinkCount_
    pc,         \* where run() is: "top" of its loop, "test" of the inner one,
                \* "lit" or "dark" in a blink, "pause" after the burst
    i,          \* the blinks of the burst so far
    level,      \* the pin: 0 lights the LED
    seen        \* the values blinkCount_ had during the burst

members == <<enabled, count>>
blinkVars == <<pc, i, level>>
vars == <<members, blinkVars, seen>>

Init ==
    /\ enabled = TRUE /\ count \in 1 .. MaxCount
    /\ pc = "top" /\ i = 0 /\ level = 0 /\ seen = {}

SetCount ==
    /\ count' \in 1 .. MaxCount
    /\ seen' = seen \cup {count'}
    /\ UNCHANGED <<enabled, blinkVars>>

SetEnabled == enabled' = ~enabled /\ UNCHANGED <<count, blinkVars, seen>>

Burst ==
    /\ pc = "top" /\ enabled
    /\ pc' = "test" /\ i' = 0
    /\ seen' = {count}
    /\ UNCHANGED <<members, level>>

StaysLit == level
Unlit == 1

Dark ==
    /\ pc = "top" /\ ~enabled
    /\ level' = Unlit
    /\ UNCHANGED <<members, pc, i, seen>>

\* i < blinkCount_, read again for every blink.
OneTooMany == i <= count
Goes == i < count

Test ==
    /\ pc = "test"
    /\ IF Goes THEN pc' = "lit" /\ level' = 0 ELSE pc' = "pause" /\ UNCHANGED level
    /\ UNCHANGED <<members, i, seen>>

Blink ==
    /\ \/ pc = "lit" /\ pc' = "dark" /\ level' = 1 /\ UNCHANGED i
       \/ pc = "dark" /\ pc' = "test" /\ i' = i + 1 /\ UNCHANGED level
    /\ UNCHANGED <<members, seen>>

Pause == pc = "pause" /\ pc' = "top" /\ UNCHANGED <<members, i, level, seen>>

Run == Burst \/ Dark \/ Test \/ Blink \/ Pause

Next == SetCount \/ SetEnabled \/ Run

Spec == Init /\ [][Next]_vars

\* The delays end; nobody has to change a parameter.
FairSpec == Spec /\ WF_vars(Run)
-----------------------------------------------------------------------------
(* Properties.                                                             *)

\* Whatever the client does to the parameter during a burst, the burst is no longer
\* and no shorter than some value it had: it ends.  It need not have such a value: a
\* change from 3 to 1 after the second blink makes a burst of 2.
BurstInBetween == pc = "pause" => \E a, b \in seen : a <= i /\ i <= b

\* Once the client leaves the parameters alone, bursts have the number it set last.
Settles ==
    \A c \in 1 .. MaxCount :
        <>[](enabled /\ count = c) => []<>(pc = "pause" /\ i = c)

\* A LED that is switched off, in the middle of a burst too, goes dark and stays so.
SwitchesOff == <>[]~enabled => <>[](level = 1)
=============================================================================
