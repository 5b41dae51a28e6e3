--------------------------- MODULE SerialLineReader ---------------------------
(***************************************************************************)
(* The serial console (main/serial_line_reader.cpp): taskLoop() turns the  *)
(* bytes of the UART into lines and hands them to one callback.  The       *)
(* driver gives the task a chunk at a time, cut anywhere.  start() and     *)
(* stop() make and delete the task, stop() in the middle of a chunk too:   *)
(* what was under way is gone.                                             *)
(***************************************************************************)
EXTENDS Naturals, Sequences

CONSTANTS
    BufSize,     \* _bufSize, at least 2; 1024 in the code
    Chars,       \* bytes that are neither '\r' nor '\n'
    MaxBytes,    \* bound: bytes that come
    MaxStarts    \* bound: calls of start()

VARIABLES
    task,      \* _taskHandle is not nullptr
    starts,    \* number of calls of start()
    sent,      \* what came since the task was made
    done,      \* how many of these bytes the loop has taken
    line,      \* the line under way
    lines,     \* the lines handed to the callback since the task was made
    place,     \* history: the places in `sent` of the characters of `line`
    places     \* history: and of `lines`

textVars == <<line, lines, place, places>>
vars == <<task, starts, sent, done, textVars>>

Chunks == UNION {[1 .. n -> Chars \cup {"\r", "\n"}] : n \in 1 .. BufSize - 1}

Init ==
    /\ task = FALSE /\ starts = 0
    /\ sent = <<>> /\ done = 0
    /\ line = <<>> /\ lines = <<>> /\ place = <<>> /\ places = <<>>

\* A second start() only sets the callback.
Start ==
    /\ starts < MaxStarts
    /\ starts' = starts + 1
    /\ task' = TRUE
    /\ IF task
       THEN UNCHANGED <<sent, done, textVars>>
       ELSE /\ sent' = <<>> /\ done' = 0
            /\ line' = <<>> /\ lines' = <<>> /\ place' = <<>> /\ places' = <<>>

Stop == task /\ task' = FALSE /\ UNCHANGED <<starts, sent, done, textVars>>

\* A chunk is of BufSize - 1 bytes at most; the line stays from chunk to chunk.
ReadBytes ==
    /\ task
    /\ done = Len(sent)
    /\ \E chunk \in Chunks : Len(sent) + Len(chunk) <= MaxBytes /\ sent' = sent \o chunk
    /\ UNCHANGED <<task, starts, done, textVars>>

\* One byte: a line that is full takes no more.
NoLimit(s) == TRUE
HasSpace(s) == Len(s) < BufSize - 1

Ended ==
    /\ line' = <<>> /\ place' = <<>>
    /\ IF line = <<>>
       THEN UNCHANGED <<lines, places>>
       ELSE lines' = Append(lines, line) /\ places' = Append(places, place)

Typed(c) ==
    /\ IF HasSpace(line)
       THEN line' = Append(line, c) /\ place' = Append(place, done + 1)
       ELSE UNCHANGED <<line, place>>
    /\ UNCHANGED <<lines, places>>

TakeByte ==
    /\ task
    /\ done < Len(sent)
    /\ done' = done + 1
    /\ LET c == sent[done + 1] IN
        \/ c = "\r" /\ UNCHANGED textVars
        \/ c = "\n" /\ Ended
        \/ c \notin {"\r", "\n"} /\ Typed(c)
    /\ UNCHANGED <<task, starts, sent>>

Next == Start \/ Stop \/ ReadBytes \/ TakeByte

Spec == Init /\ [][Next]_vars
-----------------------------------------------------------------------------
(* Properties.                                                             *)

\* The line ends between two places of the stream.
EndsBetween(p, q) == \E e \in p .. q : sent[e] = "\n"

\* A line and the places its characters were typed at: in this order, and in one line.
IsText(text, at) ==
    /\ DOMAIN text = DOMAIN at
    /\ Len(text) <= BufSize - 1
    /\ \A k \in DOMAIN at :
        at[k] \in 1 .. done /\ text[k] = sent[at[k]] /\ sent[at[k]] \notin {"\r", "\n"}
    /\ \A k, m \in DOMAIN at : k < m => at[k] < at[m] /\ ~EndsBetween(at[k], at[m])

\* The character at p is one of the line at these places, or came when it was full.
Covered(at, p) ==
    \/ \E k \in DOMAIN at : at[k] = p
    \/ Len(at) = BufSize - 1 /\ \A k \in DOMAIN at : at[k] < p /\ ~EndsBetween(at[k], p)

\* Wherever the UART driver cuts the stream, the callback gets every line that ended
\* and has a character, once and in order, without its '\r's, and of a longer one the
\* first _bufSize - 1 characters; the rest of such a line never becomes a line.
ConsoleLinesArrive ==
    /\ DOMAIN lines = DOMAIN places
    /\ \A k \in DOMAIN lines : lines[k] # <<>> /\ IsText(lines[k], places[k])
    /\ IsText(line, place)
    /\ \A k \in DOMAIN place : ~EndsBetween(place[k], done)
    /\ LET all == Append(places, place) IN
        /\ \A k, m \in DOMAIN all : k < m =>
            \A x \in DOMAIN all[k], y \in DOMAIN all[m] :
                all[k][x] < all[m][y] /\ EndsBetween(all[k][x], all[m][y])
        /\ \A p \in 1 .. done : sent[p] \notin {"\r", "\n"} =>
            \E k \in DOMAIN all : Covered(all[k], p)
=============================================================================
