------------------------------ MODULE ByteStream ------------------------------
(***************************************************************************)
(* The incoming half of a connection: taskLoop() of main/fd_connection.cpp *)
(* cuts what read() returns into lines until a line ends with "guard", and *)
(* hands the rest to appendReceived() of main/protocol/, which cuts it     *)
(* into frames.  read() cuts the stream anywhere; a step is one read, one  *)
(* line, one frame or the end of a turn of the loop.                       *)
(*                                                                         *)
(* A byte is a number.  The word "guard" is one byte here; as the first    *)
(* byte of a frame it announces a frame that is longer than any stream.    *)
(* What a line or a frame causes is in WireProtocol.                       *)
(***************************************************************************)
EXTENDS Naturals, Sequences

CONSTANTS
    MaxAccum,    \* MAX_ACCUM, 8192 in the code
    Chars,       \* the other bytes
    MaxChunk,    \* bound: length of a chunk, 512 in the code
    MaxBytes     \* bound: length of the stream

ASSUME StreamAssumption ==
    /\ MaxAccum \in Nat /\ MaxChunk \in Nat /\ MaxBytes \in Nat
    /\ Chars \subseteq Nat

VARIABLES
    sent,      \* all bytes read so far
    pc,        \* the loop is about to "read", or it cuts "lines" or "frames"
    guarded,   \* _guarded
    accum,     \* accum: the bytes of an unfinished line
    start,     \* where in accum the next line begins, 0 outside the loop over it
    lines,     \* the lines handed to _onLine
    buffer,    \* the protocol's buffer: the bytes of an unfinished frame
    frames,    \* the frames cut out of it
    overrun,   \* more was erased from accum than it had
    ends,      \* history: the places in `sent` where a line was seen to end
    heads      \* history: the places in `sent` where a frame was seen to begin

lineVars == <<guarded, accum, start, lines, overrun, ends>>
frameVars == <<buffer, frames, heads>>
vars == <<sent, pc, lineVars, frameVars>>

NL == 10
CR == 13
GUARD == 103
Bytes == Chars \cup {NL, CR, GUARD}
Chunks == UNION {[1 .. n -> Bytes] : n \in 1 .. MaxChunk}

Init ==
    /\ sent = <<>> /\ pc = "read" /\ guarded = FALSE
    /\ accum = <<>> /\ start = 0 /\ lines = <<>> /\ overrun = FALSE /\ ends = <<>>
    /\ buffer = <<>> /\ frames = <<>> /\ heads = <<>>

From(s, n) == SubSeq(s, n, Len(s))
\* The place in the stream of the n-th byte of what is left of it.
Place(s, n) == Len(sent) - Len(s) + n

Read ==
    /\ pc = "read"
    /\ \E chunk \in Chunks :
        /\ Len(sent) + Len(chunk) <= MaxBytes
        /\ sent' = sent \o chunk
        /\ IF guarded
           THEN pc' = "frames" /\ buffer' = buffer \o chunk /\ UNCHANGED <<accum, start>>
           ELSE pc' = "lines" /\ accum' = accum \o chunk /\ start' = 1 /\ UNCHANGED buffer
    /\ UNCHANGED <<guarded, lines, overrun, ends, frames, heads>>

-----------------------------------------------------------------------------
(* The loop over accum.                                                    *)

IsNext(n) ==
    /\ n \in start .. Len(accum)
    /\ accum[n] = NL
    /\ \A m \in start .. n - 1 : accum[m] # NL

\* A line without the '\r' that may precede its '\n'.
Clean(line) ==
    IF line # <<>> /\ line[Len(line)] = CR THEN SubSeq(line, 1, Len(line) - 1) ELSE line
EndsWithGuard(line) == line # <<>> /\ line[Len(line)] = GUARD

NextStartLate(n) == n + 2
NextStart(n) == n + 1

TakeLine ==
    /\ pc = "lines"
    /\ \E n \in 1 .. Len(accum) :
        /\ IsNext(n)
        /\ LET line == Clean(SubSeq(accum, start, n - 1)) IN
            /\ ~EndsWithGuard(line)
            /\ lines' = Append(lines, line)
        /\ start' = NextStart(n)
        /\ ends' = Append(ends, Place(accum, n))
    /\ UNCHANGED <<sent, pc, guarded, accum, overrun, frameVars>>

\* What follows the guard line goes to the protocol.
TakeGuard ==
    /\ pc = "lines"
    /\ \E n \in 1 .. Len(accum) :
        /\ IsNext(n)
        /\ EndsWithGuard(Clean(SubSeq(accum, start, n - 1)))
        /\ accum' = From(accum, n + 1)
        /\ buffer' = buffer \o From(accum, n + 1)
        /\ ends' = Append(ends, Place(accum, n))
    /\ guarded' = TRUE
    /\ pc' = "frames"
    /\ UNCHANGED <<sent, start, lines, overrun, frames, heads>>

-----------------------------------------------------------------------------
(* appendReceived(): a frame is a length and as many bytes.                *)

CompleteLate == buffer # <<>> /\ buffer[1] + 1 < Len(buffer)
Complete == buffer # <<>> /\ buffer[1] + 1 <= Len(buffer)

TakeFrame ==
    /\ pc = "frames"
    /\ Complete
    /\ frames' = Append(frames, SubSeq(buffer, 2, buffer[1] + 1))
    /\ buffer' = From(buffer, buffer[1] + 2)
    /\ heads' = Append(heads, Place(buffer, 1))
    /\ UNCHANGED <<sent, pc, lineVars>>

FramesDone ==
    /\ pc = "frames"
    /\ ~Complete
    /\ start = 0
    /\ pc' = "read"
    /\ UNCHANGED <<sent, lineVars, frameVars>>

-----------------------------------------------------------------------------
(* The end of a turn.                                                      *)

\* A line that is too long is dropped, all that came of it.
AnyLength(bytes) == bytes
Dropped(bytes) == IF Len(bytes) > MaxAccum THEN <<>> ELSE bytes

\* accum loses the lines that were taken.  After the guard line it has lost them
\* already: what is left is anything, but it is not used again.
Erase ==
    /\ \/ pc = "lines" /\ \A n \in start .. Len(accum) : accum[n] # NL
       \/ pc = "frames" /\ ~Complete /\ start # 0
    /\ pc' = "read"
    /\ start' = 0
    /\ IF start - 1 <= Len(accum)
       THEN accum' = Dropped(From(accum, start)) /\ UNCHANGED overrun
       ELSE accum' \in {<<>>, accum} /\ overrun' = TRUE
    /\ UNCHANGED <<sent, guarded, lines, ends, frameVars>>

Next == Read \/ TakeLine \/ TakeGuard \/ TakeFrame \/ FramesDone \/ Erase

Spec == Init /\ [][Next]_vars
-----------------------------------------------------------------------------
(* Properties: they look at the whole stream, not at its chunks.           *)

\* As far as the loop has looked for lines.
Passed ==
    IF guarded THEN ends[Len(ends)]
    ELSE IF pc = "read" THEN Len(sent) ELSE Place(accum, start - 1)

\* Line k of the stream, and what taskLoop() makes of it if it has no more of it than
\* from b on: all, if the line is no longer than MAX_ACCUM.
LineStart(k) == IF k = 1 THEN 1 ELSE ends[k - 1] + 1
Short(k) == ends[k] - LineStart(k) <= MaxAccum
Kept(k, b) == b \in LineStart(k) .. ends[k] /\ (Short(k) => b = LineStart(k))
LineFrom(k, b) == Clean(SubSeq(sent, b, ends[k] - 1))

\* However read() cuts the stream, a line that is no longer than MAX_ACCUM arrives
\* whole, and of a longer one a tail: none is lost, split, joined or out of order,
\* and the first of the short ones that ends with "guard" is the guard line.
LinesArrive ==
    /\ \A k, m \in DOMAIN ends : k < m => ends[k] < ends[m]
    /\ {ends[k] : k \in DOMAIN ends} = {p \in DOMAIN sent : p <= Passed /\ sent[p] = NL}
    /\ Len(ends) = Len(lines) + (IF guarded THEN 1 ELSE 0)
    /\ \A k \in DOMAIN ends :
        \E b \in 1 .. Len(sent) :
            /\ Kept(k, b)
            /\ IF k \in DOMAIN lines
               THEN lines[k] = LineFrom(k, b) /\ ~EndsWithGuard(lines[k])
               ELSE EndsWithGuard(LineFrom(k, b))

\* From the guard line on, every byte is in a frame that was cut out or in one that
\* is not complete, in the order of the stream, wherever a chunk ended: in the guard
\* line's own chunk, in a header or in a frame.
FrameStart(k) ==
    IF k = 1 THEN ends[Len(ends)] + 1 ELSE heads[k - 1] + sent[heads[k - 1]] + 1
FramesArrive ==
    IF guarded
    THEN /\ Len(heads) = Len(frames)
         /\ \A k \in DOMAIN frames :
             /\ heads[k] = FrameStart(k)
             /\ Len(frames[k]) = sent[heads[k]]
             /\ frames[k] = SubSeq(sent, heads[k] + 1, heads[k] + Len(frames[k]))
         /\ buffer = From(sent, FrameStart(Len(frames) + 1))
         /\ pc = "read" => buffer = <<>> \/ Len(buffer) <= buffer[1]
    ELSE frames = <<>> /\ buffer = <<>>

\* A peer that never ends a line does not fill the memory: between two reads no more
\* is kept of its line than MAX_ACCUM, and never more than that and a chunk.
AccumBounded ==
    /\ Len(accum) <= MaxAccum + MaxChunk
    /\ pc = "read" => Len(accum) <= MaxAccum \/ overrun
=============================================================================
