---------------------------- MODULE ByteStreamProofs ----------------------------
(***************************************************************************)
(* Theorems about ByteStream, for streams of any length, cut anywhere, and *)
(* any bound on a line.  The invariants say which piece of the stream is   *)
(* still in accum and in the protocol's buffer: both are what is left of   *)
(* the stream, from a place on that the lines and frames so far determine. *)
(***************************************************************************)
EXTENDS ByteStream, SequenceTheorems, TLAPS

Typed ==
    /\ sent \in Seq(Nat) /\ accum \in Seq(Nat) /\ buffer \in Seq(Nat)
    /\ ends \in Seq(Int) /\ heads \in Seq(Int)
    /\ lines \in Seq(Seq(Nat)) /\ frames \in Seq(Seq(Nat))
    /\ start \in Nat
    /\ pc = "lines" => start \in 1 .. Len(accum) + 1

\* Frames are cut only after the guard line, and no lines then.
Phase ==
    /\ pc \in {"read", "lines", "frames"}
    /\ guarded \in BOOLEAN
    /\ pc = "lines" => ~guarded
    /\ pc = "frames" => guarded

\* The last line that ended, and where the next one begins in what is left of the stream.
LastEnd == IF Len(ends) = 0 THEN 0 ELSE ends[Len(ends)]
Base == Len(sent) - Len(accum)
Begin == IF pc = "lines" THEN Base + start ELSE Base + 1

\* Up to the guard line accum is what is left of the stream, and the next line begins
\* where the last one ended, or more than MAX_ACCUM of it were dropped.
Unfinished ==
    ~guarded =>
        /\ Len(accum) <= Len(sent)
        /\ accum = From(sent, Base + 1)
        /\ pc = "read" => start = 0
        /\ Begin = LastEnd + 1 \/ Begin > LastEnd + 1 + MaxAccum

\* The ends of lines were all seen, in their order.
EndsSeen ==
    /\ \A k, m \in 1 .. Len(ends) : k < m => ends[k] < ends[m]
    /\ \A k \in 1 .. Len(ends) : ends[k] \in 1 .. Passed /\ sent[ends[k]] = NL
    /\ \A p \in 1 .. Passed : sent[p] = NL => \E k \in 1 .. Len(ends) : ends[k] = p
    /\ Passed \in 0 .. Len(sent)
    /\ guarded => Len(ends) = Len(lines) + 1
    /\ ~guarded => Len(ends) = Len(lines)

\* Line k is what the stream has of it.
Arrived(k) ==
    \E b \in 1 .. Len(sent) :
        /\ Kept(k, b)
        /\ k <= Len(lines) => lines[k] = LineFrom(k, b) /\ ~EndsWithGuard(lines[k])
        /\ ~(k <= Len(lines)) => EndsWithGuard(LineFrom(k, b))
AllArrived == \A k \in 1 .. Len(ends) : Arrived(k)

LineInv == Typed /\ Phase /\ Unfinished /\ EndsSeen /\ AllArrived

-----------------------------------------------------------------------------
(* Pieces of streams.                                                      *)

\* A piece of a stream.
LEMMA Piece ==
    ASSUME NEW s \in Seq(Nat), NEW m \in Nat \ {0}, NEW n \in Nat, n <= Len(s)
    PROVE  /\ SubSeq(s, m, n) \in Seq(Nat)
           /\ Len(SubSeq(s, m, n)) = IF m <= n THEN n - m + 1 ELSE 0
           /\ \A k \in 1 .. n - m + 1 : SubSeq(s, m, n)[k] = s[m + k - 1]
<1>1. \A k \in m .. n : s[k] \in Nat
  OBVIOUS
<1>2. m \in Int /\ n \in Int
  OBVIOUS
<1> QED
  BY <1>1, <1>2, SubSeqProperties

\* What is left of a stream from a place on.
LEMMA Rest ==
    ASSUME NEW s \in Seq(Nat), NEW m \in 1 .. Len(s) + 1
    PROVE  /\ From(s, m) \in Seq(Nat)
           /\ Len(From(s, m)) = Len(s) - m + 1
           /\ \A k \in 1 .. Len(s) - m + 1 : From(s, m)[k] = s[m + k - 1]
<1>1. m \in Nat \ {0} /\ Len(s) \in Nat
  OBVIOUS
<1> QED
  BY <1>1, Piece DEF From

\* A piece of a stream is not changed by what comes later.
LEMMA PieceStays ==
    ASSUME NEW s \in Seq(Nat), NEW t \in Seq(Nat),
           NEW m \in Nat \ {0}, NEW n \in Nat, n <= Len(s)
    PROVE  SubSeq(s \o t, m, n) = SubSeq(s, m, n)
<1> DEFINE u == s \o t
<1>1. /\ u \in Seq(Nat) /\ Len(u) = Len(s) + Len(t) /\ Len(s) \in Nat /\ Len(t) \in Nat
      /\ \A k \in 1 .. Len(s) : u[k] = s[k]
  OBVIOUS
<1> HIDE DEF u
<1>2. n <= Len(u)
  BY <1>1
<1> DEFINE x == SubSeq(s, m, n)
           y == SubSeq(u, m, n)
<1>3. /\ x \in Seq(Nat) /\ Len(x) = (IF m <= n THEN n - m + 1 ELSE 0)
      /\ \A k \in 1 .. n - m + 1 : x[k] = s[m + k - 1]
  BY <1>1, Piece
<1>4. /\ y \in Seq(Nat) /\ Len(y) = (IF m <= n THEN n - m + 1 ELSE 0)
      /\ \A k \in 1 .. n - m + 1 : y[k] = u[m + k - 1]
  BY <1>1, <1>2, Piece, SMTT(30)
<1> HIDE DEF x, y
<1>5. \A k \in 1 .. Len(x) : x[k] = y[k]
  <2> SUFFICES ASSUME NEW k \in 1 .. Len(x) PROVE x[k] = y[k]
    OBVIOUS
  <2>0. Len(x) \in Nat /\ Len(s) \in Nat /\ m \in Nat /\ m # 0
    BY <1>1, <1>3
  <2>3. k \in 1 .. n - m + 1
    BY <1>3, <2>0
  <2>1. k \in 1 .. n - m + 1 /\ m + k - 1 \in 1 .. Len(s)
    BY <2>0, <2>3
  <2>2. x[k] = s[m + k - 1] /\ y[k] = u[m + k - 1] /\ u[m + k - 1] = s[m + k - 1]
    BY <1>1, <1>3, <1>4, <2>1
  <2> QED
    BY <2>2
<1>6. x = y
  BY <1>3, <1>4, <1>5, SeqEqual
<1> QED
  BY <1>6 DEF x, y, u

\* What is left of a stream grows as the stream does.
LEMMA RestGrows ==
    ASSUME NEW s \in Seq(Nat), NEW t \in Seq(Nat), NEW m \in 1 .. Len(s) + 1
    PROVE  From(s, m) \o t = From(s \o t, m)
<1> DEFINE u == s \o t
           r == From(s, m)
           q == From(u, m)
           p == r \o t
<1>1. /\ u \in Seq(Nat) /\ Len(u) = Len(s) + Len(t) /\ Len(s) \in Nat /\ Len(t) \in Nat
      /\ \A k \in 1 .. Len(s) + Len(t) : u[k] = IF k <= Len(s) THEN s[k] ELSE t[k - Len(s)]
  BY ConcatProperties, LenProperties
<1>2. /\ r \in Seq(Nat) /\ Len(r) = Len(s) - m + 1
      /\ \A k \in 1 .. Len(s) - m + 1 : r[k] = s[m + k - 1]
  BY Rest
<1> HIDE DEF u, r
<1>3. /\ p \in Seq(Nat) /\ Len(p) = Len(r) + Len(t)
      /\ \A k \in 1 .. Len(r) + Len(t) : p[k] = IF k <= Len(r) THEN r[k] ELSE t[k - Len(r)]
  BY <1>2, ConcatProperties
<1>4. m \in 1 .. Len(u) + 1
  BY <1>1
<1>5. /\ q \in Seq(Nat) /\ Len(q) = Len(u) - m + 1
      /\ \A k \in 1 .. Len(u) - m + 1 : q[k] = u[m + k - 1]
  BY <1>1, <1>4, Rest
<1> HIDE DEF p, q
<1>6. Len(p) = Len(q)
  BY <1>1, <1>2, <1>3, <1>5
<1>7. \A k \in 1 .. Len(p) : p[k] = q[k]
  <2> SUFFICES ASSUME NEW k \in 1 .. Len(p) PROVE p[k] = q[k]
    OBVIOUS
  <2>1. /\ k \in 1 .. Len(u) - m + 1 /\ m + k - 1 \in 1 .. Len(s) + Len(t)
        /\ k \in 1 .. Len(r) + Len(t)
    BY <1>1, <1>2, <1>3
  <2>0. q[k] = u[m + k - 1]
    BY <1>5, <2>1
  <2>2. CASE k <= Len(r)
    <3>1. k \in 1 .. Len(s) - m + 1 /\ m + k - 1 <= Len(s)
      BY <1>1, <1>2, <2>1, <2>2
    <3>2. p[k] = r[k] /\ r[k] = s[m + k - 1]
      BY <1>2, <1>3, <2>1, <2>2, <3>1
    <3>3. u[m + k - 1] = s[m + k - 1]
      BY <1>1, <2>1, <3>1
    <3> QED
      BY <2>0, <3>2, <3>3
  <2>3. CASE ~(k <= Len(r))
    <3>1. ~(m + k - 1 <= Len(s)) /\ (m + k - 1) - Len(s) = k - Len(r)
      BY <1>1, <1>2, <2>1, <2>3
    <3>2. p[k] = t[k - Len(r)]
      BY <1>3, <2>1, <2>3
    <3>3. u[m + k - 1] = t[(m + k - 1) - Len(s)]
      BY <1>1, <2>1, <3>1
    <3> QED
      BY <2>0, <3>1, <3>2, <3>3
  <2> QED
    BY <2>2, <2>3
<1>8. p = q
  BY <1>3, <1>5, <1>6, <1>7, SeqEqual
<1> QED
  BY <1>8 DEF p, q, r, u

\* A piece of what is left of a stream is a piece of the stream.
LEMMA PieceOfRest ==
    ASSUME NEW s \in Seq(Nat), NEW a \in 1 .. Len(s) + 1,
           NEW m \in Nat \ {0}, NEW n \in Nat, n <= Len(s) - a + 1
    PROVE  SubSeq(From(s, a), m, n) = SubSeq(s, a + m - 1, a + n - 1)
<1> DEFINE r == From(s, a)
           x == SubSeq(r, m, n)
           y == SubSeq(s, a + m - 1, a + n - 1)
<1>1. /\ r \in Seq(Nat) /\ Len(r) = Len(s) - a + 1 /\ Len(s) \in Nat
      /\ \A k \in 1 .. Len(s) - a + 1 : r[k] = s[a + k - 1]
  BY Rest, LenProperties
<1> HIDE DEF r
<1>2. /\ x \in Seq(Nat) /\ Len(x) = (IF m <= n THEN n - m + 1 ELSE 0)
      /\ \A k \in 1 .. n - m + 1 : x[k] = r[m + k - 1]
  BY <1>1, Piece, SMTT(30)
<1>3. /\ a + m - 1 \in Nat \ {0} /\ a + n - 1 \in Nat /\ a + n - 1 <= Len(s)
      /\ (a + m - 1 <= a + n - 1) = (m <= n)
      /\ (a + n - 1) - (a + m - 1) + 1 = n - m + 1
  BY <1>1
<1>4. /\ y \in Seq(Nat) /\ Len(y) = (IF m <= n THEN n - m + 1 ELSE 0)
      /\ \A k \in 1 .. n - m + 1 : y[k] = s[(a + m - 1) + k - 1]
  BY <1>1, <1>3, Piece
<1> HIDE DEF x, y
<1>5. \A k \in 1 .. Len(x) : x[k] = y[k]
  <2> SUFFICES ASSUME NEW k \in 1 .. Len(x) PROVE x[k] = y[k]
    OBVIOUS
  <2>1. k \in 1 .. n - m + 1 /\ m + k - 1 \in 1 .. Len(s) - a + 1
    BY <1>1, <1>2
  <2>2. x[k] = s[a + (m + k - 1) - 1]
    BY <1>1, <1>2, <2>1
  <2>3. y[k] = s[(a + m - 1) + k - 1]
    BY <1>4, <2>1
  <2>4. (a + m - 1) + k - 1 = a + (m + k - 1) - 1
    BY <1>1, <2>1
  <2> QED
    BY <2>2, <2>3, <2>4
<1>6. x = y
  BY <1>2, <1>4, <1>5, SeqEqual
<1> QED
  BY <1>6 DEF x, y, r

\* So is what is left of it.
LEMMA RestOfRest ==
    ASSUME NEW s \in Seq(Nat), NEW a \in 1 .. Len(s) + 1, NEW b \in 1 .. Len(s) - a + 2
    PROVE  From(From(s, a), b) = From(s, a + b - 1)
<1>1. Len(From(s, a)) = Len(s) - a + 1 /\ Len(s) \in Nat
  BY Rest, LenProperties
<1>2. /\ b \in Nat \ {0} /\ Len(s) - a + 1 \in Nat /\ Len(s) - a + 1 <= Len(s) - a + 1
      /\ a + (Len(s) - a + 1) - 1 = Len(s)
  BY <1>1
<1>3. SubSeq(From(s, a), b, Len(s) - a + 1) = SubSeq(s, a + b - 1, Len(s))
  BY <1>2, PieceOfRest, ZenonT(60)
<1> QED
  BY <1>1, <1>3 DEF From

\* A sequence with one more element.
LEMMA Appended ==
    ASSUME NEW S, NEW s \in Seq(S), NEW e \in S
    PROVE  /\ Append(s, e) \in Seq(S)
           /\ Len(Append(s, e)) = Len(s) + 1 /\ Len(s) \in Nat
           /\ DOMAIN Append(s, e) = 1 .. Len(s) + 1 /\ DOMAIN s = 1 .. Len(s)
           /\ \A k \in 1 .. Len(s) : Append(s, e)[k] = s[k]
           /\ Append(s, e)[Len(s) + 1] = e
OBVIOUS

\* What read() returns.
LEMMA ChunkTyped ==
    \A chunk \in Chunks : chunk \in Seq(Nat) /\ Len(chunk) \in 1 .. MaxChunk
<1> SUFFICES ASSUME NEW chunk \in Chunks PROVE chunk \in Seq(Nat) /\ Len(chunk) \in 1 .. MaxChunk
  OBVIOUS
<1>1. PICK n \in 1 .. MaxChunk : chunk \in [1 .. n -> Bytes]
  BY DEF Chunks
<1>2. Bytes \subseteq Nat
  BY StreamAssumption DEF Bytes, NL, CR, GUARD
<1>3. n \in Nat /\ n \in 1 .. MaxChunk
  BY <1>1, StreamAssumption
<1>4. chunk \in [1 .. n -> Nat]
  BY <1>1, <1>2
<1> QED
  BY <1>3, <1>4

\* A line without its '\r' is a sequence of bytes.
LEMMA CleanTyped == \A line \in Seq(Nat) : Clean(line) \in Seq(Nat)
<1> SUFFICES ASSUME NEW line \in Seq(Nat) PROVE Clean(line) \in Seq(Nat)
  OBVIOUS
<1>1. CASE line = <<>>
  BY <1>1 DEF Clean
<1>2. CASE line # <<>>
  <2>1. Len(line) - 1 \in Nat /\ Len(line) - 1 <= Len(line)
    BY <1>2
  <2>2. SubSeq(line, 1, Len(line) - 1) \in Seq(Nat)
    BY <2>1, Piece
  <2> QED
    BY <2>2 DEF Clean
<1> QED
  BY <1>1, <1>2

-----------------------------------------------------------------------------
(* Types.                                                                  *)

\* Every step keeps the types.
LEMMA StepTyped == Typed /\ [Next]_vars => Typed'
<1> SUFFICES ASSUME Typed, [Next]_vars PROVE Typed'
  OBVIOUS
<1>0. /\ Len(accum) \in Nat /\ Len(buffer) \in Nat /\ Len(sent) \in Nat
      /\ <<>> \in Seq(Nat)
  BY DEF Typed
<1>1. CASE Read
  <2>1. PICK chunk \in Chunks :
            /\ sent' = sent \o chunk
            /\ IF guarded
               THEN pc' = "frames" /\ buffer' = buffer \o chunk /\ UNCHANGED <<accum, start>>
               ELSE pc' = "lines" /\ accum' = accum \o chunk /\ start' = 1 /\ UNCHANGED buffer
    BY <1>1 DEF Read
  <2>2. /\ sent \o chunk \in Seq(Nat) /\ buffer \o chunk \in Seq(Nat)
        /\ accum \o chunk \in Seq(Nat)
    BY ChunkTyped, ConcatProperties DEF Typed
  <2>3. UNCHANGED <<ends, heads, lines, frames>>
    BY <1>1 DEF Read
  <2>4. CASE guarded
    BY <2>1, <2>2, <2>3, <2>4 DEF Typed
  <2>5. CASE ~guarded
    <3>1. /\ sent' = sent \o chunk /\ accum' = accum \o chunk /\ start' = 1 /\ buffer' = buffer
      BY <2>1, <2>5
    <3>2. 1 \in 1 .. Len(accum \o chunk) + 1
      BY <2>2
    <3> QED
      BY <2>2, <2>3, <3>1, <3>2 DEF Typed
  <2> QED
    BY <2>4, <2>5
<1>2. ASSUME NEW n \in 1 .. Len(accum), IsNext(n), pc = "lines"
      PROVE  /\ n + 1 \in 1 .. Len(accum) + 1 /\ Place(accum, n) = Len(sent) - Len(accum) + n
             /\ SubSeq(accum, start, n - 1) \in Seq(Nat)
             /\ Clean(SubSeq(accum, start, n - 1)) \in Seq(Nat)
  <2>1. /\ n - 1 \in Nat /\ n - 1 <= Len(accum) /\ n + 1 \in 1 .. Len(accum) + 1
        /\ start \in Nat \ {0}
    BY <1>0, <1>2 DEF Typed
  <2>2. SubSeq(accum, start, n - 1) \in Seq(Nat)
    BY <2>1, Piece DEF Typed
  <2> QED
    BY <2>1, <2>2, CleanTyped DEF Place
<1>3. CASE TakeLine
  <2>1. PICK n \in 1 .. Len(accum) :
            /\ IsNext(n)
            /\ lines' = Append(lines, Clean(SubSeq(accum, start, n - 1)))
            /\ start' = NextStart(n)
            /\ ends' = Append(ends, Place(accum, n))
    BY <1>3 DEF TakeLine
  <2>2. pc = "lines" /\ UNCHANGED <<sent, pc, accum, buffer, heads, frames>>
    BY <1>3 DEF TakeLine, frameVars
  <2>3. /\ n + 1 \in 1 .. Len(accum) + 1 /\ Place(accum, n) \in Int
        /\ Clean(SubSeq(accum, start, n - 1)) \in Seq(Nat)
    BY <1>0, <1>2, <2>1, <2>2
  <2>4. lines' \in Seq(Seq(Nat)) /\ ends' \in Seq(Int)
    BY <2>1, <2>3, Appended DEF Typed
  <2>5. start' \in Nat /\ start' \in 1 .. Len(accum') + 1
    BY <1>0, <2>1, <2>2, <2>3 DEF NextStart
  <2> QED
    BY <2>2, <2>4, <2>5 DEF Typed
<1>4. CASE TakeGuard
  <2>1. PICK n \in 1 .. Len(accum) :
            /\ IsNext(n)
            /\ accum' = From(accum, n + 1)
            /\ buffer' = buffer \o From(accum, n + 1)
            /\ ends' = Append(ends, Place(accum, n))
    BY <1>4 DEF TakeGuard
  <2>2. pc = "lines" /\ pc' = "frames" /\ UNCHANGED <<sent, start, lines, heads, frames>>
    BY <1>4 DEF TakeGuard
  <2>3. n + 1 \in 1 .. Len(accum) + 1 /\ Place(accum, n) \in Int
    BY <1>0, <1>2, <2>1, <2>2
  <2>4. From(accum, n + 1) \in Seq(Nat)
    BY <2>3, Rest DEF Typed
  <2>5. accum' \in Seq(Nat) /\ buffer' \in Seq(Nat) /\ ends' \in Seq(Int)
    BY <2>1, <2>3, <2>4, Appended, ConcatProperties DEF Typed
  <2> QED
    BY <2>2, <2>5 DEF Typed
<1>5. CASE TakeFrame
  <2>1. /\ Complete
        /\ frames' = Append(frames, SubSeq(buffer, 2, buffer[1] + 1))
        /\ buffer' = From(buffer, buffer[1] + 2)
        /\ heads' = Append(heads, Place(buffer, 1))
        /\ UNCHANGED <<sent, pc, accum, start, lines, ends>>
    BY <1>5 DEF TakeFrame, lineVars
  <2>2. /\ buffer[1] \in Nat /\ buffer[1] + 1 <= Len(buffer) /\ 2 \in Nat \ {0}
        /\ buffer[1] + 1 \in Nat /\ buffer[1] + 2 \in 1 .. Len(buffer) + 1
        /\ Place(buffer, 1) \in Int
    <3>1. buffer # <<>> /\ buffer[1] + 1 <= Len(buffer)
      BY <2>1 DEF Complete
    <3>2. buffer[1] \in Nat
      BY <3>1 DEF Typed
    <3> QED
      BY <1>0, <3>1, <3>2 DEF Place
  <2>3. /\ SubSeq(buffer, 2, buffer[1] + 1) \in Seq(Nat)
        /\ From(buffer, buffer[1] + 2) \in Seq(Nat)
    BY <2>2, Piece, Rest DEF Typed
  <2>4. frames' \in Seq(Seq(Nat)) /\ heads' \in Seq(Int) /\ buffer' \in Seq(Nat)
    BY <2>1, <2>2, <2>3, Appended DEF Typed
  <2> QED
    BY <2>1, <2>4 DEF Typed
<1>6. CASE FramesDone
  BY <1>6 DEF FramesDone, lineVars, frameVars, Typed
<1>7. CASE Erase
  <2>1. UNCHANGED <<sent, lines, ends, heads, buffer, frames>> /\ pc' = "read" /\ start' = 0
    BY <1>7 DEF Erase, frameVars
  <2>2. accum' \in Seq(Nat)
    <3>1. CASE start - 1 <= Len(accum)
      <4>1. CASE start = 0
        <5>1. FALSE
          BY <1>7, <4>1 DEF Erase, Typed
        <5> QED
          BY <5>1
      <4>2. CASE start # 0
        <5>1. start \in 1 .. Len(accum) + 1
          BY <1>0, <3>1, <4>2 DEF Typed
        <5>2. From(accum, start) \in Seq(Nat)
          BY <5>1, Rest DEF Typed
        <5> QED
          BY <1>0, <1>7, <3>1, <5>2 DEF Erase, Dropped
      <4> QED
        BY <4>1, <4>2
    <3>2. CASE ~(start - 1 <= Len(accum))
      BY <1>0, <1>7, <3>2 DEF Erase, Typed
    <3> QED
      BY <3>1, <3>2
  <2> QED
    BY <2>1, <2>2 DEF Typed
<1>8. CASE UNCHANGED vars
  BY <1>8 DEF vars, lineVars, frameVars, Typed
<1> QED
  BY <1>1, <1>3, <1>4, <1>5, <1>6, <1>7, <1>8 DEF Next

\* The phases follow each other as in taskLoop().
LEMMA StepPhase == Phase /\ [Next]_vars => Phase'
<1> SUFFICES ASSUME Phase, [Next]_vars PROVE Phase'
  OBVIOUS
<1>1. CASE Read
  BY <1>1 DEF Phase, Read
<1>2. CASE TakeLine
  BY <1>2 DEF Phase, TakeLine
<1>3. CASE TakeGuard
  BY <1>3 DEF Phase, TakeGuard
<1>4. CASE TakeFrame
  BY <1>4 DEF Phase, TakeFrame, lineVars
<1>5. CASE FramesDone \/ Erase
  BY <1>5 DEF Phase, FramesDone, Erase, lineVars
<1>6. CASE UNCHANGED vars
  BY <1>6 DEF Phase, vars, lineVars
<1> QED
  BY <1>1, <1>2, <1>3, <1>4, <1>5, <1>6 DEF Next

-----------------------------------------------------------------------------
(* Lines.                                                                  *)

\* What accum holds is in the stream.
LEMMA InStream ==
    ASSUME Typed, Unfinished, ~guarded
    PROVE  /\ Len(accum) \in Nat /\ Len(sent) \in Nat /\ Len(accum) <= Len(sent)
           /\ Base \in Nat /\ Base + 1 \in 1 .. Len(sent) + 1 /\ Len(accum) = Len(sent) - Base
           /\ accum = From(sent, Base + 1)
           /\ \A n \in 1 .. Len(accum) : accum[n] = sent[Base + n]
<1>1. /\ Len(accum) \in Nat /\ Len(sent) \in Nat /\ Len(accum) <= Len(sent)
      /\ accum = From(sent, Base + 1)
  BY DEF Typed, Unfinished
<1>2. /\ Base \in Nat /\ Base + 1 \in 1 .. Len(sent) + 1 /\ Len(accum) = Len(sent) - Base
  BY <1>1 DEF Base
<1>3. \A n \in 1 .. Len(sent) - (Base + 1) + 1 : From(sent, Base + 1)[n] = sent[(Base + 1) + n - 1]
  BY <1>2, Rest DEF Typed
<1>4. ASSUME NEW n \in 1 .. Len(accum) PROVE accum[n] = sent[Base + n]
  <2>1. n \in 1 .. Len(sent) - (Base + 1) + 1 /\ (Base + 1) + n - 1 = Base + n
    BY <1>1, <1>2
  <2> QED
    BY <1>1, <1>3, <2>1
<1> QED
  BY <1>1, <1>2, <1>4

\* The next line of accum is the next line of the stream.
LEMMA NextLine ==
    ASSUME Typed, Unfinished, ~guarded, pc = "lines",
           NEW n \in 1 .. Len(accum), IsNext(n)
    PROVE  LET p == Place(accum, n) IN
           /\ p = Base + n /\ p \in 1 .. Len(sent) /\ Begin \in 1 .. p /\ Begin = Base + start
           /\ sent[p] = NL
           /\ \A q \in Begin .. p - 1 : sent[q] # NL
           /\ SubSeq(accum, start, n - 1) = SubSeq(sent, Begin, p - 1)
           /\ From(accum, n + 1) = From(sent, p + 1)
<1> DEFINE p == Place(accum, n)
<1>1. /\ Len(accum) \in Nat /\ Len(sent) \in Nat /\ Len(accum) <= Len(sent)
      /\ Base \in Nat /\ Base + 1 \in 1 .. Len(sent) + 1 /\ Len(accum) = Len(sent) - Base
      /\ accum = From(sent, Base + 1)
      /\ \A m \in 1 .. Len(accum) : accum[m] = sent[Base + m]
  BY InStream
<1>2. /\ start \in 1 .. Len(accum) + 1 /\ n \in start .. Len(accum) /\ accum[n] = NL
      /\ \A m \in start .. n - 1 : accum[m] # NL
  BY DEF Typed, IsNext
<1>3. p = Base + n /\ Begin = Base + start
  BY <1>1 DEF Place, Base, Begin
<1>4. p \in 1 .. Len(sent) /\ Begin \in 1 .. p
  BY <1>1, <1>2, <1>3
<1>5. sent[p] = NL
  BY <1>1, <1>2, <1>3
<1>6. ASSUME NEW q \in Begin .. p - 1 PROVE sent[q] # NL
  <2>1. q - Base \in start .. n - 1 /\ q - Base \in 1 .. Len(accum) /\ Base + (q - Base) = q
    BY <1>1, <1>2, <1>3
  <2> QED
    BY <1>1, <1>2, <2>1
<1>7. SubSeq(accum, start, n - 1) = SubSeq(sent, Begin, p - 1)
  <2>1. /\ start \in Nat \ {0} /\ n - 1 \in Nat /\ n - 1 <= Len(sent) - (Base + 1) + 1
        /\ (Base + 1) + start - 1 = Begin /\ (Base + 1) + (n - 1) - 1 = p - 1
    BY <1>1, <1>2, <1>3
  <2>2. SubSeq(From(sent, Base + 1), start, n - 1)
            = SubSeq(sent, (Base + 1) + start - 1, (Base + 1) + (n - 1) - 1)
    <3>1. sent \in Seq(Nat) /\ Base + 1 \in 1 .. Len(sent) + 1
      BY <1>1 DEF Typed
    <3> HIDE DEF p
    <3> QED
      BY <2>1, <3>1, PieceOfRest
  <2> QED
    BY <1>1, <2>1, <2>2
<1>8. From(accum, n + 1) = From(sent, p + 1)
  <2>3. n \in 1 .. Len(sent) - Base /\ Base \in Nat /\ Len(sent) \in Nat
    BY <1>1
  <2>1. n + 1 \in 1 .. Len(sent) - (Base + 1) + 2 /\ (Base + 1) + (n + 1) - 1 = p + 1
    BY <1>3, <2>3
  <2>2. From(From(sent, Base + 1), n + 1) = From(sent, (Base + 1) + (n + 1) - 1)
    BY <1>1, <2>1, RestOfRest DEF Typed
  <2> QED
    BY <1>1, <2>1, <2>2
<1> QED
  BY <1>3, <1>4, <1>5, <1>6, <1>7, <1>8

\* A line that is taken ends after all that were taken before.
LEMMA LastEndGrows ==
    ASSUME Typed, NEW e \in Int, ends' = Append(ends, e)
    PROVE  /\ LastEnd' = e /\ Len(ends') = Len(ends) + 1 /\ Len(ends) \in Nat
           /\ \A k \in 1 .. Len(ends) : ends'[k] = ends[k]
           /\ ends'[Len(ends) + 1] = e
<1>1. /\ Len(ends') = Len(ends) + 1 /\ Len(ends) \in Nat
      /\ \A k \in 1 .. Len(ends) : ends'[k] = ends[k]
      /\ ends'[Len(ends) + 1] = e
  BY Appended DEF Typed
<1>2. Len(ends') # 0
  BY <1>1
<1> QED
  BY <1>1, <1>2 DEF LastEnd

\* Every step leaves in accum what is left of the stream.
LEMMA StepUnfinished == Typed /\ Phase /\ Unfinished /\ [Next]_vars => Unfinished'
<1> SUFFICES ASSUME Typed, Phase, Unfinished, [Next]_vars, ~guarded' PROVE Unfinished'
  BY DEF Unfinished
<1>0. MaxAccum \in Nat
  BY StreamAssumption
<1>1. ~guarded
  <2>1. guarded => guarded'
    BY DEF Next, Read, TakeLine, TakeGuard, TakeFrame, FramesDone, Erase, lineVars, vars
  <2> QED
    BY <2>1
<1>2. /\ Len(accum) \in Nat /\ Len(sent) \in Nat /\ Len(accum) <= Len(sent)
      /\ Base \in Nat /\ Base + 1 \in 1 .. Len(sent) + 1 /\ Len(accum) = Len(sent) - Base
      /\ accum = From(sent, Base + 1)
  BY <1>1, InStream
<1>3. Begin = LastEnd + 1 \/ Begin > LastEnd + 1 + MaxAccum
  BY <1>1 DEF Unfinished
<1>4. CASE Read
  <2>1. PICK chunk \in Chunks :
            /\ sent' = sent \o chunk /\ accum' = accum \o chunk
            /\ pc = "read" /\ pc' = "lines" /\ start' = 1 /\ ends' = ends
    BY <1>1, <1>4 DEF Read
  <2>2. chunk \in Seq(Nat) /\ Len(chunk) \in Nat
    BY ChunkTyped
  <2>3. /\ Len(accum') = Len(accum) + Len(chunk) /\ Len(sent') = Len(sent) + Len(chunk)
    BY <2>1, <2>2, ConcatProperties DEF Typed
  <2>4. Base' = Base
    BY <1>2, <2>2, <2>3 DEF Base
  <2>5. accum' = From(sent', Base' + 1)
    BY <1>2, <2>1, <2>2, <2>4, RestGrows DEF Typed
  <2>6. Begin' = Begin /\ LastEnd' = LastEnd
    BY <2>1, <2>4 DEF Begin, LastEnd
  <2>7. Len(accum') <= Len(sent')
    BY <1>2, <2>2, <2>3
  <2> QED
    BY <1>3, <2>1, <2>5, <2>6, <2>7 DEF Unfinished
<1>5. CASE TakeLine
  <2>1. PICK n \in 1 .. Len(accum) :
            IsNext(n) /\ start' = NextStart(n) /\ ends' = Append(ends, Place(accum, n))
    BY <1>5 DEF TakeLine
  <2>2. pc = "lines" /\ UNCHANGED <<sent, accum, pc>>
    BY <1>5 DEF TakeLine
  <2>3. Place(accum, n) = Base + n /\ Place(accum, n) \in Int
    BY <1>1, <1>2, <2>1, <2>2, NextLine
  <2>4. LastEnd' = Base + n
    BY <2>1, <2>3, LastEndGrows
  <2>5. Base' = Base
    BY <2>2 DEF Base
  <2>6. Begin' = LastEnd' + 1
    BY <1>2, <2>1, <2>2, <2>4, <2>5 DEF Begin, NextStart
  <2> QED
    BY <1>2, <2>2, <2>5, <2>6 DEF Unfinished
<1>6. CASE TakeGuard
  BY <1>6 DEF TakeGuard
<1>7. CASE TakeFrame \/ FramesDone
  BY <1>1, <1>7 DEF Phase, TakeFrame, FramesDone
<1>8. CASE Erase
  <2>1. pc = "lines" /\ pc' = "read" /\ start' = 0 /\ UNCHANGED <<sent, ends>>
    BY <1>1, <1>8 DEF Erase, Phase
  <2>2. start \in 1 .. Len(accum) + 1 /\ start - 1 <= Len(accum)
    BY <1>2, <2>1 DEF Typed
  <2>3. accum' = Dropped(From(accum, start))
    BY <1>8, <2>2 DEF Erase
  <2>4. Begin = Base + start /\ LastEnd' = LastEnd
    BY <2>1 DEF Begin, LastEnd
  <2>5. From(accum, start) = From(sent, Begin) /\ Len(From(accum, start)) = Len(accum) - start + 1
    <3>1. start \in 1 .. Len(sent) - (Base + 1) + 2 /\ (Base + 1) + start - 1 = Begin
      BY <1>2, <2>2, <2>4
    <3>2. From(From(sent, Base + 1), start) = From(sent, (Base + 1) + start - 1)
      BY <1>2, <3>1, RestOfRest DEF Typed
    <3> QED
      BY <1>2, <2>2, <3>1, <3>2, Rest DEF Typed
  <2>6. CASE Len(From(accum, start)) > MaxAccum
    <3>1. accum' = <<>>
      BY <2>3, <2>6 DEF Dropped
    <3>2. Base' = Len(sent) /\ Begin' = Len(sent) + 1 /\ Len(accum') = 0
      BY <1>2, <2>1, <3>1 DEF Base, Begin
    <3>3. accum' = From(sent', Base' + 1)
      BY <1>2, <2>1, <3>1, <3>2, SubSeqEmpty DEF From
    <3>4. Begin' > LastEnd' + 1 + MaxAccum
      <4>1. Len(sent) + 1 = Begin + Len(From(accum, start)) /\ Begin \in Int
        BY <1>2, <2>2, <2>4, <2>5
      <4>2. LastEnd \in Int
        BY DEF LastEnd, Typed
      <4>3. Begin' >= LastEnd + 1 + Len(From(accum, start))
        BY <1>0, <1>2, <1>3, <3>2, <4>1, <4>2
      <4>4. LastEnd' = LastEnd /\ Len(From(accum, start)) \in Nat /\ Begin' \in Int
        BY <2>4, <2>5, <3>2, <4>1, <1>2, <2>2
      <4> QED
        BY <1>0, <2>6, <4>2, <4>3, <4>4
    <3> QED
      BY <1>2, <2>1, <3>2, <3>3, <3>4 DEF Unfinished
  <2>7. CASE ~(Len(From(accum, start)) > MaxAccum)
    <3>1. accum' = From(accum, start)
      BY <2>3, <2>7 DEF Dropped
    <3>2. Base' + 1 = Begin /\ Begin' = Begin /\ Len(accum') <= Len(sent')
      BY <1>2, <2>1, <2>2, <2>4, <2>5, <3>1 DEF Base, Begin
    <3> QED
      BY <1>3, <2>1, <2>4, <2>5, <3>1, <3>2 DEF Unfinished
  <2> QED
    BY <2>6, <2>7
<1>9. CASE UNCHANGED vars
  BY <1>9 DEF vars, lineVars, Unfinished, Begin, Base, LastEnd
<1> QED
  BY <1>4, <1>5, <1>6, <1>7, <1>8, <1>9 DEF Next

\* The ends that were seen are in order, up to the last of them.
LEMMA UpToLast ==
    ASSUME Typed, EndsSeen
    PROVE  /\ LastEnd \in Nat /\ Len(ends) \in Nat /\ Len(sent) \in Nat
           /\ \A k \in 1 .. Len(ends) :
                  /\ ends[k] <= LastEnd /\ ends[k] \in Nat /\ ends[k] >= 1
                  /\ ends[k] <= Len(sent)
<1>1. /\ Len(ends) \in Nat /\ Len(sent) \in Nat /\ Passed \in 0 .. Len(sent)
      /\ \A k \in 1 .. Len(ends) : ends[k] \in 1 .. Passed
      /\ \A k, m \in 1 .. Len(ends) : k < m => ends[k] < ends[m]
  BY DEF Typed, EndsSeen
<1>2. CASE Len(ends) = 0
  BY <1>1, <1>2 DEF LastEnd
<1>3. CASE Len(ends) # 0
  <2>1. LastEnd = ends[Len(ends)] /\ Len(ends) \in 1 .. Len(ends)
    BY <1>1, <1>3 DEF LastEnd
  <2>2. ASSUME NEW k \in 1 .. Len(ends)
        PROVE  ends[k] <= LastEnd /\ ends[k] \in Nat /\ ends[k] >= 1 /\ ends[k] <= Len(sent)
    <3>1. ends[k] \in Nat /\ ends[k] >= 1 /\ ends[k] <= Len(sent) /\ LastEnd \in Nat
      BY <1>1, <2>1
    <3>2. k = Len(ends) \/ k < Len(ends)
      BY <1>1
    <3>3. ends[k] = LastEnd \/ ends[k] < LastEnd
      BY <1>1, <2>1, <3>2
    <3> QED
      BY <3>1, <3>3
  <2>3. LastEnd \in Nat
    BY <2>1, <2>2
  <2> QED
    BY <1>1, <2>2, <2>3
<1> QED
  BY <1>2, <1>3

\* Every step sees the next end of a line, and none that is not one.
LEMMA StepEndsSeen == Typed /\ Phase /\ Unfinished /\ EndsSeen /\ [Next]_vars => EndsSeen'
<1> SUFFICES ASSUME Typed, Phase, Unfinished, EndsSeen, [Next]_vars PROVE EndsSeen'
  OBVIOUS
<1>0. MaxAccum \in Nat
  BY StreamAssumption
<1>1. /\ LastEnd \in Nat /\ Len(ends) \in Nat /\ Len(sent) \in Nat /\ Len(accum) \in Nat
      /\ Passed \in 0 .. Len(sent)
      /\ \A k, m \in 1 .. Len(ends) : k < m => ends[k] < ends[m]
      /\ \A k \in 1 .. Len(ends) :
             /\ ends[k] \in 1 .. Passed /\ sent[ends[k]] = NL
             /\ ends[k] <= LastEnd /\ ends[k] \in Nat /\ ends[k] >= 1 /\ ends[k] <= Len(sent)
      /\ \A p \in 1 .. Passed : sent[p] = NL => \E k \in 1 .. Len(ends) : ends[k] = p
      /\ guarded => Len(ends) = Len(lines) + 1
      /\ ~guarded => Len(ends) = Len(lines)
  BY UpToLast DEF EndsSeen, Typed
<1>2. ASSUME ~guarded
      PROVE  Base \in Nat /\ Base <= Len(sent) /\ LastEnd < Begin
  <2>1. Base \in Nat /\ Base <= Len(sent)
    BY <1>1, <1>2, InStream
  <2>2. Begin = LastEnd + 1 \/ Begin > LastEnd + 1 + MaxAccum
    BY <1>2 DEF Unfinished
  <2>3. Begin \in Int
    BY <2>1 DEF Begin, Typed
  <2> QED
    BY <1>0, <1>1, <2>1, <2>2, <2>3
\* A step that sees no end, but may go through bytes that are not one.
<1>3. ASSUME ends' = ends, lines' = lines, guarded' = guarded,
             Passed' \in 0 .. Len(sent'),
             \A k \in 1 .. Len(ends) : ends[k] <= Passed',
             \A p \in 1 .. Len(sent) : sent'[p] = sent[p],
             \A p \in 1 .. Passed' : p <= Passed \/ sent'[p] # NL
      PROVE  EndsSeen'
  <2>1. ASSUME NEW k \in 1 .. Len(ends) PROVE ends[k] \in 1 .. Passed' /\ sent'[ends[k]] = NL
    BY <1>1, <1>3, <2>1, SMTT(30)
  <2>2. ASSUME NEW p \in 1 .. Passed', sent'[p] = NL PROVE \E k \in 1 .. Len(ends) : ends[k] = p
    <3>1. p \in 1 .. Passed /\ p \in 1 .. Len(sent)
      BY <1>1, <1>3, <2>2
    <3> QED
      BY <1>1, <1>3, <2>2, <3>1
  <2> QED
    BY <1>1, <1>3, <2>1, <2>2 DEF EndsSeen
\* A step that sees the next end p.
<1>4. ASSUME NEW p \in 1 .. Len(sent), ends' = Append(ends, p), sent' = sent, Passed' = p,
             sent[p] = NL, LastEnd < p,
             \A q \in 1 .. p - 1 : q <= Passed \/ sent[q] # NL,
             guarded' => Len(ends') = Len(lines') + 1,
             ~guarded' => Len(ends') = Len(lines')
      PROVE  EndsSeen'
  <2>1. /\ Len(ends') = Len(ends) + 1
        /\ \A k \in 1 .. Len(ends) : ends'[k] = ends[k]
        /\ ends'[Len(ends) + 1] = p
    BY <1>4, LastEndGrows
  <2>2. \A k \in 1 .. Len(ends') : k \in 1 .. Len(ends) \/ k = Len(ends) + 1
    BY <1>1, <2>1
  <2>3. ASSUME NEW k \in 1 .. Len(ends'), NEW m \in 1 .. Len(ends'), k < m
        PROVE  ends'[k] < ends'[m]
    <3>1. k \in 1 .. Len(ends)
      BY <1>1, <2>1, <2>3
    <3>2. CASE m \in 1 .. Len(ends)
      BY <1>1, <2>1, <2>3, <3>1, <3>2
    <3>3. CASE m = Len(ends) + 1
      BY <1>1, <1>4, <2>1, <3>1, <3>3
    <3> QED
      BY <2>2, <3>2, <3>3
  <2>4. ASSUME NEW k \in 1 .. Len(ends') PROVE ends'[k] \in 1 .. p /\ sent[ends'[k]] = NL
    <3>1. CASE k \in 1 .. Len(ends)
      BY <1>1, <1>4, <2>1, <3>1
    <3>2. CASE k = Len(ends) + 1
      BY <1>1, <1>4, <2>1, <3>2
    <3> QED
      BY <2>2, <3>1, <3>2
  <2>5. ASSUME NEW q \in 1 .. p, sent[q] = NL PROVE \E k \in 1 .. Len(ends') : ends'[k] = q
    <3>1. CASE q = p
      <4>1. Len(ends) + 1 \in 1 .. Len(ends')
        BY <1>1, <2>1
      <4> QED
        BY <2>1, <3>1, <4>1
    <3>2. CASE q # p
      <4>1. q \in 1 .. p - 1
        BY <3>2
      <4>2. q \in 1 .. Passed
        BY <1>1, <1>4, <2>5, <4>1
      <4>3. PICK k \in 1 .. Len(ends) : ends[k] = q
        BY <1>1, <2>5, <4>2
      <4>4. k \in 1 .. Len(ends')
        BY <1>1, <2>1
      <4> QED
        BY <2>1, <4>3, <4>4
    <3> QED
      BY <3>1, <3>2
  <2>6. p \in 0 .. Len(sent)
    BY <1>1
  <2> QED
    BY <1>4, <2>3, <2>4, <2>5, <2>6 DEF EndsSeen
<1>5. CASE Read
  <2>1. PICK chunk \in Chunks : sent' = sent \o chunk
    BY <1>5 DEF Read
  <2>2. chunk \in Seq(Nat) /\ Len(chunk) \in Nat
    BY ChunkTyped
  <2>3. /\ Len(sent') = Len(sent) + Len(chunk)
        /\ \A p \in 1 .. Len(sent) : sent'[p] = sent[p]
    <3>1. \A p \in 1 .. Len(sent) + Len(chunk) :
              sent'[p] = IF p <= Len(sent) THEN sent[p] ELSE chunk[p - Len(sent)]
      BY <2>1, <2>2, ConcatProperties DEF Typed
    <3>2. Len(sent') = Len(sent) + Len(chunk)
      BY <2>1, <2>2, ConcatProperties DEF Typed
    <3> QED
      BY <1>1, <2>2, <3>1, <3>2
  <2>4. pc = "read" /\ UNCHANGED <<ends, lines, guarded>>
    BY <1>5 DEF Read
  <2>5. CASE guarded
    <3>1. Passed' = Passed
      BY <2>4, <2>5 DEF Passed
    <3> QED
      BY <1>1, <1>3, <2>2, <2>3, <2>4, <3>1
  <2>6. CASE ~guarded
    <3>1. accum' = accum \o chunk /\ start' = 1 /\ pc' = "lines"
      <4>1. PICK c \in Chunks :
                sent' = sent \o c /\ accum' = accum \o c /\ start' = 1 /\ pc' = "lines"
        BY <1>5, <2>6 DEF Read
      <4>2. c \in Seq(Nat)
        BY ChunkTyped
      <4>3. c = chunk
        BY <2>1, <2>2, <4>1, <4>2, ConcatSimplifications DEF Typed
      <4> QED
        BY <4>1, <4>3
    <3>2. Len(accum') = Len(accum) + Len(chunk)
      BY <2>2, <3>1, ConcatProperties DEF Typed
    <3>3. Passed' = Base
      BY <1>1, <2>2, <2>3, <2>4, <2>6, <3>1, <3>2 DEF Passed, Place, Base
    <3>4. Passed = Len(sent) /\ Begin = Base + 1
      BY <2>4, <2>6 DEF Passed, Begin
    <3> QED
      BY <1>1, <1>2, <1>3, <2>2, <2>3, <2>4, <2>6, <3>3, <3>4
  <2> QED
    BY <2>5, <2>6
<1>6. ASSUME pc = "lines", NEW n \in 1 .. Len(accum), IsNext(n)
      PROVE  /\ ~guarded /\ Place(accum, n) \in 1 .. Len(sent) /\ sent[Place(accum, n)] = NL
             /\ LastEnd < Place(accum, n) /\ Place(accum, n) = Base + n
             /\ \A q \in 1 .. Place(accum, n) - 1 : q <= Passed \/ sent[q] # NL
  <2>0. ~guarded
    BY <1>6 DEF Phase
  <2>1. /\ Place(accum, n) = Base + n /\ Place(accum, n) \in 1 .. Len(sent)
        /\ Begin \in 1 .. Place(accum, n) /\ Begin = Base + start
        /\ sent[Place(accum, n)] = NL
        /\ \A q \in Begin .. Place(accum, n) - 1 : sent[q] # NL
    BY <1>6, <2>0, NextLine
  <2>2. Passed = Begin - 1
    BY <1>1, <1>2, <1>6, <2>0, <2>1 DEF Passed, Place, Base, Typed
  <2>3. LastEnd < Begin
    BY <1>2, <2>0
  <2> QED
    BY <1>1, <2>0, <2>1, <2>2, <2>3
<1>7. CASE TakeLine
  <2>1. PICK n \in 1 .. Len(accum) :
            /\ IsNext(n) /\ start' = NextStart(n) /\ ends' = Append(ends, Place(accum, n))
            /\ lines' = Append(lines, Clean(SubSeq(accum, start, n - 1)))
    BY <1>7 DEF TakeLine
  <2>2. pc = "lines" /\ UNCHANGED <<sent, pc, accum, guarded>>
    BY <1>7 DEF TakeLine
  <2>3. /\ ~guarded /\ Place(accum, n) \in 1 .. Len(sent) /\ sent[Place(accum, n)] = NL
        /\ LastEnd < Place(accum, n) /\ Place(accum, n) = Base + n
        /\ \A q \in 1 .. Place(accum, n) - 1 : q <= Passed \/ sent[q] # NL
    BY <1>6, <2>1, <2>2
  <2>4. Passed' = Place(accum, n)
    BY <1>1, <2>1, <2>2, <2>3 DEF Passed, Place, Base, NextStart
  <2>5. Len(ends') = Len(lines')
    <3>1. /\ lines \in Seq(Seq(Nat)) /\ lines' \in Seq(Seq(Nat)) /\ Len(lines') = Len(lines) + 1
      <4>1. /\ start \in Nat \ {0} /\ n - 1 \in Nat /\ n - 1 <= Len(accum)
        BY <1>1, <2>2, SMTT(30) DEF Typed
      <4>2. Clean(SubSeq(accum, start, n - 1)) \in Seq(Nat)
        BY <4>1, Piece, CleanTyped DEF Typed
      <4> QED
        BY <2>1, <4>2, Appended DEF Typed
    <3>2. Len(ends') = Len(ends) + 1
      BY <2>1, <2>3, LastEndGrows
    <3> QED
      BY <1>1, <2>3, <3>1, <3>2
  <2> QED
    BY <1>4, <2>1, <2>2, <2>3, <2>4, <2>5
<1>8. CASE TakeGuard
  <2>1. PICK n \in 1 .. Len(accum) : IsNext(n) /\ ends' = Append(ends, Place(accum, n))
    BY <1>8 DEF TakeGuard
  <2>2. pc = "lines" /\ guarded' = TRUE /\ UNCHANGED <<sent, lines>>
    BY <1>8 DEF TakeGuard
  <2>3. /\ ~guarded /\ Place(accum, n) \in 1 .. Len(sent) /\ sent[Place(accum, n)] = NL
        /\ LastEnd < Place(accum, n)
        /\ \A q \in 1 .. Place(accum, n) - 1 : q <= Passed \/ sent[q] # NL
    BY <1>6, <2>1, <2>2
  <2>4. Len(ends') = Len(ends) + 1 /\ ends'[Len(ends) + 1] = Place(accum, n)
    BY <2>1, <2>3, LastEndGrows
  <2>5. Passed' = Place(accum, n) /\ Len(ends') = Len(lines') + 1
    BY <1>1, <2>2, <2>3, <2>4 DEF Passed
  <2> QED
    BY <1>4, <2>1, <2>2, <2>3, <2>5
\* A step that looks for no line.
<1>9. ASSUME guarded, UNCHANGED <<sent, ends, lines, guarded>> PROVE EndsSeen'
  BY <1>9 DEF EndsSeen, Passed
<1>10. CASE TakeFrame \/ FramesDone
  BY <1>9, <1>10 DEF TakeFrame, FramesDone, lineVars, Phase
<1>11. CASE Erase
  <2>1. UNCHANGED <<sent, ends, lines, guarded>> /\ pc' = "read"
    BY <1>11 DEF Erase
  <2>2. CASE guarded
    BY <1>9, <2>1, <2>2
  <2>3. CASE ~guarded
    <3>1. pc = "lines" /\ \A n \in start .. Len(accum) : accum[n] # NL
      BY <1>11, <2>3 DEF Erase, Phase
    <3>2. Passed' = Len(sent) /\ Passed = Base + start - 1
      BY <1>1, <1>2, <2>1, <2>3, <3>1 DEF Passed, Place, Base, Typed
    <3>3. ASSUME NEW p \in 1 .. Len(sent), ~(p <= Passed) PROVE sent[p] # NL
      <4>1. /\ Len(accum) = Len(sent) - Base /\ start \in 1 .. Len(accum) + 1
            /\ \A n \in 1 .. Len(accum) : accum[n] = sent[Base + n]
        BY <2>3, <3>1, InStream DEF Typed
      <4>2. /\ p - Base \in start .. Len(accum) /\ p - Base \in 1 .. Len(accum)
            /\ Base + (p - Base) = p
        BY <1>1, <1>2, <2>3, <3>2, <3>3, <4>1, SMTT(30)
      <4> QED
        BY <3>1, <4>1, <4>2
    <3> QED
      BY <1>1, <1>3, <2>1, <3>2, <3>3
  <2> QED
    BY <2>2, <2>3
<1>12. CASE UNCHANGED vars
  BY <1>12 DEF vars, lineVars, EndsSeen, Passed, Place
<1> QED
  BY <1>5, <1>7, <1>8, <1>10, <1>11, <1>12 DEF Next

\* A line that has arrived is not changed by what comes later.
LEMMA ArrivedStays ==
    ASSUME Typed, EndsSeen, NEW k \in 1 .. Len(ends), Arrived(k),
           NEW c \in Seq(Nat), sent' = sent \o c,
           \A m \in 1 .. Len(ends) : ends'[m] = ends[m],
           k <= Len(lines') <=> k <= Len(lines),
           k <= Len(lines) => lines'[k] = lines[k]
    PROVE  Arrived(k)'
<1>1. PICK b \in 1 .. Len(sent) :
          /\ Kept(k, b)
          /\ k <= Len(lines) => lines[k] = LineFrom(k, b) /\ ~EndsWithGuard(lines[k])
          /\ ~(k <= Len(lines)) => EndsWithGuard(LineFrom(k, b))
  BY DEF Arrived
<1>2. /\ Len(sent) \in Nat /\ ends[k] \in Nat /\ ends[k] >= 1 /\ ends[k] <= Len(sent)
      /\ Len(ends) \in Nat
  BY UpToLast
<1>3. ends'[k] = ends[k] /\ LineStart(k)' = LineStart(k)
  <2>1. CASE k = 1
    BY <2>1 DEF LineStart
  <2>2. CASE k # 1
    <3>1. k - 1 \in 1 .. Len(ends)
      BY <1>2, <2>2
    <3> QED
      BY <2>2, <3>1 DEF LineStart
  <2> QED
    BY <2>1, <2>2
<1>4. Kept(k, b)'
  BY <1>1, <1>3 DEF Kept, Short
<1>5. LineFrom(k, b)' = LineFrom(k, b)
  <2>1. ends[k] - 1 \in Nat /\ ends[k] - 1 <= Len(sent) /\ b \in Nat \ {0}
    BY <1>2
  <2>2. SubSeq(sent \o c, b, ends[k] - 1) = SubSeq(sent, b, ends[k] - 1)
    BY <2>1, PieceStays, ZenonT(60) DEF Typed
  <2> QED
    BY <1>3, <2>2 DEF LineFrom
<1>6. b \in 1 .. Len(sent')
  <2>1. Len(sent') = Len(sent) + Len(c) /\ Len(c) \in Nat
    BY ConcatProperties DEF Typed
  <2> QED
    BY <1>2, <2>1
<1>7. k <= Len(lines') => lines'[k] = LineFrom(k, b)' /\ ~EndsWithGuard(lines'[k])
  BY <1>1, <1>5
<1> QED
  BY <1>1, <1>4, <1>5, <1>6, <1>7 DEF Arrived

\* A line that is taken is what the stream has of it, from the place on where accum
\* has it.
LEMMA NextArrived ==
    ASSUME Typed, Unfinished, EndsSeen, ~guarded, pc = "lines",
           NEW n \in 1 .. Len(accum), IsNext(n),
           ends' = Append(ends, Place(accum, n)), sent' = sent,
           NEW b, b = Begin, NEW k, k = Len(ends) + 1
    PROVE  /\ b \in 1 .. Len(sent)
           /\ Kept(k, b)'
           /\ Clean(SubSeq(accum, start, n - 1)) = LineFrom(k, b)'
<1> DEFINE p == Place(accum, n)
<1>1. /\ p \in 1 .. Len(sent) /\ b \in 1 .. p
      /\ SubSeq(accum, start, n - 1) = SubSeq(sent, b, p - 1)
  BY NextLine
<1>2. /\ LastEnd \in Nat /\ Len(ends) \in Nat /\ Len(sent) \in Nat /\ MaxAccum \in Nat
  BY UpToLast, StreamAssumption
<1>3. b = LastEnd + 1 \/ b > LastEnd + 1 + MaxAccum
  BY DEF Unfinished
<1> HIDE DEF p
<1>4. ends'[k] = p /\ \A m \in 1 .. Len(ends) : ends'[m] = ends[m]
  BY <1>1, LastEndGrows DEF p
<1>5. LineStart(k)' = LastEnd + 1
  <2>1. CASE Len(ends) = 0
    BY <2>1 DEF LineStart, LastEnd
  <2>2. CASE Len(ends) # 0
    <3>1. k # 1 /\ k - 1 = Len(ends) /\ Len(ends) \in 1 .. Len(ends)
      BY <1>2, <2>2
    <3> QED
      BY <1>4, <2>2, <3>1 DEF LineStart, LastEnd
  <2> QED
    BY <2>1, <2>2
<1>6. b \in LastEnd + 1 .. p /\ (p - (LastEnd + 1) <= MaxAccum => b = LastEnd + 1)
  BY <1>1, <1>2, <1>3
<1>7. Kept(k, b)'
  BY <1>4, <1>5, <1>6 DEF Kept, Short
<1>8. LineFrom(k, b)' = Clean(SubSeq(sent, b, p - 1))
  BY <1>4 DEF LineFrom
<1>9. b \in 1 .. Len(sent)
  BY <1>1, <1>2
<1> QED
  BY <1>1, <1>7, <1>8, <1>9

\* Every step keeps the lines that have arrived, and one that takes a line takes what
\* the stream has of it.
LEMMA StepArrived == LineInv /\ EndsSeen' /\ Typed' /\ [Next]_vars => AllArrived'
<1> SUFFICES ASSUME LineInv, EndsSeen', Typed', [Next]_vars PROVE AllArrived'
  OBVIOUS
<1> USE DEF LineInv
<1>0. Len(ends) \in Nat /\ Len(lines) \in Nat
  BY DEF Typed
\* Steps that take no line.
<1>1. ASSUME NEW c \in Seq(Nat), sent' = sent \o c, ends' = ends, lines' = lines
      PROVE  AllArrived'
  <2>1. ASSUME NEW k \in 1 .. Len(ends) PROVE Arrived(k)'
    <3>1. Arrived(k)
      BY DEF AllArrived
    <3> QED
      BY <1>1, <3>1, ArrivedStays
  <2> QED
    BY <1>1, <2>1 DEF AllArrived
<1>2. ASSUME sent' = sent, ends' = ends, lines' = lines PROVE AllArrived'
  <2>1. sent' = sent \o <<>> /\ <<>> \in Seq(Nat)
    BY <1>2 DEF Typed
  <2> QED
    BY <1>1, <1>2, <2>1
<1>3. CASE Read
  <2>1. PICK chunk \in Chunks : sent' = sent \o chunk
    BY <1>3 DEF Read
  <2>2. chunk \in Seq(Nat) /\ UNCHANGED <<ends, lines>>
    BY <1>3, ChunkTyped DEF Read
  <2> QED
    BY <1>1, <2>1, <2>2
\* Steps that take one.
<1>4. ASSUME pc = "lines", NEW n \in 1 .. Len(accum), IsNext(n), sent' = sent,
             ends' = Append(ends, Place(accum, n)),
             \A k \in 1 .. Len(ends) : k <= Len(lines') /\ lines'[k] = lines[k],
             LET k == Len(ends) + 1
                 line == Clean(SubSeq(accum, start, n - 1))
             IN  IF k <= Len(lines')
                 THEN lines'[k] = line /\ ~EndsWithGuard(line)
                 ELSE EndsWithGuard(line)
      PROVE  AllArrived'
  <2> DEFINE line == Clean(SubSeq(accum, start, n - 1))
  <2>0. ~guarded /\ Len(ends) = Len(lines)
    BY <1>4 DEF Phase, EndsSeen
  <2>1. Len(ends') = Len(ends) + 1 /\ \A m \in 1 .. Len(ends) : ends'[m] = ends[m]
    BY <1>4, <2>0, NextLine, LastEndGrows
  <2>2. ASSUME NEW k \in 1 .. Len(ends) PROVE Arrived(k)'
    <3>1. Arrived(k) /\ k <= Len(lines) /\ k <= Len(lines') /\ lines'[k] = lines[k]
      BY <1>0, <1>4, <2>0 DEF AllArrived
    <3>2. sent' = sent \o <<>> /\ <<>> \in Seq(Nat)
      BY <1>4 DEF Typed
    <3> QED
      BY <2>1, <3>1, <3>2, ArrivedStays
  <2>3. ASSUME NEW k, k = Len(ends) + 1 PROVE Arrived(k)'
    <3>1. PICK b : b = Begin
      OBVIOUS
    <3>2. b \in 1 .. Len(sent) /\ Kept(k, b)' /\ line = LineFrom(k, b)'
      BY <1>4, <2>0, <2>3, <3>1, NextArrived
    <3>3. CASE k <= Len(lines')
      <4>1. lines'[k] = line /\ ~EndsWithGuard(line)
        BY <1>4, <2>3, <3>3
      <4> QED
        BY <1>4, <3>2, <3>3, <4>1 DEF Arrived
    <3>4. CASE ~(k <= Len(lines'))
      <4>1. EndsWithGuard(line)
        BY <1>4, <2>3, <3>4
      <4> QED
        BY <1>4, <3>2, <3>4, <4>1 DEF Arrived
    <3> QED
      BY <3>3, <3>4
  <2>4. \A k \in 1 .. Len(ends') : k \in 1 .. Len(ends) \/ k = Len(ends) + 1
    BY <1>0, <2>1
  <2> QED
    BY <2>2, <2>3, <2>4 DEF AllArrived
<1>5. CASE TakeLine
  <2>1. PICK n \in 1 .. Len(accum) :
            /\ IsNext(n) /\ ends' = Append(ends, Place(accum, n))
            /\ ~EndsWithGuard(Clean(SubSeq(accum, start, n - 1)))
            /\ lines' = Append(lines, Clean(SubSeq(accum, start, n - 1)))
    BY <1>5 DEF TakeLine
  <2>2. pc = "lines" /\ sent' = sent /\ ~guarded /\ Len(ends) = Len(lines)
    BY <1>5 DEF TakeLine, Phase, EndsSeen
  <2>3. Clean(SubSeq(accum, start, n - 1)) \in Seq(Nat)
    <3>1. start \in Nat \ {0} /\ n - 1 \in Nat /\ n - 1 <= Len(accum)
      BY <2>2, SMTT(30) DEF Typed
    <3> QED
      BY <3>1, Piece, CleanTyped DEF Typed
  <2>4. /\ Len(lines') = Len(lines) + 1
        /\ \A k \in 1 .. Len(lines) : lines'[k] = lines[k]
        /\ lines'[Len(lines) + 1] = Clean(SubSeq(accum, start, n - 1))
    BY <2>1, <2>3, Appended DEF Typed
  <2>5. /\ \A k \in 1 .. Len(ends) : k <= Len(lines') /\ lines'[k] = lines[k]
        /\ Len(ends) + 1 <= Len(lines') /\ Len(ends) + 1 = Len(lines) + 1
    BY <1>0, <2>2, <2>4
  <2> QED
    BY <1>4, <2>1, <2>2, <2>4, <2>5
<1>6. CASE TakeGuard
  <2>1. PICK n \in 1 .. Len(accum) :
            /\ IsNext(n) /\ ends' = Append(ends, Place(accum, n))
            /\ EndsWithGuard(Clean(SubSeq(accum, start, n - 1)))
    BY <1>6 DEF TakeGuard
  <2>2. pc = "lines" /\ sent' = sent /\ lines' = lines /\ ~guarded /\ Len(ends) = Len(lines)
    BY <1>6 DEF TakeGuard, Phase, EndsSeen
  <2>3. /\ \A k \in 1 .. Len(ends) : k <= Len(lines')
        /\ ~(Len(ends) + 1 <= Len(lines'))
    BY <1>0, <2>2
  <2> QED
    BY <1>4, <2>1, <2>2, <2>3
<1>7. CASE TakeFrame \/ FramesDone
  BY <1>2, <1>7 DEF TakeFrame, FramesDone, lineVars
<1>8. CASE Erase
  BY <1>2, <1>8 DEF Erase
<1>9. CASE UNCHANGED vars
  BY <1>2, <1>9 DEF vars, lineVars
<1> QED
  BY <1>3, <1>5, <1>6, <1>7, <1>8, <1>9 DEF Next

\* What holds before anything was read.
LEMMA LineInit == Init => LineInv
<1> SUFFICES ASSUME Init PROVE LineInv
  OBVIOUS
<1> USE DEF Init
<1>1. Typed
  BY DEF Typed
<1>2. Phase
  BY DEF Phase
<1>3. Unfinished
  <2>1. From(sent, 1) = <<>>
    BY DEF From
  <2> QED
    BY <2>1 DEF Unfinished, Base, Begin, LastEnd
<1>4. EndsSeen
  BY DEF EndsSeen, Passed
<1>5. AllArrived
  BY DEF AllArrived
<1> QED
  BY <1>1, <1>2, <1>3, <1>4, <1>5 DEF LineInv

\* Every step keeps it.
LEMMA LineStep == LineInv /\ [Next]_vars => LineInv'
<1> SUFFICES ASSUME LineInv, [Next]_vars PROVE LineInv'
  OBVIOUS
<1>1. Typed'
  BY StepTyped DEF LineInv
<1>2. Phase'
  BY StepPhase DEF LineInv
<1>3. Unfinished'
  BY StepUnfinished DEF LineInv
<1>4. EndsSeen'
  BY StepEndsSeen DEF LineInv
<1>5. AllArrived'
  BY <1>1, <1>4, StepArrived
<1> QED
  BY <1>1, <1>2, <1>3, <1>4, <1>5 DEF LineInv

\* LineInv is an invariant.
LEMMA LineInvariant == Spec => []LineInv
BY LineInit, LineStep, PTL DEF Spec

\* However read() cuts the stream, every line that has ended arrives once, in order,
\* whole if it is no longer than MAX_ACCUM, and none arrives that is not in it.
THEOREM LinesArriveHolds == Spec => []LinesArrive
<1>1. LineInv => LinesArrive
  <2> SUFFICES ASSUME LineInv PROVE LinesArrive
    OBVIOUS
  <2> USE DEF LineInv
  <2>0. Len(ends) \in Nat /\ Len(lines) \in Nat /\ DOMAIN ends = 1 .. Len(ends)
        /\ DOMAIN lines = 1 .. Len(lines)
    BY DEF Typed
  <2>1. \A k, m \in DOMAIN ends : k < m => ends[k] < ends[m]
    BY <2>0 DEF EndsSeen
  <2>2. {ends[k] : k \in DOMAIN ends} = {p \in DOMAIN sent : p <= Passed /\ sent[p] = NL}
    <3>1. \A k \in 1 .. Len(ends) : ends[k] \in 1 .. Passed /\ sent[ends[k]] = NL
      BY DEF EndsSeen
    <3>2. \A p \in 1 .. Passed : sent[p] = NL => \E k \in 1 .. Len(ends) : ends[k] = p
      BY DEF EndsSeen
    <3>3. ASSUME NEW p
          PROVE  p \in 1 .. Passed <=> p \in DOMAIN sent /\ p <= Passed
      <4>1. Passed \in 0 .. Len(sent) /\ Len(sent) \in Nat /\ DOMAIN sent = 1 .. Len(sent)
        BY DEF EndsSeen, Typed
      <4> QED
        BY <4>1
    <3>4. ASSUME NEW p \in {ends[k] : k \in DOMAIN ends}
          PROVE  p \in {q \in DOMAIN sent : q <= Passed /\ sent[q] = NL}
      BY <2>0, <3>1, <3>3, <3>4
    <3>5. ASSUME NEW p \in {q \in DOMAIN sent : q <= Passed /\ sent[q] = NL}
          PROVE  p \in {ends[k] : k \in DOMAIN ends}
      BY <2>0, <3>2, <3>3, <3>5
    <3> QED
      BY <3>4, <3>5
  <2>3. Len(ends) = Len(lines) + (IF guarded THEN 1 ELSE 0)
    <3>1. CASE guarded
      BY <2>0, <3>1 DEF EndsSeen
    <3>2. CASE guarded = FALSE
      <4>1. Len(ends) = Len(lines)
        BY <3>2 DEF EndsSeen
      <4>2. (IF guarded THEN 1 ELSE 0) = 0
        BY <3>2
      <4>3. Len(ends) = Len(lines) + 0
        BY <2>0, <4>1
      <4> QED
        BY <4>2, <4>3
    <3> QED
      BY <3>1, <3>2 DEF Phase
  <2>4. ASSUME NEW k \in DOMAIN ends
        PROVE  \E b \in 1 .. Len(sent) :
                   /\ Kept(k, b)
                   /\ IF k \in DOMAIN lines
                      THEN lines[k] = LineFrom(k, b) /\ ~EndsWithGuard(lines[k])
                      ELSE EndsWithGuard(LineFrom(k, b))
    <3>1. PICK b \in 1 .. Len(sent) :
              /\ Kept(k, b)
              /\ k <= Len(lines) => lines[k] = LineFrom(k, b) /\ ~EndsWithGuard(lines[k])
              /\ ~(k <= Len(lines)) => EndsWithGuard(LineFrom(k, b))
      BY <2>0 DEF AllArrived, Arrived
    <3>2. k \in DOMAIN lines <=> k <= Len(lines)
      BY <2>0
    <3> QED
      BY <3>1, <3>2
  <2> QED
    BY <2>1, <2>2, <2>3, <2>4 DEF LinesArrive
<1> QED
  BY <1>1, LineInvariant, PTL

-----------------------------------------------------------------------------
(* Frames.                                                                 *)

\* Frame k is what the stream has from the place on where the one before it ends.
FrameArrived(k) ==
    /\ heads[k] = FrameStart(k)
    /\ heads[k] \in 1 .. Len(sent)
    /\ heads[k] + sent[heads[k]] <= Len(sent)
    /\ Len(frames[k]) = sent[heads[k]]
    /\ frames[k] = SubSeq(sent, heads[k] + 1, heads[k] + sent[heads[k]])

\* From the guard line on the buffer is what is left of the stream, and it begins where
\* the last frame ended.
NextFrame == FrameStart(Len(frames) + 1)
FrameInv ==
    /\ guarded =>
        /\ Len(ends) >= 1 /\ Len(heads) = Len(frames)
        /\ \A k \in 1 .. Len(frames) : FrameArrived(k)
        /\ NextFrame \in 1 .. Len(sent) + 1
        /\ buffer = From(sent, NextFrame)
        /\ pc = "read" => ~Complete
    /\ ~guarded => frames = <<>> /\ heads = <<>> /\ buffer = <<>>

\* The frames that have arrived are not changed by what comes later.
LEMMA FramesStay ==
    ASSUME Typed, Len(heads) = Len(frames), Len(ends) >= 1,
           \A k \in 1 .. Len(frames) : FrameArrived(k),
           NEW c \in Seq(Nat), sent' = sent \o c, ends' = ends,
           \A k \in 1 .. Len(frames) : heads'[k] = heads[k] /\ frames'[k] = frames[k]
    PROVE  /\ \A k \in 1 .. Len(frames) : FrameArrived(k)'
           /\ \A k \in 1 .. Len(frames) + 1 : FrameStart(k)' = FrameStart(k)
<1>1. /\ Len(sent) \in Nat /\ Len(c) \in Nat /\ Len(sent') = Len(sent) + Len(c)
      /\ Len(frames) \in Nat
      /\ \A p \in 1 .. Len(sent) : sent'[p] = sent[p] /\ sent[p] \in Nat
  <2>1. /\ Len(sent) \in Nat /\ Len(c) \in Nat /\ Len(sent \o c) = Len(sent) + Len(c)
        /\ \A p \in 1 .. Len(sent) : sent[p] \in Nat
    BY ConcatProperties, SMTT(30) DEF Typed
  <2>2. \A p \in 1 .. Len(sent) + Len(c) :
            (sent \o c)[p] = IF p <= Len(sent) THEN sent[p] ELSE c[p - Len(sent)]
    BY ConcatProperties DEF Typed
  <2>3. ASSUME NEW p \in 1 .. Len(sent) PROVE (sent \o c)[p] = sent[p]
    BY <2>1, <2>2
  <2>4. Len(frames) \in Nat
    BY DEF Typed
  <2> QED
    BY <2>1, <2>3, <2>4
<1>2. ASSUME NEW k \in 1 .. Len(frames)
      PROVE  /\ heads'[k] = heads[k] /\ frames'[k] = frames[k]
             /\ heads[k] \in 1 .. Len(sent) /\ sent'[heads[k]] = sent[heads[k]]
  BY <1>1 DEF FrameArrived
<1>3. ASSUME NEW k \in 1 .. Len(frames) + 1 PROVE FrameStart(k)' = FrameStart(k)
  <2>1. CASE k = 1
    BY <2>1 DEF FrameStart
  <2>2. CASE k # 1
    <3>1. k - 1 \in 1 .. Len(frames)
      BY <1>1, <2>2
    <3> QED
      BY <1>2, <2>2, <3>1 DEF FrameStart
  <2> QED
    BY <2>1, <2>2
<1>4. ASSUME NEW k \in 1 .. Len(frames) PROVE FrameArrived(k)'
  <2>1. /\ heads[k] = FrameStart(k) /\ heads[k] \in 1 .. Len(sent)
        /\ heads[k] + sent[heads[k]] <= Len(sent)
        /\ Len(frames[k]) = sent[heads[k]]
        /\ frames[k] = SubSeq(sent, heads[k] + 1, heads[k] + sent[heads[k]])
    BY DEF FrameArrived
  <2>2. /\ heads'[k] = heads[k] /\ frames'[k] = frames[k]
        /\ sent'[heads[k]] = sent[heads[k]]
    BY <1>2
  <2>3. k \in 1 .. Len(frames) + 1
    BY <1>1
  <2>4. heads'[k] = FrameStart(k)'
    BY <1>3, <2>1, <2>2, <2>3
  <2>5. /\ heads[k] + 1 \in Nat \ {0} /\ sent[heads[k]] \in Nat
        /\ heads[k] + sent[heads[k]] \in Nat /\ heads[k] \in 1 .. Len(sent')
        /\ heads[k] + sent[heads[k]] <= Len(sent')
    <3>1. PICK h, v : h = heads[k] /\ v = sent[heads[k]]
      OBVIOUS
    <3>2. h \in 1 .. Len(sent) /\ v \in Nat /\ h + v <= Len(sent)
      BY <1>1, <2>1, <3>1
    <3>3. /\ h + 1 \in Nat \ {0} /\ h + v \in Nat /\ h \in 1 .. Len(sent')
          /\ h + v <= Len(sent')
      BY <1>1, <3>2
    <3> QED
      BY <3>1, <3>2, <3>3
  <2>6. SubSeq(sent', heads[k] + 1, heads[k] + sent[heads[k]])
            = SubSeq(sent, heads[k] + 1, heads[k] + sent[heads[k]])
    BY <2>1, <2>5, PieceStays, ZenonT(60) DEF Typed
  <2> QED
    BY <2>1, <2>2, <2>4, <2>5, <2>6 DEF FrameArrived
<1> QED
  BY <1>3, <1>4

\* A frame that is complete is in what is left of the stream.
LEMMA NextFrameArrived ==
    ASSUME Typed, FrameInv, guarded, Complete, NEW f, f = NextFrame
    PROVE  /\ Place(buffer, 1) = f /\ f \in 1 .. Len(sent) /\ buffer[1] = sent[f]
           /\ sent[f] \in Nat /\ f + sent[f] <= Len(sent)
           /\ SubSeq(buffer, 2, buffer[1] + 1) = SubSeq(sent, f + 1, f + sent[f])
           /\ Len(SubSeq(buffer, 2, buffer[1] + 1)) = sent[f]
           /\ From(buffer, buffer[1] + 2) = From(sent, f + sent[f] + 1)
<1>1. f \in 1 .. Len(sent) + 1 /\ buffer = From(sent, f)
  BY DEF FrameInv
<1>2. /\ Len(buffer) = Len(sent) - f + 1 /\ Len(sent) \in Nat
      /\ \A n \in 1 .. Len(sent) - f + 1 : buffer[n] = sent[f + n - 1]
  BY <1>1, Rest, LenProperties DEF Typed
<1>3. buffer # <<>> /\ buffer[1] + 1 <= Len(buffer)
  BY DEF Complete
<1>4. Len(buffer) \in Nat /\ Len(buffer) # 0
  BY <1>3, EmptySeq DEF Typed
<1>5. f \in 1 .. Len(sent) /\ 1 \in 1 .. Len(sent) - f + 1 /\ f + 1 - 1 = f
  BY <1>1, <1>2, <1>4
<1>6. buffer[1] = sent[f] /\ sent[f] \in Nat
  BY <1>2, <1>5, SMTT(30) DEF Typed
<1>7. f + sent[f] <= Len(sent) /\ Place(buffer, 1) = f
  BY <1>2, <1>3, <1>5, <1>6 DEF Place
<1>8. SubSeq(buffer, 2, buffer[1] + 1) = SubSeq(sent, f + 1, f + sent[f])
  <2>1. /\ 2 \in Nat \ {0} /\ sent[f] + 1 \in Nat /\ sent[f] + 1 <= Len(sent) - f + 1
        /\ f + 2 - 1 = f + 1 /\ f + (sent[f] + 1) - 1 = f + sent[f]
    BY <1>2, <1>5, <1>6, <1>7
  <2>2. SubSeq(From(sent, f), 2, sent[f] + 1) = SubSeq(sent, f + 2 - 1, f + (sent[f] + 1) - 1)
    BY <1>1, <2>1, PieceOfRest, ZenonT(60) DEF Typed
  <2> QED
    BY <1>1, <1>6, <2>1, <2>2
<1>9. Len(SubSeq(sent, f + 1, f + sent[f])) = sent[f]
  <2>1. f + 1 \in Nat \ {0} /\ f + sent[f] \in Nat
    BY <1>5, <1>6
  <2>2. Len(SubSeq(sent, f + 1, f + sent[f]))
            = IF f + 1 <= f + sent[f] THEN (f + sent[f]) - (f + 1) + 1 ELSE 0
    BY <1>7, <2>1, Piece DEF Typed
  <2> QED
    BY <1>5, <1>6, <2>2
<1>10. From(buffer, buffer[1] + 2) = From(sent, f + sent[f] + 1)
  <2>1. /\ sent[f] + 2 \in 1 .. Len(sent) - f + 2
        /\ f + (sent[f] + 2) - 1 = f + sent[f] + 1
    BY <1>2, <1>5, <1>6, <1>7
  <2>2. From(From(sent, f), sent[f] + 2) = From(sent, f + (sent[f] + 2) - 1)
    BY <1>1, <2>1, RestOfRest DEF Typed
  <2> QED
    BY <1>1, <1>6, <2>1, <2>2
<1> QED
  BY <1>5, <1>6, <1>7, <1>8, <1>9, <1>10

\* Every step keeps the frames that have arrived, and one that takes a frame takes what
\* the stream has next.
LEMMA StepFrames == LineInv /\ FrameInv /\ Typed' /\ [Next]_vars => FrameInv'
<1> SUFFICES ASSUME LineInv, FrameInv, Typed', [Next]_vars PROVE FrameInv'
  OBVIOUS
<1>0. /\ Typed /\ Phase /\ Unfinished /\ EndsSeen
      /\ Len(ends) \in Nat /\ Len(frames) \in Nat /\ Len(heads) \in Nat /\ Len(sent) \in Nat
  BY DEF LineInv, Typed
<1>1. ASSUME guarded
      PROVE  /\ Len(ends) >= 1 /\ Len(heads) = Len(frames)
             /\ \A k \in 1 .. Len(frames) : FrameArrived(k)
             /\ NextFrame \in 1 .. Len(sent) + 1
             /\ buffer = From(sent, NextFrame)
             /\ pc = "read" => ~Complete
  BY <1>1 DEF FrameInv
<1>2. ASSUME ~guarded PROVE frames = <<>> /\ heads = <<>> /\ buffer = <<>>
  BY <1>2 DEF FrameInv
\* Steps that cut no frame.
<1>3. ASSUME guarded, guarded', NEW c \in Seq(Nat), sent' = sent \o c, buffer' = buffer \o c,
             ends' = ends, heads' = heads, frames' = frames,
             pc' = "read" => ~(Complete')
      PROVE  FrameInv'
  <2>1. /\ \A k \in 1 .. Len(frames) : FrameArrived(k)'
        /\ \A k \in 1 .. Len(frames) + 1 : FrameStart(k)' = FrameStart(k)
    BY <1>0, <1>1, <1>3, FramesStay
  <2>2. NextFrame' = NextFrame
    <3>1. PICK k : k = Len(frames) + 1
      OBVIOUS
    <3>2. k \in 1 .. Len(frames) + 1
      BY <1>0, <3>1
    <3>3. FrameStart(k)' = FrameStart(k)
      BY <2>1, <3>2
    <3>4. Len(frames') + 1 = k
      BY <1>3, <3>1
    <3> QED
      BY <3>1, <3>3, <3>4 DEF NextFrame, FrameStart
  <2>3. buffer' = From(sent', NextFrame)
    <3>1. PICK m : m = NextFrame
      OBVIOUS
    <3>2. m \in 1 .. Len(sent) + 1 /\ sent \in Seq(Nat) /\ buffer = From(sent, m)
      BY <1>0, <1>1, <1>3, <3>1 DEF Typed
    <3>3. From(sent, m) \o c = From(sent \o c, m)
      BY <1>3, <3>2, RestGrows
    <3> QED
      BY <1>3, <3>1, <3>2, <3>3
  <2>4. NextFrame \in 1 .. Len(sent') + 1
    <3>1. Len(sent') = Len(sent) + Len(c) /\ Len(c) \in Nat
      BY <1>0, <1>3, ConcatProperties DEF Typed
    <3> QED
      BY <1>0, <1>1, <1>3, <3>1
  <2> QED
    BY <1>1, <1>3, <2>1, <2>2, <2>3, <2>4 DEF FrameInv
<1>4. ASSUME guarded' = guarded, sent' = sent, buffer' = buffer,
             ends' = ends, heads' = heads, frames' = frames,
             guarded => (pc' = "read" => ~Complete)
      PROVE  FrameInv'
  <2>1. CASE guarded
    <3>1. sent \o <<>> = sent /\ buffer \o <<>> = buffer /\ <<>> \in Seq(Nat)
      BY <1>0 DEF Typed
    <3>2. pc' = "read" => ~(Complete')
      BY <1>4, <2>1 DEF Complete
    <3> QED
      BY <1>3, <1>4, <2>1, <3>1, <3>2
  <2>2. CASE ~guarded
    BY <1>2, <1>4, <2>2 DEF FrameInv
  <2> QED
    BY <2>1, <2>2
<1>5. CASE Read
  <2>1. CASE guarded
    <3>1. PICK chunk \in Chunks :
              sent' = sent \o chunk /\ buffer' = buffer \o chunk /\ pc' = "frames"
      BY <1>5, <2>1 DEF Read
    <3>2. UNCHANGED <<ends, heads, frames, guarded>> /\ chunk \in Seq(Nat)
      BY <1>5, ChunkTyped DEF Read
    <3> QED
      BY <1>3, <2>1, <3>1, <3>2
  <2>2. CASE ~guarded
    <3>1. UNCHANGED <<buffer, heads, frames, guarded>>
      BY <1>5, <2>2 DEF Read
    <3> QED
      BY <1>2, <2>2, <3>1 DEF FrameInv
  <2> QED
    BY <2>1, <2>2
<1>6. CASE TakeLine
  <2>1. ~guarded /\ UNCHANGED <<buffer, heads, frames, guarded>>
    BY <1>0, <1>6 DEF Phase, TakeLine, frameVars
  <2> QED
    BY <1>2, <2>1 DEF FrameInv
<1>7. CASE TakeGuard
  <2>1. PICK n \in 1 .. Len(accum) :
            /\ IsNext(n) /\ ends' = Append(ends, Place(accum, n))
            /\ buffer' = buffer \o From(accum, n + 1)
    BY <1>7 DEF TakeGuard
  <2>2. /\ pc = "lines" /\ ~guarded /\ guarded' /\ pc' = "frames"
        /\ UNCHANGED <<sent, heads, frames>>
    BY <1>0, <1>7 DEF Phase, TakeGuard
  <2> DEFINE p == Place(accum, n)
  <2>3. p \in 1 .. Len(sent) /\ From(accum, n + 1) = From(sent, p + 1)
    BY <1>0, <2>1, <2>2, NextLine
  <2> HIDE DEF p
  <2>4. LastEnd' = p /\ Len(ends') = Len(ends) + 1 /\ ends'[Len(ends')] = p
    BY <1>0, <2>1, <2>3, LastEndGrows DEF p
  <2>5. p + 1 \in 1 .. Len(sent) + 1 /\ Len(ends') >= 1
    BY <1>0, <2>3, <2>4
  <2>6. buffer' = From(sent, p + 1)
    <3>1. From(sent, p + 1) \in Seq(Nat)
      BY <1>0, <2>5, Rest DEF Typed
    <3> QED
      BY <1>2, <2>1, <2>2, <2>3, <3>1, ConcatSimplifications
  <2>7. frames' = <<>> /\ heads' = <<>> /\ Len(frames') = 0 /\ Len(heads') = 0
    BY <1>2, <2>2
  <2>8. NextFrame' = p + 1
    BY <2>4, <2>7 DEF NextFrame, FrameStart
  <2>9. \A k \in 1 .. Len(frames') : FrameArrived(k)'
    BY <2>7
  <2> QED
    BY <2>2, <2>5, <2>6, <2>7, <2>8, <2>9 DEF FrameInv
<1>8. CASE TakeFrame
  <2>1. /\ guarded /\ pc' = "frames" /\ Complete
        /\ frames' = Append(frames, SubSeq(buffer, 2, buffer[1] + 1))
        /\ buffer' = From(buffer, buffer[1] + 2)
        /\ heads' = Append(heads, Place(buffer, 1))
        /\ UNCHANGED <<sent, guarded, ends>>
    BY <1>0, <1>8 DEF Phase, TakeFrame, lineVars
  <2>2. PICK f : f = NextFrame
    OBVIOUS
  <2>3. PICK k : k = Len(frames) + 1
    OBVIOUS
  <2>4. /\ Place(buffer, 1) = f /\ f \in 1 .. Len(sent) /\ buffer[1] = sent[f]
        /\ sent[f] \in Nat /\ f + sent[f] <= Len(sent)
        /\ SubSeq(buffer, 2, buffer[1] + 1) = SubSeq(sent, f + 1, f + sent[f])
        /\ Len(SubSeq(buffer, 2, buffer[1] + 1)) = sent[f]
        /\ From(buffer, buffer[1] + 2) = From(sent, f + sent[f] + 1)
    BY <1>0, <2>1, <2>2, NextFrameArrived
  <2>5. /\ Len(heads') = k /\ heads'[k] = f
        /\ \A m \in 1 .. Len(frames) : heads'[m] = heads[m]
    <3>1. f \in Int /\ Len(heads) = Len(frames)
      BY <1>1, <2>1, <2>4
    <3>2. heads \in Seq(Int) /\ heads' = Append(heads, f)
      BY <1>0, <2>1, <2>4 DEF Typed
    <3>3. /\ Len(heads') = Len(heads) + 1 /\ heads'[Len(heads) + 1] = f
          /\ \A m \in 1 .. Len(heads) : heads'[m] = heads[m]
      BY <3>1, <3>2, Appended
    <3> QED
      BY <2>3, <3>1, <3>3
  <2>6. /\ Len(frames') = k /\ frames'[k] = SubSeq(buffer, 2, buffer[1] + 1)
        /\ \A m \in 1 .. Len(frames) : frames'[m] = frames[m]
    <3>1. SubSeq(buffer, 2, buffer[1] + 1) \in Seq(Nat)
      <4>1. PICK v : v = sent[f]
        OBVIOUS
      <4>2. f \in Nat \ {0} /\ v \in Nat /\ f + v <= Len(sent)
        BY <2>4, <4>1
      <4>4. f + 1 \in Nat \ {0} /\ f + v \in Nat
        BY <4>2
      <4>3. SubSeq(sent, f + 1, f + v) \in Seq(Nat)
        BY <1>0, <4>2, <4>4, Piece DEF Typed
      <4> QED
        BY <2>4, <4>1, <4>3
    <3>2. frames \in Seq(Seq(Nat))
      BY <1>0 DEF Typed
    <3>3. PICK g : g = SubSeq(buffer, 2, buffer[1] + 1)
      OBVIOUS
    <3>4. frames' = Append(frames, g) /\ g \in Seq(Nat)
      BY <2>1, <3>1, <3>3
    <3>5. /\ Len(frames') = Len(frames) + 1 /\ frames'[Len(frames) + 1] = g
          /\ \A m \in 1 .. Len(frames) : frames'[m] = frames[m]
      BY <3>2, <3>4, Appended
    <3> QED
      BY <2>3, <3>3, <3>5
  <2>7. sent' = sent \o <<>> /\ <<>> \in Seq(Nat)
    BY <1>0, <2>1 DEF Typed
  <2>8. /\ \A m \in 1 .. Len(frames) : FrameArrived(m)'
        /\ \A m \in 1 .. Len(frames) + 1 : FrameStart(m)' = FrameStart(m)
    BY <1>0, <1>1, <2>1, <2>5, <2>6, <2>7, FramesStay
  <2>9. FrameStart(k)' = f
    <3>1. k \in 1 .. Len(frames) + 1
      BY <1>0, <2>3
    <3> QED
      BY <2>2, <2>3, <2>8, <3>1 DEF NextFrame
  <2>10. FrameArrived(k)'
    BY <2>1, <2>4, <2>5, <2>6, <2>9 DEF FrameArrived
  <2>11. \A m \in 1 .. Len(frames') : FrameArrived(m)'
    <3>1. \A m \in 1 .. Len(frames') : m \in 1 .. Len(frames) \/ m = k
      BY <1>0, <2>3, <2>6
    <3> QED
      BY <2>8, <2>10, <3>1
  <2>12. NextFrame' = f + sent[f] + 1
    <3>1. Len(frames') + 1 # 1 /\ (Len(frames') + 1) - 1 = k
      BY <1>0, <2>3, <2>6
    <3> QED
      BY <2>1, <2>5, <3>1 DEF NextFrame, FrameStart
  <2>13. f + sent[f] + 1 \in 1 .. Len(sent) + 1
    <3>1. PICK v : v = sent[f]
      OBVIOUS
    <3>2. f \in Nat \ {0} /\ v \in Nat /\ f + v <= Len(sent)
      BY <2>4, <3>1
    <3>3. Len(sent) \in Nat
      BY <1>0 DEF Typed
    <3>4. f + v + 1 \in 1 .. Len(sent) + 1
      BY <3>2, <3>3
    <3> QED
      BY <3>1, <3>4
  <2> QED
    BY <1>1, <2>1, <2>4, <2>5, <2>6, <2>11, <2>12, <2>13 DEF FrameInv
<1>9. CASE FramesDone
  BY <1>4, <1>9 DEF FramesDone, lineVars, frameVars
<1>10. CASE Erase
  <2>1. UNCHANGED <<guarded, sent, buffer, ends, heads, frames>>
    BY <1>10 DEF Erase, frameVars
  <2>2. guarded => ~Complete
    BY <1>0, <1>10 DEF Erase, Phase
  <2> QED
    BY <1>4, <2>1, <2>2
<1>11. CASE UNCHANGED vars
  <2>1. UNCHANGED <<guarded, sent, buffer, ends, heads, frames, pc>>
    BY <1>11 DEF vars, lineVars, frameVars
  <2> QED
    BY <1>1, <1>4, <2>1
<1> QED
  BY <1>5, <1>6, <1>7, <1>8, <1>9, <1>10, <1>11 DEF Next

\* FrameInv is an invariant.
LEMMA FrameInvariant == Spec => []FrameInv
<1>1. Init => FrameInv
  BY DEF Init, FrameInv
<1>2. LineInv /\ FrameInv /\ [Next]_vars => FrameInv'
  <2>1. LineInv /\ [Next]_vars => Typed'
    BY StepTyped DEF LineInv
  <2> QED
    BY <2>1, StepFrames
<1> QED
  BY <1>1, <1>2, LineInvariant, PTL DEF Spec

\* From the guard line on every byte of the stream is in a frame that was cut out or in
\* the one that is not complete, wherever read() cut the stream.
THEOREM FramesArriveHolds == Spec => []FramesArrive
<1>1. LineInv /\ FrameInv => FramesArrive
  <2> SUFFICES ASSUME LineInv, FrameInv PROVE FramesArrive
    OBVIOUS
  <2>1. CASE guarded
    <3>1. /\ Len(heads) = Len(frames) /\ buffer = From(sent, FrameStart(Len(frames) + 1))
          /\ \A k \in 1 .. Len(frames) : FrameArrived(k)
          /\ pc = "read" => ~Complete
      BY <2>1 DEF FrameInv, NextFrame
    <3>2. \A k \in DOMAIN frames :
              /\ heads[k] = FrameStart(k)
              /\ Len(frames[k]) = sent[heads[k]]
              /\ frames[k] = SubSeq(sent, heads[k] + 1, heads[k] + Len(frames[k]))
      <4>1. DOMAIN frames = 1 .. Len(frames)
        BY DEF LineInv, Typed
      <4> QED
        BY <3>1, <4>1 DEF FrameArrived
    <3>3. pc = "read" => buffer = <<>> \/ Len(buffer) <= buffer[1]
      <4>1. ASSUME pc = "read", buffer # <<>> PROVE Len(buffer) <= buffer[1]
        <5>1. ~(buffer[1] + 1 <= Len(buffer))
          BY <3>1, <4>1 DEF Complete
        <5>2. buffer[1] \in Nat /\ Len(buffer) \in Nat
          BY <4>1 DEF LineInv, Typed
        <5> QED
          BY <5>1, <5>2
      <4> QED
        BY <4>1
    <3> QED
      BY <2>1, <3>1, <3>2, <3>3 DEF FramesArrive
  <2>2. CASE ~guarded
    BY <2>2 DEF FrameInv, FramesArrive
  <2> QED
    BY <2>1, <2>2
<1> QED
  BY <1>1, LineInvariant, FrameInvariant, PTL

-----------------------------------------------------------------------------
(* The bound on accum.                                                     *)

\* accum exceeds MAX_ACCUM only where a line is being looked for, and an erase beyond
\* its end happens only after the guard line.
AccumInv ==
    /\ Len(accum) <= MaxAccum + MaxChunk
    /\ pc = "read" => start = 0
    /\ pc # "lines" /\ start = 0 => Len(accum) <= MaxAccum \/ overrun
    /\ ~guarded => ~overrun

\* Every step keeps it.
LEMMA StepAccum == Typed /\ Phase /\ AccumInv /\ [Next]_vars => AccumInv'
<1> SUFFICES ASSUME Typed, Phase, AccumInv, [Next]_vars PROVE AccumInv'
  OBVIOUS
<1>0. MaxAccum \in Nat /\ MaxChunk \in Nat /\ Len(accum) \in Nat /\ start \in Nat
  BY StreamAssumption DEF Typed
<1>1. CASE Read
  <2>1. pc = "read" /\ start = 0 /\ UNCHANGED <<guarded, overrun>>
    BY <1>1 DEF Read, AccumInv
  <2>2. CASE guarded
    <3>1. UNCHANGED <<accum, start>> /\ pc' = "frames"
      BY <1>1, <2>2 DEF Read
    <3> QED
      BY <2>1, <2>2, <3>1 DEF AccumInv
  <2>3. CASE ~guarded
    <3>1. PICK chunk \in Chunks : accum' = accum \o chunk /\ start' = 1 /\ pc' = "lines"
      BY <1>1, <2>3 DEF Read
    <3>2. Len(chunk) \in 1 .. MaxChunk /\ chunk \in Seq(Nat)
      BY ChunkTyped
    <3>3. Len(accum') = Len(accum) + Len(chunk)
      BY <3>1, <3>2, ConcatProperties DEF Typed
    <3>4. Len(accum) <= MaxAccum
      BY <2>1, <2>3 DEF AccumInv
    <3>5. Len(accum') <= MaxAccum + MaxChunk
      BY <1>0, <3>2, <3>3, <3>4
    <3> QED
      BY <2>1, <2>3, <3>1, <3>5 DEF AccumInv
  <2> QED
    BY <2>2, <2>3
<1>2. CASE TakeLine
  BY <1>2 DEF TakeLine, AccumInv
<1>3. CASE TakeGuard
  <2>1. PICK n \in 1 .. Len(accum) : accum' = From(accum, n + 1)
    BY <1>3 DEF TakeGuard
  <2>2. pc = "lines" /\ pc' = "frames" /\ UNCHANGED <<start, overrun>> /\ guarded' = TRUE
    BY <1>3 DEF TakeGuard
  <2>3. n + 1 \in 1 .. Len(accum) + 1
    BY <1>0
  <2>4. Len(accum') = Len(accum) - (n + 1) + 1
    BY <2>1, <2>3, Rest DEF Typed
  <2>5. Len(accum) <= MaxAccum + MaxChunk
    BY DEF AccumInv
  <2>6. Len(accum') <= MaxAccum + MaxChunk
    BY <1>0, <2>4, <2>5
  <2>7. start # 0
    BY <1>0, <2>2 DEF Typed
  <2> QED
    BY <2>2, <2>6, <2>7 DEF AccumInv
<1>4. CASE TakeFrame
  BY <1>4 DEF TakeFrame, lineVars, AccumInv
<1>5. CASE FramesDone
  BY <1>5 DEF FramesDone, lineVars, AccumInv
<1>6. CASE Erase
  <2>1. pc' = "read" /\ start' = 0 /\ guarded' = guarded
    BY <1>6 DEF Erase
  <2>2. start # 0 /\ (~guarded => start - 1 <= Len(accum))
    <3>1. CASE pc = "lines"
      BY <1>0, <3>1 DEF Typed
    <3>2. CASE pc # "lines"
      BY <1>6, <3>2 DEF Erase, Phase
    <3> QED
      BY <3>1, <3>2
  <2>3. Len(accum) <= MaxAccum + MaxChunk
    BY DEF AccumInv
  <2>4. CASE start - 1 <= Len(accum)
    <3>1. accum' = Dropped(From(accum, start)) /\ overrun' = overrun
      BY <1>6, <2>4 DEF Erase
    <3>2. Len(From(accum, start)) \in Nat
      <4>1. start \in 1 .. Len(accum) + 1
        BY <1>0, <2>2, <2>4
      <4> QED
        BY <4>1, Rest DEF Typed
    <3>3. Len(accum') <= MaxAccum
      BY <1>0, <3>1, <3>2 DEF Dropped
    <3>4. Len(accum') <= MaxAccum + MaxChunk
      <4>1. Len(accum') \in Nat
        BY <1>0, <3>1, <3>2 DEF Dropped
      <4> QED
        BY <1>0, <3>3, <4>1
    <3> QED
      BY <2>1, <3>1, <3>3, <3>4 DEF AccumInv
  <2>5. CASE ~(start - 1 <= Len(accum))
    <3>1. accum' \in {<<>>, accum} /\ overrun' = TRUE
      BY <1>6, <2>5 DEF Erase
    <3>2. Len(accum') <= MaxAccum + MaxChunk
      BY <1>0, <2>3, <3>1
    <3>3. guarded
      BY <2>2, <2>5
    <3> QED
      BY <2>1, <3>1, <3>2, <3>3 DEF AccumInv
  <2> QED
    BY <2>4, <2>5
<1>7. CASE UNCHANGED vars
  BY <1>7 DEF vars, lineVars, AccumInv
<1> QED
  BY <1>1, <1>2, <1>3, <1>4, <1>5, <1>6, <1>7 DEF Next

\* Between two reads no more is kept of a line that has not ended than MAX_ACCUM, and
\* never more than that and a chunk, whatever the peer sends.
THEOREM AccumBoundedHolds == Spec => []AccumBounded
<1>1. Init => AccumInv
  BY StreamAssumption DEF Init, AccumInv
<1>2. LineInv /\ AccumInv /\ [Next]_vars => AccumInv'
  BY StepAccum DEF LineInv
<1>3. AccumInv => AccumBounded
  BY DEF AccumInv, AccumBounded
<1> QED
  BY <1>1, <1>2, <1>3, LineInvariant, PTL DEF Spec
=============================================================================
