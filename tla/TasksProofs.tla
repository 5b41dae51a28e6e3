------------------------------ MODULE TasksProofs ------------------------------
(***************************************************************************)
(* Theorems about the serial console and the LED, for any size of the      *)
(* console's buffer and any greatest BlinkCount.  The console's invariant  *)
(* says of every character where the stream had it; the operators it is    *)
(* made of are about sequences only.  The LED's says that the count it had *)
(* when a blink began is one of those seen during the burst.               *)
(***************************************************************************)
EXTENDS MCTasks, SequenceTheorems, TLAPS

-----------------------------------------------------------------------------
(* The console: characters, and where a stream s of which d were taken has *)
(* them.                                                                   *)

Symbols == ConsoleChars \cup {"\r", "\n"}
IsEnd(c) == c = "\n"
IsChar(c) == c \notin {"\r", "\n"}

Ends(s, p, q) == \E e \in p .. q : IsEnd(s[e])
Within(d, at) == \A k \in 1 .. Len(at) : at[k] \in 1 .. d

Text(s, d, text, at) ==
    /\ Len(text) = Len(at) /\ Len(text) <= BufSize - 1
    /\ Within(d, at)
    /\ \A k \in 1 .. Len(at) : text[k] = s[at[k]] /\ IsChar(s[at[k]])
    /\ \A k, m \in 1 .. Len(at) : k < m => at[k] < at[m] /\ ~Ends(s, at[k], at[m])

\* The line of a ended before d, or goes on there; it ended before that of b began.
Closed(s, d, a) == \A x \in 1 .. Len(a) : Ends(s, a[x], d)
Open(s, d, a) == \A x \in 1 .. Len(a) : ~Ends(s, a[x], d)
Apart(s, a, b) ==
    \A x \in 1 .. Len(a), y \in 1 .. Len(b) : a[x] < b[y] /\ Ends(s, a[x], b[y])

Covers(s, a, p) ==
    \/ \E k \in 1 .. Len(a) : a[k] = p
    \/ Len(a) = BufSize - 1 /\ \A k \in 1 .. Len(a) : a[k] < p /\ ~Ends(s, a[k], p)

ConsoleTyped ==
    /\ typed \in Seq(Symbols) /\ done \in 0 .. Len(typed)
    /\ line \in Seq(Symbols) /\ place \in Seq(Nat)
    /\ said \in Seq(Seq(Symbols)) /\ places \in Seq(Seq(Nat))
    /\ Len(said) = Len(places)

\* The line under way has begun after all that were said had ended, and has not ended.
Current ==
    /\ Text(typed, done, line, place)
    /\ Open(typed, done, place)

Said ==
    /\ \A k \in 1 .. Len(places) :
        /\ Len(said[k]) # 0
        /\ Text(typed, done, said[k], places[k])
        /\ Closed(typed, done, places[k])
        /\ Apart(typed, places[k], place)
    /\ \A k, m \in 1 .. Len(places) : k < m => Apart(typed, places[k], places[m])

AllCovered ==
    \A p \in 1 .. done :
        IsChar(typed[p]) =>
            \/ Covers(typed, place, p)
            \/ \E k \in 1 .. Len(places) : Covers(typed, places[k], p)

ConsoleInv == ConsoleTyped /\ Current /\ Said /\ AllCovered

\* What is true of the places up to d is not changed by what comes later.
LEMMA EndsStay ==
    ASSUME NEW s, NEW t, NEW d \in Nat, \A p \in 1 .. d : t[p] = s[p],
           NEW p \in 1 .. d, NEW q \in 1 .. d
    PROVE  Ends(t, p, q) <=> Ends(s, p, q)
<1>1. \A e \in p .. q : e \in 1 .. d
  OBVIOUS
<1> QED
  BY <1>1 DEF Ends

\* A line stays the text of its places.
LEMMA TextStays ==
    ASSUME NEW s, NEW t, NEW d \in Nat, NEW e \in Nat, d <= e, \A p \in 1 .. d : t[p] = s[p],
           NEW text, NEW at, Text(s, d, text, at)
    PROVE  Text(t, e, text, at)
<1>1. \A k \in 1 .. Len(at) : at[k] \in 1 .. d
  BY DEF Text, Within
<1>2. Within(e, at)
  BY <1>1 DEF Within
<1>3. \A k \in 1 .. Len(at) : text[k] = t[at[k]] /\ IsChar(t[at[k]])
  BY <1>1 DEF Text
<1>4. ASSUME NEW k \in 1 .. Len(at), NEW m \in 1 .. Len(at), k < m
      PROVE  at[k] < at[m] /\ ~Ends(t, at[k], at[m])
  <2>1. at[k] < at[m] /\ ~Ends(s, at[k], at[m])
    BY <1>4 DEF Text
  <2> QED
    BY <1>1, <2>1, EndsStay
<1> QED
  BY <1>2, <1>3, <1>4 DEF Text

\* A line that has ended has ended.
LEMMA ClosedStays ==
    ASSUME NEW s, NEW t, NEW d \in Nat, NEW e \in Nat, d <= e, \A p \in 1 .. d : t[p] = s[p],
           NEW a, Within(d, a), Closed(s, d, a)
    PROVE  Closed(t, e, a)
<1> SUFFICES ASSUME NEW x \in 1 .. Len(a) PROVE Ends(t, a[x], e)
  BY DEF Closed
<1>1. PICK f \in a[x] .. d : IsEnd(s[f])
  BY DEF Closed, Ends
<1>2. a[x] \in 1 .. d
  BY DEF Within
<1>3. f \in 1 .. d /\ f \in a[x] .. e
  BY <1>1, <1>2
<1> QED
  BY <1>1, <1>3 DEF Ends

\* A line that has not ended goes on while no end comes.
LEMMA OpenStays ==
    ASSUME NEW s, NEW t, NEW d \in Nat, NEW e \in Nat, d <= e, \A p \in 1 .. d : t[p] = s[p],
           \A q \in d + 1 .. e : ~IsEnd(t[q]),
           NEW a, Within(d, a), Open(s, d, a)
    PROVE  Open(t, e, a)
<1> SUFFICES ASSUME NEW x \in 1 .. Len(a), NEW f \in a[x] .. e PROVE ~IsEnd(t[f])
  BY DEF Open, Ends
<1>1. a[x] \in 1 .. d
  BY DEF Within
<1>2. CASE f <= d
  <2>1. f \in a[x] .. d /\ f \in 1 .. d
    BY <1>1, <1>2
  <2> QED
    BY <2>1 DEF Open, Ends
<1>3. CASE ~(f <= d)
  <2>1. f \in d + 1 .. e
    BY <1>1, <1>3
  <2> QED
    BY <2>1
<1> QED
  BY <1>2, <1>3

\* Lines that lie apart do so whatever comes later.
LEMMA ApartStays ==
    ASSUME NEW s, NEW t, NEW d \in Nat, \A p \in 1 .. d : t[p] = s[p],
           NEW a, NEW b, Within(d, a), Within(d, b), Apart(s, a, b)
    PROVE  Apart(t, a, b)
<1> SUFFICES ASSUME NEW x \in 1 .. Len(a), NEW y \in 1 .. Len(b)
             PROVE  a[x] < b[y] /\ Ends(t, a[x], b[y])
  BY DEF Apart
<1>1. a[x] \in 1 .. d /\ b[y] \in 1 .. d
  BY DEF Within
<1>2. a[x] < b[y] /\ Ends(s, a[x], b[y])
  BY DEF Apart
<1> QED
  BY <1>1, <1>2, EndsStay

\* A character that was covered is.
LEMMA CoversStay ==
    ASSUME NEW s, NEW t, NEW d \in Nat, \A p \in 1 .. d : t[p] = s[p],
           NEW a, Within(d, a), NEW p \in 1 .. d, Covers(s, a, p)
    PROVE  Covers(t, a, p)
<1>1. \A k \in 1 .. Len(a) : a[k] \in 1 .. d
  BY DEF Within
<1>2. CASE \E k \in 1 .. Len(a) : a[k] = p
  BY <1>2 DEF Covers
<1>3. CASE Len(a) = BufSize - 1 /\ \A k \in 1 .. Len(a) : a[k] < p /\ ~Ends(s, a[k], p)
  <2>1. \A k \in 1 .. Len(a) : a[k] < p /\ ~Ends(t, a[k], p)
    BY <1>1, <1>3, EndsStay
  <2> QED
    BY <1>3, <2>1 DEF Covers
<1> QED
  BY <1>2, <1>3 DEF Covers

\* What the invariant says of the bounds of places.
LEMMA AllWithin ==
    ASSUME ConsoleInv
    PROVE  /\ done \in Nat /\ Len(place) \in Nat /\ Len(line) \in Nat /\ Len(places) \in Nat
           /\ Within(done, place)
           /\ \A k \in 1 .. Len(places) : Within(done, places[k])
BY DEF ConsoleInv, ConsoleTyped, Current, Said, Text

\* A step that changes neither the lines nor the line under way, and takes nothing that
\* should.
LEMMA TextsStay ==
    ASSUME ConsoleInv, UNCHANGED <<line, said, place, places>>,
           typed' \in Seq(Symbols), done' \in 0 .. Len(typed'), done <= done',
           \A p \in 1 .. done : typed'[p] = typed[p],
           Len(place) = 0 \/ \A q \in done + 1 .. done' : ~IsEnd(typed'[q]),
           \A q \in done + 1 .. done' : IsChar(typed'[q]) => Covers(typed', place, q)
    PROVE  ConsoleInv'
<1>1. /\ done \in Nat /\ Len(place) \in Nat /\ Len(line) \in Nat /\ Len(places) \in Nat
      /\ Within(done, place)
      /\ \A k \in 1 .. Len(places) : Within(done, places[k])
  BY AllWithin
<1>2. done' \in Nat
  BY DEF ConsoleInv, ConsoleTyped
<1>3. ConsoleTyped'
  BY DEF ConsoleInv, ConsoleTyped
<1>4. Current'
  <2>1. Text(typed', done', line, place)
    BY <1>1, <1>2, TextStays DEF ConsoleInv, Current
  <2>2. Open(typed', done', place)
    <3>1. CASE Len(place) = 0
      BY <3>1 DEF Open
    <3>2. CASE \A q \in done + 1 .. done' : ~IsEnd(typed'[q])
      BY <1>1, <1>2, <3>2, OpenStays DEF ConsoleInv, Current
    <3> QED
      BY <3>1, <3>2
  <2> QED
    BY <2>1, <2>2 DEF Current
<1>5. Said'
  <2>1. ASSUME NEW k \in 1 .. Len(places)
        PROVE  /\ Len(said[k]) # 0
               /\ Text(typed', done', said[k], places[k])
               /\ Closed(typed', done', places[k])
               /\ Apart(typed', places[k], place)
    <3>1. /\ Len(said[k]) # 0 /\ Text(typed, done, said[k], places[k])
          /\ Closed(typed, done, places[k]) /\ Apart(typed, places[k], place)
          /\ Within(done, places[k])
      BY <1>1 DEF ConsoleInv, Said
    <3> QED
      BY <1>1, <1>2, <3>1, TextStays, ClosedStays, ApartStays
  <2>2. ASSUME NEW k \in 1 .. Len(places), NEW m \in 1 .. Len(places), k < m
        PROVE  Apart(typed', places[k], places[m])
    <3>1. /\ Apart(typed, places[k], places[m])
          /\ Within(done, places[k]) /\ Within(done, places[m])
      BY <1>1, <2>2 DEF ConsoleInv, Said
    <3> QED
      BY <1>1, <3>1, ApartStays
  <2> QED
    BY <2>1, <2>2 DEF Said
<1>6. AllCovered'
  <2> SUFFICES ASSUME NEW p \in 1 .. done', IsChar(typed'[p])
               PROVE  \/ Covers(typed', place, p)
                      \/ \E k \in 1 .. Len(places) : Covers(typed', places[k], p)
    BY DEF AllCovered
  <2>1. CASE p \in 1 .. done
    <3>1. \/ Covers(typed, place, p)
          \/ \E k \in 1 .. Len(places) : Covers(typed, places[k], p)
      BY <2>1 DEF ConsoleInv, AllCovered
    <3> QED
      BY <1>1, <2>1, <3>1, CoversStay
  <2>2. CASE ~(p \in 1 .. done)
    <3>1. p \in done + 1 .. done'
      BY <1>1, <1>2, <2>2
    <3> QED
      BY <3>1
  <2> QED
    BY <2>1, <2>2
<1> QED
  BY <1>3, <1>4, <1>5, <1>6 DEF ConsoleInv

\* start() of a task that does not run forgets everything.
LEMMA Fresh ==
    ASSUME typed' = <<>>, done' = 0, line' = <<>>, said' = <<>>, place' = <<>>, places' = <<>>
    PROVE  ConsoleInv'
<1>1. BufSize - 1 \in Nat /\ Len(<<>>) = 0
  BY TasksAssumption
<1>2. ConsoleTyped'
  BY DEF ConsoleTyped
<1>3. Current'
  BY <1>1 DEF Current, Text, Within, Open
<1>4. Said'
  BY DEF Said
<1>5. AllCovered'
  BY DEF AllCovered
<1> QED
  BY <1>2, <1>3, <1>4, <1>5 DEF ConsoleInv

\* What comes is not taken yet.
LEMMA ReadKeeps == ConsoleInv /\ Serial!ReadBytes => ConsoleInv'
<1> SUFFICES ASSUME ConsoleInv, Serial!ReadBytes PROVE ConsoleInv'
  OBVIOUS
<1>1. PICK chunk \in Serial!Chunks : typed' = typed \o chunk
  BY DEF Serial!ReadBytes
<1>2. done' = done /\ UNCHANGED <<line, said, place, places>>
  BY DEF Serial!ReadBytes, Serial!textVars
<1>3. chunk \in Seq(Symbols)
  <2>1. PICK n \in 1 .. BufSize - 1 : chunk \in [1 .. n -> Symbols]
    BY DEF Serial!Chunks, Symbols
  <2>2. n \in Nat
    BY <2>1, TasksAssumption
  <2> QED
    BY <2>1, <2>2
<1>4. typed \in Seq(Symbols) /\ done \in 0 .. Len(typed) /\ Len(typed) \in Nat
  BY DEF ConsoleInv, ConsoleTyped
<1>5. /\ typed' \in Seq(Symbols) /\ Len(typed') = Len(typed) + Len(chunk) /\ Len(chunk) \in Nat
      /\ \A p \in 1 .. Len(typed) + Len(chunk) :
             typed'[p] = IF p <= Len(typed) THEN typed[p] ELSE chunk[p - Len(typed)]
  BY <1>1, <1>3, <1>4, ConcatProperties, LenProperties
<1>6. \A p \in 1 .. done : p \in 1 .. Len(typed) + Len(chunk) /\ p <= Len(typed)
  BY <1>4, <1>5
<1>7. \A p \in 1 .. done : typed'[p] = typed[p]
  BY <1>5, <1>6
<1>8. done' \in 0 .. Len(typed') /\ done <= done'
  BY <1>2, <1>4, <1>5
<1>9. \A q \in done + 1 .. done' : FALSE
  BY <1>2, <1>4
<1> QED
  BY <1>2, <1>5, <1>7, <1>8, <1>9, TextsStay

\* The next byte, and what it is.
LEMMA NextByte ==
    ASSUME ConsoleInv, Serial!TakeByte
    PROVE  /\ done \in Nat /\ done' = done + 1 /\ done + 1 \in 1 .. Len(typed)
           /\ typed' = typed /\ typed \in Seq(Symbols) /\ Len(typed) \in Nat
           /\ typed[done + 1] \in Symbols
           /\ \/ ~IsChar(typed[done + 1]) /\ ~IsEnd(typed[done + 1])
                 /\ UNCHANGED <<line, said, place, places>>
              \/ IsEnd(typed[done + 1]) /\ ~IsChar(typed[done + 1]) /\ Serial!Ended
              \/ /\ IsChar(typed[done + 1]) /\ ~IsEnd(typed[done + 1])
                 /\ Serial!Typed(typed[done + 1])
<1>1. typed \in Seq(Symbols) /\ done \in 0 .. Len(typed) /\ Len(typed) \in Nat
  BY DEF ConsoleInv, ConsoleTyped
<1>2. done < Len(typed) /\ done' = done + 1 /\ typed' = typed
  BY DEF Serial!TakeByte
<1>3. done \in Nat /\ done + 1 \in 1 .. Len(typed)
  BY <1>1, <1>2
<1>4. \/ typed[done + 1] = "\r" /\ UNCHANGED <<line, said, place, places>>
      \/ typed[done + 1] = "\n" /\ Serial!Ended
      \/ typed[done + 1] \notin {"\r", "\n"} /\ Serial!Typed(typed[done + 1])
  BY DEF Serial!TakeByte, Serial!textVars
<1> HIDE DEF Serial!Ended, Serial!Typed
<1>5. typed[done + 1] \in Symbols
  BY <1>1, <1>3
<1>6. "\r" # "\n"
  OBVIOUS
<1>7. \/ ~IsChar(typed[done + 1]) /\ ~IsEnd(typed[done + 1])
         /\ UNCHANGED <<line, said, place, places>>
      \/ IsEnd(typed[done + 1]) /\ ~IsChar(typed[done + 1]) /\ Serial!Ended
      \/ /\ IsChar(typed[done + 1]) /\ ~IsEnd(typed[done + 1])
         /\ Serial!Typed(typed[done + 1])
  BY <1>4, <1>6 DEF IsChar, IsEnd
<1> QED
  BY <1>1, <1>2, <1>3, <1>5, <1>7

\* A line that ends goes to the callback; every line before it ended before it began.
LEMMA EndedKeeps ==
    ASSUME ConsoleInv, Serial!Ended, done' = done + 1, done + 1 \in 1 .. Len(typed),
           typed' = typed, IsEnd(typed[done + 1]), ~IsChar(typed[done + 1])
    PROVE  ConsoleInv'
<1>1. /\ done \in Nat /\ Len(place) \in Nat /\ Len(line) \in Nat /\ Len(places) \in Nat
      /\ Within(done, place)
      /\ \A k \in 1 .. Len(places) : Within(done, places[k])
  BY AllWithin
<1>2. /\ ConsoleTyped /\ typed \in Seq(Symbols) /\ done' \in 0 .. Len(typed) /\ done' \in Nat
      /\ done <= done' /\ Len(typed) \in Nat
  BY <1>1 DEF ConsoleInv, ConsoleTyped
<1>3. /\ Text(typed, done, line, place) /\ Len(line) = Len(place)
      /\ Len(said) = Len(places) /\ line \in Seq(Symbols) /\ place \in Seq(Nat)
      /\ said \in Seq(Seq(Symbols)) /\ places \in Seq(Seq(Nat))
  BY <1>2 DEF ConsoleInv, ConsoleTyped, Current, Text
<1>4. CASE line = <<>>
  <2>1. place = <<>> /\ Len(place) = 0
    BY <1>3, <1>4, EmptySeq
  <2>2. UNCHANGED <<line, said, place, places>>
    BY <1>4, <2>1 DEF Serial!Ended
  <2>3. \A q \in done + 1 .. done' : IsChar(typed'[q]) => Covers(typed', place, q)
    <3>1. \A q \in done + 1 .. done' : q = done + 1
      BY <1>1
    <3> QED
      BY <3>1
  <2> QED
    BY <1>2, <2>1, <2>2, <2>3, TextsStay
<1>5. CASE line # <<>>
  <2> DEFINE n == Len(places)
  <2>1. /\ line' = <<>> /\ place' = <<>> /\ said' = Append(said, line)
        /\ places' = Append(places, place)
    BY <1>5 DEF Serial!Ended
  <2>2. /\ said' \in Seq(Seq(Symbols)) /\ Len(said') = n + 1
        /\ \A k \in 1 .. n : said'[k] = said[k]
        /\ said'[n + 1] = line
    BY <1>3, <2>1, AppendProperties
  <2>3. /\ places' \in Seq(Seq(Nat)) /\ Len(places') = n + 1
        /\ \A k \in 1 .. n : places'[k] = places[k]
        /\ places'[n + 1] = place
    BY <1>3, <2>1, AppendProperties
  <2>4. n \in Nat
    BY <1>1
  <2> HIDE DEF n
  <2>5. \A k \in 1 .. n + 1 : k \in 1 .. n \/ k = n + 1
    BY <2>4
  <2>6. ConsoleTyped'
    BY <1>2, <2>1, <2>2, <2>3 DEF ConsoleTyped
  <2>7. Current'
    <3>1. Len(<<>>) = 0 /\ 0 <= BufSize - 1
      BY TasksAssumption
    <3> QED
      BY <2>1, <3>1 DEF Current, Text, Within, Open
  <2>8. ASSUME NEW a, Within(done, a) PROVE Closed(typed, done', a)
    <3>1. \A x \in 1 .. Len(a) : done + 1 \in a[x] .. done'
      BY <1>1, <2>8 DEF Within
    <3> QED
      BY <3>1 DEF Closed, Ends
  <2>9. ASSUME NEW k \in 1 .. n + 1
        PROVE  /\ Len(said'[k]) # 0
               /\ Text(typed, done', said'[k], places'[k])
               /\ Closed(typed, done', places'[k])
               /\ Apart(typed, places'[k], place')
    <3>1. Apart(typed, places'[k], place')
      BY <2>1 DEF Apart
    <3>2. CASE k \in 1 .. n
      <4>1. /\ Len(said[k]) # 0 /\ Text(typed, done, said[k], places[k])
            /\ Within(done, places[k]) /\ said'[k] = said[k] /\ places'[k] = places[k]
        BY <1>1, <2>2, <2>3, <3>2 DEF ConsoleInv, Said, n
      <4>2. Text(typed, done', said[k], places[k])
        BY <1>1, <1>2, <4>1, TextStays
      <4> QED
        BY <2>8, <3>1, <4>1, <4>2
    <3>3. CASE k = n + 1
      <4>1. Len(line) # 0
        BY <1>3, <1>5, EmptySeq
      <4>2. Text(typed, done', line, place)
        BY <1>1, <1>2, <1>3, TextStays
      <4> QED
        BY <1>1, <2>2, <2>3, <2>8, <3>1, <3>3, <4>1, <4>2
    <3> QED
      BY <2>5, <3>2, <3>3
  <2>10. ASSUME NEW k \in 1 .. n + 1, NEW m \in 1 .. n + 1, k < m
         PROVE  Apart(typed, places'[k], places'[m])
    <3>1. k \in 1 .. n
      BY <2>4, <2>10
    <3>2. CASE m \in 1 .. n
      BY <2>3, <2>10, <3>1, <3>2 DEF ConsoleInv, Said, n
    <3>3. CASE m = n + 1
      BY <2>3, <3>1, <3>3 DEF ConsoleInv, Said, n
    <3> QED
      BY <2>5, <3>2, <3>3
  <2>11. Said'
    BY <2>2, <2>3, <2>9, <2>10 DEF Said
  <2>12. AllCovered'
    <3> SUFFICES ASSUME NEW p \in 1 .. done', IsChar(typed[p])
                 PROVE  \E k \in 1 .. n + 1 : Covers(typed, places'[k], p)
      BY <2>3 DEF AllCovered
    <3>1. p \in 1 .. done
      <4>1. p # done + 1
        OBVIOUS
      <4> QED
        BY <1>1, <4>1
    <3>2. \/ Covers(typed, place, p)
          \/ \E k \in 1 .. n : Covers(typed, places[k], p)
      BY <3>1 DEF ConsoleInv, AllCovered, n
    <3>3. \A k \in 1 .. n : k \in 1 .. n + 1
      BY <2>4
    <3>4. n + 1 \in 1 .. n + 1
      BY <2>4
    <3> QED
      BY <2>3, <3>2, <3>3, <3>4
  <2> QED
    BY <2>6, <2>7, <2>11, <2>12 DEF ConsoleInv
<1> QED
  BY <1>4, <1>5

\* A character goes to the line under way while there is space.
LEMMA TypedKeeps ==
    ASSUME ConsoleInv, NEW c, c = typed[done + 1], Serial!Typed(c), done' = done + 1,
           done + 1 \in 1 .. Len(typed), typed' = typed, c \in Symbols, ~IsEnd(c), IsChar(c)
    PROVE  ConsoleInv'
<1>1. /\ done \in Nat /\ Len(place) \in Nat /\ Len(line) \in Nat /\ Len(places) \in Nat
      /\ Within(done, place)
      /\ \A k \in 1 .. Len(places) : Within(done, places[k])
  BY AllWithin
<1>2. /\ ConsoleTyped /\ typed \in Seq(Symbols) /\ done' \in 0 .. Len(typed) /\ done' \in Nat
      /\ done <= done' /\ Len(typed) \in Nat
  BY <1>1 DEF ConsoleInv, ConsoleTyped
<1>3. /\ Text(typed, done, line, place) /\ Open(typed, done, place) /\ Len(line) = Len(place)
      /\ line \in Seq(Symbols) /\ place \in Seq(Nat) /\ Len(line) <= BufSize - 1
  BY <1>2 DEF ConsoleInv, ConsoleTyped, Current, Text
<1>4. said' = said /\ places' = places
  BY DEF Serial!Typed
<1>5. \A q \in done + 1 .. done' : q = done + 1
  BY <1>1
<1>6. Open(typed, done', place)
  <2>1. \A q \in done + 1 .. done' : ~IsEnd(typed[q])
    BY <1>5
  <2> QED
    BY <1>1, <1>2, <1>3, <2>1, OpenStays
<1>7. CASE ~(Len(line) < BufSize - 1)
  <2>1. UNCHANGED <<line, place>>
    BY <1>7 DEF Serial!Typed, Serial!HasSpace
  <2>2. Len(place) = BufSize - 1
    <3>1. /\ Len(line) = Len(place) /\ Len(line) <= BufSize - 1 /\ Len(line) \in Nat
          /\ BufSize \in Nat
      BY <1>1, <1>3, TasksAssumption
    <3> QED
      BY <1>7, <3>1
  <2>3. Covers(typed, place, done + 1)
    <3>1. \A k \in 1 .. Len(place) : place[k] < done + 1
      BY <1>1 DEF Within
    <3>2. \A k \in 1 .. Len(place) : ~Ends(typed, place[k], done + 1)
      BY <1>6 DEF Open
    <3> QED
      BY <2>2, <3>1, <3>2 DEF Covers
  <2> QED
    BY <1>2, <1>4, <1>5, <2>1, <2>3, TextsStay
<1>8. CASE Len(line) < BufSize - 1
  <2> DEFINE n == Len(place)
             e == done + 1
  <2>1. line' = Append(line, c) /\ place' = Append(place, e)
    BY <1>8 DEF Serial!Typed, Serial!HasSpace
  <2>2. /\ line' \in Seq(Symbols) /\ Len(line') = n + 1
        /\ \A k \in 1 .. n : line'[k] = line[k]
        /\ line'[n + 1] = c
    BY <1>3, <2>1, AppendProperties
  <2>3. /\ place' \in Seq(Nat) /\ Len(place') = n + 1
        /\ \A k \in 1 .. n : place'[k] = place[k]
        /\ place'[n + 1] = e
    <3>1. e \in Nat
      BY <1>1
    <3> QED
      BY <1>3, <2>1, <3>1, AppendProperties
  <2>4. /\ n \in Nat /\ n < BufSize - 1 /\ e \in Nat /\ e \in 1 .. done' /\ done' = e
        /\ typed[e] = c
        /\ \A k \in 1 .. n : place[k] \in 1 .. done /\ place[k] < e /\ place[k] \in 1 .. done'
    BY <1>1, <1>3, <1>8 DEF Within
  <2> HIDE DEF n, e
  <2>5. \A k \in 1 .. n + 1 : k \in 1 .. n \/ k = n + 1
    BY <2>4
  <2>6. ConsoleTyped'
    BY <1>2, <1>4, <2>2, <2>3 DEF ConsoleTyped
  <2>7. \A k \in 1 .. n : ~Ends(typed, place[k], e)
    BY <1>6, <2>4 DEF Open, n
  <2>8. Text(typed, done', line', place')
    <3>1. Text(typed, done', line, place)
      BY <1>1, <1>2, <1>3, TextStays
    <3>2. Within(done', place')
      BY <2>3, <2>4, <2>5 DEF Within
    <3>3. ASSUME NEW k \in 1 .. n + 1
          PROVE  line'[k] = typed[place'[k]] /\ IsChar(typed[place'[k]])
      <4>1. CASE k \in 1 .. n
        BY <2>2, <2>3, <3>1, <4>1 DEF Text, n
      <4>2. CASE k = n + 1
        BY <2>2, <2>3, <2>4, <4>2
      <4> QED
        BY <2>5, <4>1, <4>2
    <3>4. ASSUME NEW k \in 1 .. n + 1, NEW m \in 1 .. n + 1, k < m
          PROVE  place'[k] < place'[m] /\ ~Ends(typed, place'[k], place'[m])
      <4>1. k \in 1 .. n
        BY <2>4, <3>4
      <4>2. CASE m \in 1 .. n
        BY <2>3, <3>1, <3>4, <4>1, <4>2 DEF Text, n
      <4>3. CASE m = n + 1
        BY <2>3, <2>4, <2>7, <4>1, <4>3
      <4> QED
        BY <2>5, <4>2, <4>3
    <3>5. Len(line') = Len(place') /\ Len(line') <= BufSize - 1
      BY <2>2, <2>3, <2>4, TasksAssumption
    <3> QED
      BY <2>3, <3>2, <3>3, <3>4, <3>5 DEF Text
  <2>9. Open(typed, done', place')
    <3>1. ~Ends(typed, e, e)
      <4>1. \A f \in e .. e : f = e
        BY <2>4
      <4> QED
        BY <2>4, <4>1 DEF Ends
    <3>2. ASSUME NEW k \in 1 .. n + 1 PROVE ~Ends(typed, place'[k], e)
      <4>1. CASE k \in 1 .. n
        BY <2>3, <2>7, <4>1
      <4>2. CASE k = n + 1
        BY <2>3, <3>1, <4>2
      <4> QED
        BY <2>5, <4>1, <4>2
    <3> QED
      BY <2>3, <2>4, <3>2 DEF Open
  <2>10. ASSUME NEW k \in 1 .. Len(places)
         PROVE  /\ Len(said[k]) # 0
                /\ Text(typed, done', said[k], places[k])
                /\ Closed(typed, done', places[k])
                /\ Apart(typed, places[k], place')
    <3>1. /\ Len(said[k]) # 0 /\ Text(typed, done, said[k], places[k])
          /\ Closed(typed, done, places[k]) /\ Apart(typed, places[k], place)
          /\ Within(done, places[k])
      BY <1>1 DEF ConsoleInv, Said
    <3>2. Text(typed, done', said[k], places[k]) /\ Closed(typed, done', places[k])
      BY <1>1, <1>2, <3>1, TextStays, ClosedStays
    <3>3. ASSUME NEW x \in 1 .. Len(places[k]), NEW y \in 1 .. n + 1
          PROVE  places[k][x] < place'[y] /\ Ends(typed, places[k][x], place'[y])
      <4>1. CASE y \in 1 .. n
        BY <2>3, <3>1, <4>1 DEF Apart, n
      <4>2. CASE y = n + 1
        <5>1. places[k][x] \in 1 .. done /\ Ends(typed, places[k][x], e)
          BY <2>4, <3>1, <3>2 DEF Within, Closed
        <5>2. places[k][x] < e
          BY <1>1, <5>1 DEF e
        <5> QED
          BY <2>3, <4>2, <5>1, <5>2
      <4> QED
        BY <2>5, <4>1, <4>2
    <3> QED
      BY <2>3, <3>1, <3>2, <3>3 DEF Apart
  <2>11. Said'
    BY <1>4, <2>10 DEF Said, ConsoleInv
  <2>12. AllCovered'
    <3> SUFFICES ASSUME NEW p \in 1 .. done', IsChar(typed[p])
                 PROVE  \/ Covers(typed, place', p)
                        \/ \E k \in 1 .. Len(places) : Covers(typed, places[k], p)
      BY <1>4 DEF AllCovered
    <3>1. CASE p = e
      <4>1. n + 1 \in 1 .. Len(place')
        BY <2>3, <2>4
      <4> QED
        BY <2>3, <3>1, <4>1 DEF Covers
    <3>2. CASE p # e
      <4>1. p \in 1 .. done
        BY <1>1, <2>4, <3>2 DEF e
      <4>2. \/ Covers(typed, place, p)
            \/ \E k \in 1 .. Len(places) : Covers(typed, places[k], p)
        BY <4>1 DEF ConsoleInv, AllCovered
      <4>3. Covers(typed, place, p) => Covers(typed, place', p)
        <5>1. Covers(typed, place, p) => \E k \in 1 .. n : place[k] = p
          BY <2>4, TasksAssumption DEF Covers, n
        <5>2. \A k \in 1 .. n : k \in 1 .. Len(place')
          BY <2>3, <2>4
        <5> QED
          BY <2>3, <5>1, <5>2 DEF Covers
      <4> QED
        BY <4>2, <4>3
    <3> QED
      BY <3>1, <3>2
  <2> QED
    BY <2>6, <2>8, <2>9, <2>11, <2>12 DEF ConsoleInv, Current
<1> QED
  BY <1>7, <1>8

\* Every step of the console keeps its invariant.
LEMMA ConsoleStep == ConsoleInv /\ [Serial!Next]_(Serial!vars) => ConsoleInv'
<1> SUFFICES ASSUME ConsoleInv, [Serial!Next]_(Serial!vars) PROVE ConsoleInv'
  OBVIOUS
<1>1. /\ done \in Nat /\ typed \in Seq(Symbols) /\ done \in 0 .. Len(typed)
  BY AllWithin DEF ConsoleInv, ConsoleTyped
\* Steps that touch nothing but the task and the bound on the starts.
<1>2. ASSUME UNCHANGED <<typed, done, line, said, place, places>> PROVE ConsoleInv'
  <2>1. \A q \in done + 1 .. done' : FALSE
    BY <1>1, <1>2
  <2>2. /\ typed' \in Seq(Symbols) /\ done' \in 0 .. Len(typed') /\ done <= done'
        /\ \A p \in 1 .. done : typed'[p] = typed[p]
    BY <1>1, <1>2
  <2> QED
    BY <1>2, <2>1, <2>2, TextsStay
<1>3. CASE Serial!Start
  <2>1. CASE task
    BY <1>2, <1>3, <2>1 DEF Serial!Start, Serial!textVars
  <2>2. CASE ~task
    BY <1>3, <2>2, Fresh DEF Serial!Start
  <2> QED
    BY <2>1, <2>2
<1>4. CASE Serial!Stop
  BY <1>2, <1>4 DEF Serial!Stop, Serial!textVars
<1>5. CASE Serial!ReadBytes
  BY <1>5, ReadKeeps
<1>6. CASE Serial!TakeByte
  <2>1. /\ done' = done + 1 /\ done + 1 \in 1 .. Len(typed)
        /\ typed' = typed /\ typed \in Seq(Symbols) /\ Len(typed) \in Nat
        /\ typed[done + 1] \in Symbols
    BY <1>6, NextByte
  <2>2. CASE /\ ~IsChar(typed[done + 1]) /\ ~IsEnd(typed[done + 1])
             /\ UNCHANGED <<line, said, place, places>>
    <3>1. \A q \in done + 1 .. done' : q = done + 1
      BY <1>1, <2>1
    <3>2. done' \in 0 .. Len(typed') /\ done <= done'
      BY <1>1, <2>1
    <3> QED
      BY <2>1, <2>2, <3>1, <3>2, TextsStay
  <2>3. CASE IsEnd(typed[done + 1]) /\ ~IsChar(typed[done + 1]) /\ Serial!Ended
    BY <2>1, <2>3, EndedKeeps
  <2>4. CASE IsChar(typed[done + 1]) /\ ~IsEnd(typed[done + 1]) /\ Serial!Typed(typed[done + 1])
    BY <2>1, <2>4, TypedKeeps
  <2> QED
    BY <1>6, <2>2, <2>3, <2>4, NextByte
<1>7. CASE UNCHANGED Serial!vars
  BY <1>2, <1>7 DEF Serial!vars, Serial!textVars
<1> QED
  BY <1>3, <1>4, <1>5, <1>6, <1>7 DEF Serial!Next

\* What the invariant says is what the property says.
LEMMA ConsoleImplied == ConsoleInv => ConsoleLinesArrive
<1> SUFFICES ASSUME ConsoleInv PROVE ConsoleLinesArrive
  OBVIOUS
<1> DEFINE n == Len(places)
           all == Append(places, place)
<1>1. /\ said \in Seq(Seq(Symbols)) /\ places \in Seq(Seq(Nat)) /\ place \in Seq(Nat)
      /\ Len(said) = n /\ n \in Nat /\ DOMAIN said = 1 .. n /\ DOMAIN places = 1 .. n
      /\ line \in Seq(Symbols)
  BY DEF ConsoleInv, ConsoleTyped
<1>2. /\ DOMAIN all = 1 .. n + 1
      /\ \A k \in 1 .. n : all[k] = places[k]
      /\ all[n + 1] = place
      /\ \A k \in 1 .. n + 1 : all[k] \in Seq(Nat) /\ DOMAIN all[k] = 1 .. Len(all[k])
  <2>1. /\ all \in Seq(Seq(Nat)) /\ Len(all) = n + 1
        /\ \A k \in 1 .. n : all[k] = places[k]
        /\ all[n + 1] = place
    BY <1>1, AppendProperties
  <2> HIDE DEF all
  <2>2. ASSUME NEW k \in 1 .. n + 1 PROVE all[k] \in Seq(Nat)
    <3>1. k \in 1 .. Len(all)
      BY <2>1
    <3> QED
      BY <2>1, <3>1
  <2>3. DOMAIN all = 1 .. n + 1
    BY <2>1, LenProperties
  <2>4. \A a \in Seq(Nat) : DOMAIN a = 1 .. Len(a)
    BY LenProperties
  <2> QED
    BY <2>1, <2>2, <2>3, <2>4
<1> HIDE DEF n, all
<1>3. \A k \in 1 .. n + 1 : k \in 1 .. n \/ k = n + 1
  BY <1>1
<1>4. \A p, q : Serial!EndsBetween(p, q) <=> Ends(typed, p, q)
  BY DEF Serial!EndsBetween, Ends, IsEnd
<1>5. ASSUME NEW text \in Seq(Symbols), NEW at \in Seq(Nat), Text(typed, done, text, at)
      PROVE  Serial!IsText(text, at)
  <2>1. DOMAIN text = 1 .. Len(text) /\ DOMAIN at = 1 .. Len(at)
    BY LenProperties
  <2>2. /\ Len(text) = Len(at) /\ Len(text) <= BufSize - 1
        /\ \A k \in 1 .. Len(at) : at[k] \in 1 .. done
        /\ \A k \in 1 .. Len(at) : text[k] = typed[at[k]] /\ typed[at[k]] \notin {"\r", "\n"}
        /\ \A k, m \in 1 .. Len(at) : k < m => at[k] < at[m] /\ ~Ends(typed, at[k], at[m])
    BY <1>5 DEF Text, Within, IsChar
  <2> QED
    BY <1>4, <2>1, <2>2 DEF Serial!IsText
<1>6. ASSUME NEW k \in DOMAIN said PROVE said[k] # <<>> /\ Serial!IsText(said[k], places[k])
  <2>1. /\ Len(said[k]) # 0 /\ Text(typed, done, said[k], places[k])
        /\ said[k] \in Seq(Symbols) /\ places[k] \in Seq(Nat)
    BY <1>1 DEF ConsoleInv, Said, n
  <2> QED
    BY <1>5, <2>1, EmptySeq
<1>7. Serial!IsText(line, place) /\ \A k \in DOMAIN place : ~Serial!EndsBetween(place[k], done)
  <2>1. DOMAIN place = 1 .. Len(place)
    BY <1>1, LenProperties
  <2> QED
    BY <1>1, <1>4, <1>5, <2>1 DEF ConsoleInv, Current, Open
<1>8. ASSUME NEW k \in 1 .. n + 1, NEW m \in 1 .. n + 1, k < m PROVE Apart(typed, all[k], all[m])
  <2>1. k \in 1 .. n
    BY <1>1, <1>8
  <2>2. CASE m \in 1 .. n
    BY <1>2, <1>8, <2>1, <2>2 DEF ConsoleInv, Said, n
  <2>3. CASE m = n + 1
    BY <1>2, <2>1, <2>3 DEF ConsoleInv, Said, n
  <2> QED
    BY <1>3, <2>2, <2>3
<1>9. \A k, m \in DOMAIN all : k < m =>
          \A x \in DOMAIN all[k], y \in DOMAIN all[m] :
              all[k][x] < all[m][y] /\ Serial!EndsBetween(all[k][x], all[m][y])
  BY <1>2, <1>4, <1>8 DEF Apart
<1>10. ASSUME NEW at \in Seq(Nat), NEW p, Covers(typed, at, p) PROVE Serial!Covered(at, p)
  <2>1. DOMAIN at = 1 .. Len(at)
    BY LenProperties
  <2> QED
    BY <1>4, <1>10, <2>1 DEF Covers, Serial!Covered
<1>11. ASSUME NEW p \in 1 .. done, typed[p] \notin {"\r", "\n"}
       PROVE  \E k \in DOMAIN all : Serial!Covered(all[k], p)
  <2>1. \/ Covers(typed, place, p)
        \/ \E k \in 1 .. n : Covers(typed, places[k], p)
    BY <1>11 DEF ConsoleInv, AllCovered, IsChar, n
  <2>2. n + 1 \in 1 .. n + 1 /\ \A k \in 1 .. n : k \in 1 .. n + 1
    BY <1>1
  <2>3. \E k \in 1 .. n + 1 : Covers(typed, all[k], p)
    BY <1>2, <2>1, <2>2
  <2> QED
    BY <1>2, <1>10, <2>3
<1> QED
  BY <1>1, <1>6, <1>7, <1>9, <1>11 DEF ConsoleLinesArrive, Serial!ConsoleLinesArrive, all

\* Wherever the driver cuts what is typed, and whenever the task is stopped and made
\* again, a line that ended comes out once, in order, cut to the buffer, and nothing
\* that is not of it.
THEOREM ConsoleLinesArriveHolds == Serial!Spec => []ConsoleLinesArrive
<1>1. Serial!Init => ConsoleInv
  <2> SUFFICES ASSUME Serial!Init PROVE ConsoleInv
    OBVIOUS
  <2>1. BufSize - 1 \in Nat /\ Len(<<>>) = 0
    BY TasksAssumption
  <2>2. /\ typed = <<>> /\ done = 0 /\ line = <<>> /\ said = <<>> /\ place = <<>> /\ places = <<>>
    BY DEF Serial!Init
  <2>3. ConsoleTyped
    BY <2>2 DEF ConsoleTyped
  <2>4. Current
    BY <2>1, <2>2 DEF Current, Text, Within, Open
  <2>5. Said /\ AllCovered
    BY <2>2 DEF Said, AllCovered
  <2> QED
    BY <2>3, <2>4, <2>5 DEF ConsoleInv
<1> QED
  BY <1>1, ConsoleStep, ConsoleImplied, PTL DEF Serial!Spec

-----------------------------------------------------------------------------
(* The LED.                                                                *)

LedTyped ==
    /\ ledPc \in {"top", "test", "lit", "dark", "pause"}
    /\ count \in Nat \ {0}
    /\ blinks \in Nat
    /\ seen \subseteq Nat

\* Before a blink some value the count had is still greater than the blinks so far;
\* when the test fails, the count of that moment is not.
BurstBounded ==
    /\ ledPc # "top" => count \in seen
    /\ ledPc = "test" => \E b \in seen : blinks <= b
    /\ ledPc \in {"lit", "dark"} => \E b \in seen : blinks < b
    /\ BurstInBetween

\* Every step keeps the types.
LEMMA StepLedTyped == LedTyped /\ [Led!Next]_(Led!vars) => LedTyped'
<1> SUFFICES ASSUME LedTyped, [Led!Next]_(Led!vars) PROVE LedTyped'
  OBVIOUS
<1>0. \A c \in 1 .. MaxCount : c \in Nat \ {0}
  BY TasksAssumption
<1>1. CASE Led!SetCount
  BY <1>0, <1>1 DEF Led!SetCount, LedTyped, Led!blinkVars
<1>2. CASE Led!SetEnabled
  BY <1>2 DEF Led!SetEnabled, LedTyped, Led!blinkVars
<1>3. CASE Led!Burst
  BY <1>3 DEF Led!Burst, LedTyped, Led!members
<1>4. CASE Led!Dark
  BY <1>4 DEF Led!Dark, LedTyped, Led!members
<1>5. CASE Led!Test
  BY <1>5 DEF Led!Test, LedTyped, Led!members
<1>6. CASE Led!Blink
  BY <1>6 DEF Led!Blink, LedTyped, Led!members
<1>7. CASE Led!Pause
  BY <1>7 DEF Led!Pause, LedTyped, Led!members
<1>8. CASE UNCHANGED Led!vars
  BY <1>8 DEF Led!vars, Led!members, Led!blinkVars, LedTyped
<1> QED
  BY <1>1, <1>2, <1>3, <1>4, <1>5, <1>6, <1>7, <1>8 DEF Led!Next, Led!Run

\* Every step keeps the burst between values the count had.
LEMMA StepBurst == LedTyped /\ BurstBounded /\ [Led!Next]_(Led!vars) => BurstBounded'
<1> SUFFICES ASSUME LedTyped, BurstBounded, [Led!Next]_(Led!vars) PROVE BurstBounded'
  OBVIOUS
<1> USE DEF BurstBounded, BurstInBetween, Led!BurstInBetween
<1>1. CASE Led!SetCount
  BY <1>1 DEF Led!SetCount, Led!blinkVars
<1>2. CASE Led!SetEnabled
  BY <1>2 DEF Led!SetEnabled, Led!blinkVars
<1>3. CASE Led!Burst
  <2>1. count \in Nat
    BY DEF LedTyped
  <2>2. ledPc' = "test" /\ blinks' = 0 /\ seen' = {count} /\ count' = count
    BY <1>3 DEF Led!Burst, Led!members
  <2>3. \E b \in seen' : blinks' <= b
    BY <2>1, <2>2
  <2> QED
    BY <2>2, <2>3
<1>4. CASE Led!Dark
  BY <1>4 DEF Led!Dark, Led!members
<1>5. CASE Led!Test
  <2>1. ledPc = "test" /\ UNCHANGED <<count, blinks, seen>> /\ count \in seen
    BY <1>5 DEF Led!Test, Led!members
  <2>2. CASE blinks < count
    <3>1. ledPc' = "lit"
      BY <1>5, <2>2 DEF Led!Test, Led!Goes
    <3> QED
      BY <2>1, <2>2, <3>1
  <2>3. CASE ~(blinks < count)
    <3>1. ledPc' = "pause"
      BY <1>5, <2>3 DEF Led!Test, Led!Goes
    <3>2. count <= blinks
      BY <2>3 DEF LedTyped
    <3> QED
      BY <2>1, <3>1, <3>2
  <2> QED
    BY <2>2, <2>3
<1>6. CASE Led!Blink
  <2>1. UNCHANGED <<count, seen>> /\ ledPc \in {"lit", "dark"} /\ count \in seen
    BY <1>6 DEF Led!Blink, Led!members
  <2>2. CASE ledPc = "lit"
    BY <1>6, <2>1, <2>2 DEF Led!Blink
  <2>3. CASE ledPc = "dark"
    <3>1. ledPc' = "test" /\ blinks' = blinks + 1
      BY <1>6, <2>3 DEF Led!Blink
    <3>2. PICK b \in seen : blinks < b
      BY <2>3
    <3>3. blinks \in Nat /\ b \in Nat
      BY DEF LedTyped
    <3>4. blinks' <= b
      BY <3>1, <3>2, <3>3
    <3> QED
      BY <2>1, <3>1, <3>4
  <2> QED
    BY <2>1, <2>2, <2>3
<1>7. CASE Led!Pause
  BY <1>7 DEF Led!Pause, Led!members
<1>8. CASE UNCHANGED Led!vars
  BY <1>8 DEF Led!vars, Led!members, Led!blinkVars
<1> QED
  BY <1>1, <1>2, <1>3, <1>4, <1>5, <1>6, <1>7, <1>8 DEF Led!Next, Led!Run

\* However the client changes the parameter in the middle of a burst, the burst is no
\* shorter than one and no longer than another of the values it had meanwhile.
THEOREM BurstInBetweenHolds == Led!Spec => []BurstInBetween
<1>1. Led!Init => LedTyped /\ BurstBounded
  BY TasksAssumption DEF Led!Init, LedTyped, BurstBounded, BurstInBetween, Led!BurstInBetween
<1>2. LedTyped /\ BurstBounded /\ [Led!Next]_(Led!vars) => LedTyped' /\ BurstBounded'
  BY StepLedTyped, StepBurst
<1>3. BurstBounded => BurstInBetween
  BY DEF BurstBounded
<1> QED
  BY <1>1, <1>2, <1>3, PTL DEF Led!Spec

-----------------------------------------------------------------------------
(* What is run.                                                            *)

\* In a behaviour of all three each part behaves as its own specification says: what is
\* proved of the parts holds where they run together.
THEOREM PartsTogether == MCSpec => Spec /\ Serial!Spec /\ Led!Spec
<1>1. MCInit => Init /\ Serial!Init /\ Led!Init
  BY DEF MCInit
<1>2. [MCNext]_allVars => [Next]_vars
  BY DEF MCNext, LedMoves, allVars
<1>3. [MCNext]_allVars => [Serial!Next]_(Serial!vars)
  <2>1. UNCHANGED consoleVars => UNCHANGED Serial!vars
    BY DEF consoleVars, Serial!vars, Serial!textVars
  <2> QED
    BY <2>1 DEF MCNext, LedMoves, allVars
<1>4. [MCNext]_allVars => [Led!Next]_(Led!vars)
  <2>1. UNCHANGED ledVars => UNCHANGED Led!vars
    BY DEF ledVars, Led!vars, Led!members, Led!blinkVars
  <2> QED
    BY <2>1 DEF MCNext, LedMoves, allVars
<1> QED
  BY <1>1, <1>2, <1>3, <1>4, PTL DEF MCSpec, Spec, Serial!Spec, Led!Spec
=============================================================================
