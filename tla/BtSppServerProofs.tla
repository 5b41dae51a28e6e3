--------------------------- MODULE BtSppServerProofs ---------------------------
(***************************************************************************)
(* Theorems about BtSppServer, for any number of restarts and links and    *)
(* whatever fails.  started_ is set by the last of a row of events that    *)
(* start() sets off; the invariant says that at most one such row is on    *)
(* its way, so that the end of one never marks a stack that a later stop() *)
(* has taken down.  The descriptor of a link is remembered in one member,  *)
(* g_fd; a second invariant says that the link events take turns, so that  *)
(* no link overwrites the descriptor of one that is still to be closed,    *)
(* and a third that the event of a link's end finds that link's own.       *)
(***************************************************************************)
EXTENDS BtSppServer, TLAPS

StartUp == {"init", "vfs register"}
LinkTypes == {"srv open", "close"}

Events == [type : StartUp \cup {"start"} \cup LinkTypes, ok : BOOLEAN, link : {0} \cup Link]

\* What start() and stop() work on.
Flags == spaced \in BOOLEAN /\ alive \in BOOLEAN /\ failed \in BOOLEAN

Calls ==
    /\ pc \in {"idle", "start", "return"}
    /\ name \in 0 .. MaxRestarts + 1
    /\ pc = "start" => name <= MaxRestarts
    /\ level \in 0 .. Up
    /\ served \in 0 .. Garbage /\ shown \in 0 .. Garbage

Links ==
    /\ links \in 0 .. MaxLinks
    /\ up \in {0} \cup Link /\ gfd \in {0} \cup Link
    /\ open \subseteq Link /\ holds \subseteq Link

\* The events that are on their way, at most one of them of a row.
Rows(s) ==
    /\ s \in Seq(Events)
    /\ \A i \in DOMAIN s : s[i].type = "srv open" => s[i].link \in Link
    /\ \A i, j \in DOMAIN s : s[i].type \in StartUp /\ s[j].type \in StartUp => i = j

NoRow(s) == \A i \in DOMAIN s : s[i].type \notin StartUp

\* A stack that is not whole is silent, and none is on its way once started_ is set.
OneRow ==
    /\ Rows(events)
    /\ started \in BOOLEAN /\ cbPc \in {"idle", "started"}
    /\ level # Up => events = <<>> /\ ~started /\ cbPc = "idle" /\ served = 0 /\ up = 0
    /\ started => cbPc = "idle"
    /\ started \/ cbPc = "started" => NoRow(events)

\* Between two "srv open" events there is a "close"; before the first; after the last;
\* anywhere.
OpensApart(s) ==
    \A i, j \in DOMAIN s :
        i < j /\ s[i].type = "srv open" /\ s[j].type = "srv open" =>
            \E k \in DOMAIN s : i < k /\ k < j /\ s[k].type = "close"
CloseBefore(s) ==
    \A j \in DOMAIN s :
        s[j].type = "srv open" => \E k \in DOMAIN s : k < j /\ s[k].type = "close"
CloseAfter(s) ==
    \A i \in DOMAIN s :
        s[i].type = "srv open" => \E k \in DOMAIN s : i < k /\ s[k].type = "close"
HasClose(s) == \E k \in DOMAIN s : s[k].type = "close"

\* Links take turns: the descriptor in g_fd, if it is open, is closed before another
\* one comes, and any other that is open has a connection to close it.
Turns ==
    /\ OpensApart(events)
    /\ gfd \in open => CloseBefore(events)
    /\ up = 0 => CloseAfter(events)
    /\ gfd \in open /\ up = 0 => HasClose(events)
    /\ open \subseteq holds \cup {gfd}

Inv == Flags /\ Calls /\ Links /\ OneRow /\ Turns

-----------------------------------------------------------------------------
(* Queues of events.                                                       *)

\* A sequence with one more element.
LEMMA Appended ==
    ASSUME NEW S, NEW s \in Seq(S), NEW e \in S
    PROVE  /\ Append(s, e) \in Seq(S)
           /\ DOMAIN Append(s, e) = 1 .. Len(s) + 1 /\ DOMAIN s = 1 .. Len(s) /\ Len(s) \in Nat
           /\ \A i \in DOMAIN s : Append(s, e)[i] = s[i]
           /\ Append(s, e)[Len(s) + 1] = e
OBVIOUS

\* A range that grows by one.
LEMMA OneMore ==
    ASSUME NEW n \in Nat
    PROVE  \A i \in 1 .. n + 1 : i \in 1 .. n \/ i = n + 1
OBVIOUS

\* A sequence without its head.
LEMMA Taken ==
    ASSUME NEW S, NEW s \in Seq(S), s # <<>>
    PROVE  /\ Tail(s) \in Seq(S)
           /\ Head(s) = s[1] /\ 1 \in DOMAIN s /\ Head(s) \in S
           /\ \A i \in DOMAIN Tail(s) : i + 1 \in DOMAIN s /\ Tail(s)[i] = s[i + 1] /\ i \in Nat /\ i # 0
OBVIOUS

\* Taking the head of the events keeps them in order.
LEMMA TakenRows ==
    ASSUME NEW s, Rows(s), s # <<>>
    PROVE  /\ Rows(Tail(s))
           /\ Head(s) \in Events
           /\ Head(s).type = "srv open" => Head(s).link \in Link
           /\ Head(s).type \in StartUp => NoRow(Tail(s))
           /\ NoRow(s) => NoRow(Tail(s))
<1> DEFINE t == Tail(s)
<1>1. /\ t \in Seq(Events)
      /\ Head(s) = s[1] /\ 1 \in DOMAIN s /\ Head(s) \in Events
      /\ \A i \in DOMAIN t : i + 1 \in DOMAIN s /\ t[i] = s[i + 1] /\ i \in Nat /\ i # 0
  BY Taken DEF Rows
<1> HIDE DEF t
<1>2. Rows(t)
  <2>1. ASSUME NEW i \in DOMAIN t, NEW j \in DOMAIN t,
               t[i].type \in StartUp, t[j].type \in StartUp
        PROVE  i = j
    <3>1. i + 1 = j + 1
      BY <1>1, <2>1 DEF Rows
    <3> QED
      BY <1>1, <3>1
  <2> QED
    BY <1>1, <2>1 DEF Rows
<1>3. (Head(s).type \in StartUp => NoRow(t)) /\ (NoRow(s) => NoRow(t))
  <2>1. ASSUME NEW i \in DOMAIN t, t[i].type \in StartUp, Head(s).type \in StartUp
        PROVE  FALSE
    <3>1. i + 1 = 1
      BY <1>1, <2>1 DEF Rows
    <3> QED
      BY <1>1, <3>1
  <2> QED
    BY <1>1, <2>1 DEF NoRow
<1> QED
  BY <1>1, <1>2, <1>3 DEF Rows, t

\* So does adding one that carries its link and is the only one of a row.
LEMMA AppendedRows ==
    ASSUME NEW s, Rows(s), NEW e \in Events,
           e.type = "srv open" => e.link \in Link,
           e.type \in StartUp => NoRow(s)
    PROVE  /\ Rows(Append(s, e))
           /\ NoRow(s) /\ e.type \notin StartUp => NoRow(Append(s, e))
<1> DEFINE t == Append(s, e)
<1>1. /\ t \in Seq(Events)
      /\ DOMAIN t = 1 .. Len(s) + 1 /\ DOMAIN s = 1 .. Len(s) /\ Len(s) \in Nat
      /\ \A i \in DOMAIN s : t[i] = s[i]
      /\ t[Len(s) + 1] = e
  BY Appended, ZenonT(60) DEF Rows
<1> HIDE DEF t
<1>2. \A i \in DOMAIN t : (i \in DOMAIN s /\ t[i] = s[i]) \/ (i = Len(s) + 1 /\ t[i] = e)
  <2>1. \A i \in 1 .. Len(s) + 1 : i \in 1 .. Len(s) \/ i = Len(s) + 1
    BY <1>1, OneMore
  <2> QED
    BY <1>1, <2>1, Zenon
<1>3. Rows(t)
  BY <1>1, <1>2 DEF Rows, NoRow
<1>4. NoRow(s) /\ e.type \notin StartUp => NoRow(t)
  BY <1>2 DEF NoRow
<1> QED
  BY <1>3, <1>4 DEF t

\* What Event and LinkEvent make is an event of the type asked for.
LEMMA NewEvents ==
    /\ \A type \in StartUp \cup {"start"}, ok \in BOOLEAN :
           /\ Event(type, ok) \in Events /\ Event(type, ok).type = type
    /\ \A type \in LinkTypes, l \in Link :
           /\ LinkEvent(type, l) \in Events /\ LinkEvent(type, l).type = type
           /\ LinkEvent(type, l).link = l
BY DEF Event, LinkEvent, Events, StartUp, LinkTypes

\* No events: no row.
LEMMA EmptyRows == Rows(<<>>) /\ NoRow(<<>>)
BY DEF Rows, NoRow

\* Nor is there a link that would have to wait for its turn.
LEMMA NoTurns == OpensApart(<<>>) /\ CloseAfter(<<>>) /\ CloseBefore(<<>>)
BY DEF OpensApart, CloseAfter, CloseBefore

\* Places in a sequence and in its tail.
LEMMA Shifted ==
    \A i, k \in Nat :
        /\ i + 1 \in Nat /\ i + 1 # 0
        /\ 1 < i + 1 <=> i # 0
        /\ i + 1 < k <=> i < k - 1
        /\ k < i + 1 <=> k - 1 < i
        /\ i < k <=> i + 1 < k + 1
OBVIOUS

\* Taking the head leaves the links taking turns; once it was a "srv open", a "close"
\* comes before the next one, and anywhere if it came after.
LEMMA TakenTurns ==
    ASSUME NEW s \in Seq(Events), s # <<>>
    PROVE  /\ OpensApart(s) => OpensApart(Tail(s))
           /\ CloseAfter(s) => CloseAfter(Tail(s))
           /\ Head(s).type # "close" /\ CloseBefore(s) => CloseBefore(Tail(s))
           /\ Head(s).type # "close" /\ HasClose(s) => HasClose(Tail(s))
           /\ Head(s).type = "srv open" =>
                  /\ ~CloseBefore(s)
                  /\ OpensApart(s) => CloseBefore(Tail(s))
                  /\ CloseAfter(s) => HasClose(Tail(s))
<1> DEFINE t == Tail(s)
<1>1. /\ t \in Seq(Events)
      /\ Head(s) = s[1] /\ 1 \in DOMAIN s
      /\ \A i \in DOMAIN t : i + 1 \in DOMAIN s /\ t[i] = s[i + 1] /\ i \in Nat /\ i # 0
      /\ \A i \in DOMAIN s : i # 1 => i - 1 \in DOMAIN t /\ t[i - 1] = s[i] /\ i \in Nat /\ i > 1
  OBVIOUS
<1> HIDE DEF t
\* A "close" of s after its place i is one of t.
<1>2. ASSUME NEW i \in Nat, NEW k \in DOMAIN s, s[k].type = "close",
             i < k, i # 0 \/ Head(s).type # "close"
      PROVE  k - 1 \in DOMAIN t /\ t[k - 1].type = "close" /\ k \in Nat
  <2>1. k # 1
    <3>1. CASE i # 0
      BY <1>2, <3>1, <1>1
    <3>2. CASE Head(s).type # "close"
      BY <1>2, <3>2, <1>1
    <3> QED
      BY <1>2, <3>1, <3>2
  <2> QED
    BY <1>1, <1>2, <2>1
<1>3. OpensApart(s) => OpensApart(t)
  <2> SUFFICES ASSUME OpensApart(s), NEW i \in DOMAIN t, NEW j \in DOMAIN t, i < j,
                      t[i].type = "srv open", t[j].type = "srv open"
               PROVE  \E k \in DOMAIN t : i < k /\ k < j /\ t[k].type = "close"
    BY DEF OpensApart
  <2>0. /\ i \in Nat /\ j \in Nat /\ i + 1 \in DOMAIN s /\ j + 1 \in DOMAIN s
        /\ s[i + 1].type = "srv open" /\ s[j + 1].type = "srv open"
    BY <1>1
  <2>4. i + 1 < j + 1 /\ i + 1 \in Nat /\ i + 1 # 0
    BY <2>0, Shifted, Zenon
  <2>1. PICK k \in DOMAIN s : i + 1 < k /\ k < j + 1 /\ s[k].type = "close"
    BY <2>0, <2>4 DEF OpensApart
  <2>2. k - 1 \in DOMAIN t /\ t[k - 1].type = "close" /\ k \in Nat
    BY <1>2, <2>4, <2>1
  <2>3. i < k - 1 /\ k - 1 < j
    BY <2>0, <2>1, <2>2, Shifted, Zenon
  <2> QED
    BY <2>2, <2>3
<1>4. CloseAfter(s) => CloseAfter(t)
  <2> SUFFICES ASSUME CloseAfter(s), NEW i \in DOMAIN t, t[i].type = "srv open"
               PROVE  \E k \in DOMAIN t : i < k /\ t[k].type = "close"
    BY DEF CloseAfter
  <2>0. i \in Nat /\ i + 1 \in DOMAIN s /\ s[i + 1].type = "srv open"
    BY <1>1
  <2>1. PICK k \in DOMAIN s : i + 1 < k /\ s[k].type = "close"
    BY <2>0 DEF CloseAfter
  <2>4. i + 1 \in Nat /\ i + 1 # 0
    BY <2>0, Shifted, Zenon
  <2>2. k - 1 \in DOMAIN t /\ t[k - 1].type = "close" /\ k \in Nat
    BY <1>2, <2>1, <2>4
  <2>3. i < k - 1
    BY <2>0, <2>1, <2>2, Shifted, Zenon
  <2> QED
    BY <2>2, <2>3
<1>5. Head(s).type # "close" /\ CloseBefore(s) => CloseBefore(t)
  <2> SUFFICES ASSUME Head(s).type # "close", CloseBefore(s), NEW j \in DOMAIN t,
                      t[j].type = "srv open"
               PROVE  \E k \in DOMAIN t : k < j /\ t[k].type = "close"
    BY DEF CloseBefore
  <2>0. j \in Nat /\ j + 1 \in DOMAIN s /\ s[j + 1].type = "srv open"
    BY <1>1
  <2>1. PICK k \in DOMAIN s : k < j + 1 /\ s[k].type = "close"
    BY <2>0 DEF CloseBefore
  <2>2. k - 1 \in DOMAIN t /\ t[k - 1].type = "close" /\ k \in Nat
    BY <1>1, <1>2, <2>1
  <2>3. k - 1 < j
    BY <2>0, <2>1, <2>2, Shifted, Zenon
  <2> QED
    BY <2>2, <2>3
<1>6. Head(s).type # "close" /\ HasClose(s) => HasClose(t)
  BY <1>1, <1>2 DEF HasClose
<1>7. ASSUME Head(s).type = "srv open"
      PROVE  /\ ~CloseBefore(s)
             /\ OpensApart(s) => CloseBefore(t)
             /\ CloseAfter(s) => HasClose(t)
  <2>1. ~CloseBefore(s)
    <3>1. ~\E k \in DOMAIN s : k < 1
      BY <1>1
    <3> QED
      BY <1>1, <1>7, <3>1 DEF CloseBefore
  <2>2. ASSUME OpensApart(s), NEW j \in DOMAIN t, t[j].type = "srv open"
        PROVE  \E k \in DOMAIN t : k < j /\ t[k].type = "close"
    <3>0. j \in Nat /\ j # 0 /\ j + 1 \in DOMAIN s /\ s[j + 1].type = "srv open"
      BY <1>1, <2>2
    <3>4. 1 < j + 1
      BY <3>0, Shifted, Zenon
    <3>1. PICK k \in DOMAIN s : 1 < k /\ k < j + 1 /\ s[k].type = "close"
      BY <1>1, <1>7, <2>2, <3>0, <3>4 DEF OpensApart
    <3>2. k - 1 \in DOMAIN t /\ t[k - 1].type = "close" /\ k \in Nat
      BY <1>2, <3>1
    <3>3. k - 1 < j
      BY <3>0, <3>1, <3>2, Shifted, Zenon
    <3> QED
      BY <3>2, <3>3
  <2>3. ASSUME CloseAfter(s) PROVE HasClose(t)
    <3>1. PICK k \in DOMAIN s : 1 < k /\ s[k].type = "close"
      BY <1>1, <1>7, <2>3 DEF CloseAfter
    <3> QED
      BY <1>2, <3>1 DEF HasClose
  <2> QED
    BY <2>1, <2>2, <2>3 DEF CloseBefore
<1> QED
  BY <1>3, <1>4, <1>5, <1>6, <1>7 DEF t

\* A "srv open" is added only after the "close" of what came before; a "close" any time.
LEMMA AppendedTurns ==
    ASSUME NEW s \in Seq(Events), NEW e \in Events
    PROVE  LET t == Append(s, e) IN
           /\ OpensApart(s) /\ (e.type = "srv open" => CloseAfter(s)) => OpensApart(t)
           /\ CloseAfter(s) /\ e.type # "srv open" => CloseAfter(t)
           /\ CloseBefore(s) /\ (e.type = "srv open" => HasClose(s)) => CloseBefore(t)
           /\ HasClose(s) => HasClose(t)
           /\ e.type = "close" => CloseAfter(t) /\ HasClose(t)
<1> DEFINE t == Append(s, e)
           n == Len(s) + 1
<1>1. /\ DOMAIN t = 1 .. n /\ DOMAIN s = 1 .. Len(s) /\ Len(s) \in Nat
      /\ \A i \in DOMAIN s : t[i] = s[i] /\ i \in DOMAIN t /\ i \in Nat /\ i < n
      /\ t[n] = e /\ n \in DOMAIN t /\ n \in Nat
      /\ \A i \in DOMAIN t : i = n \/ i \in DOMAIN s
      /\ \A i, j \in DOMAIN t : i < j => i # n
  OBVIOUS
<1> HIDE DEF t, n
<1>2. OpensApart(s) /\ (e.type = "srv open" => CloseAfter(s)) => OpensApart(t)
  <2> SUFFICES ASSUME OpensApart(s), e.type = "srv open" => CloseAfter(s),
                      NEW i \in DOMAIN t, NEW j \in DOMAIN t, i < j,
                      t[i].type = "srv open", t[j].type = "srv open"
               PROVE  \E k \in DOMAIN t : i < k /\ k < j /\ t[k].type = "close"
    BY DEF OpensApart
  <2>1. i \in DOMAIN s /\ (j \in DOMAIN s \/ j = n)
    BY <1>1, Zenon
  <2>2. CASE j \in DOMAIN s
    <3>0. s[i].type = "srv open" /\ s[j].type = "srv open"
      BY <1>1, <2>1, <2>2, Zenon
    <3>1. PICK k \in DOMAIN s : i < k /\ k < j /\ s[k].type = "close"
      BY <2>1, <2>2, <3>0, Zenon DEF OpensApart
    <3> QED
      BY <1>1, <3>1
  <2>3. CASE j = n
    <3>1. PICK k \in DOMAIN s : i < k /\ s[k].type = "close"
      BY <1>1, <2>1, <2>3 DEF CloseAfter
    <3> QED
      BY <1>1, <2>3, <3>1
  <2> QED
    BY <2>1, <2>2, <2>3
<1>3. CloseAfter(s) /\ e.type # "srv open" => CloseAfter(t)
  BY <1>1 DEF CloseAfter
<1>4. CloseBefore(s) /\ (e.type = "srv open" => HasClose(s)) => CloseBefore(t)
  BY <1>1, ZenonT(60) DEF CloseBefore, HasClose
<1>5. HasClose(s) => HasClose(t)
  BY <1>1 DEF HasClose
<1>6. e.type = "close" => CloseAfter(t) /\ HasClose(t)
  BY <1>1 DEF CloseAfter, HasClose
<1> QED
  BY <1>2, <1>3, <1>4, <1>5, <1>6 DEF t

-----------------------------------------------------------------------------
(* Every step preserves the invariant.                                     *)

\* The invariant holds before the first start().
LEMMA InitInv == Init => Inv
<1> SUFFICES ASSUME Init PROVE Inv
  OBVIOUS
<1>1. Flags
  BY DEF Init, Flags
<1>2. Calls
  <2>1. name = 0 /\ level = 0 /\ served = 0 /\ shown = 0 /\ pc = "start"
    BY DEF Init
  <2> QED
    BY <2>1, BoundsAssumption DEF Calls, Up, Garbage
<1>3. Links
  <2>1. links = 0 /\ up = 0 /\ gfd = 0 /\ open = {} /\ holds = {}
    BY DEF Init
  <2> QED
    BY <2>1, BoundsAssumption DEF Links, Link
<1>4. OneRow
  BY EmptyRows DEF Init, OneRow, Up
<1>5. Turns
  <2>1. events = <<>> /\ open = {}
    BY DEF Init
  <2> QED
    BY <2>1, NoTurns DEF Turns
<1> QED
  BY <1>1, <1>2, <1>3, <1>4, <1>5 DEF Inv

\* Every step keeps the flags Boolean.
LEMMA StepFlags == Flags /\ [Next]_vars => Flags'
<1> SUFFICES ASSUME Flags, [Next]_vars PROVE Flags'
  OBVIOUS
<1>1. CASE Next
  BY <1>1
  DEF Flags, Next, SppCb, Restart, Start, StartReturns, StringDies, OnInit, OnVfsRegister,
      OnVfsRegisterDone, OnStart, OnSrvOpen, OnClose, PhoneConnects, PhoneLeaves,
      ConnectionCloses, startVars, serverVars, linkVars
<1>2. CASE UNCHANGED vars
  BY <1>2 DEF Flags, vars, startVars
<1> QED
  BY <1>1, <1>2

\* Every step keeps the call, the name and the level of the stack in range.
LEMMA StepCalls == Calls /\ [Next]_vars => Calls'
<1> SUFFICES ASSUME Calls, [Next]_vars PROVE Calls'
  OBVIOUS
<1>0. ASSUME UNCHANGED <<pc, name>>, level' \in 0 .. Up, served' \in 0 .. Garbage, shown' \in 0 .. Garbage
      PROVE  Calls'
  BY <1>0 DEF Calls
<1>1. CASE Restart
  <2>1. /\ pc' = "start" /\ name' = name /\ name <= MaxRestarts /\ shown' = shown
        /\ level' \in {0, level} /\ served' \in {0, served}
    BY <1>1 DEF Restart, StopStack
  <2> QED
    BY <2>1, BoundsAssumption DEF Calls, Up, Garbage
<1>2. CASE Start
  <2>1. /\ pc = "start" /\ pc' = "return" /\ name' = name + 1 /\ UNCHANGED <<served, shown>>
        /\ level' \in 0 .. Up
    BY <1>2 DEF Start, serverVars, Calls, Up
  <2> QED
    BY <2>1, BoundsAssumption DEF Calls, Up, Garbage
<1>3. CASE StartReturns
  BY <1>3 DEF StartReturns, serverVars, Calls
<1>4. Name \subseteq 0 .. Garbage
  BY BoundsAssumption DEF Calls, Name, Garbage
<1>5. CASE OnInit
  BY <1>0, <1>5 DEF OnInit, startVars, serverVars, Calls
<1>6. CASE OnVfsRegister
  <2>1. UNCHANGED <<pc, name, level, shown>> /\ (served' = served \/ served' \in Name)
    BY <1>6 DEF OnVfsRegister, startVars
  <2> QED
    BY <1>0, <1>4, <2>1 DEF Calls
<1>7. CASE OnVfsRegisterDone
  BY <1>0, <1>7 DEF OnVfsRegisterDone, startVars, Calls
<1>8. CASE OnStart
  <2>1. UNCHANGED <<pc, name, level, served>> /\ (shown' = shown \/ shown' \in Name)
    BY <1>8 DEF OnStart, startVars
  <2> QED
    BY <1>0, <1>4, <2>1 DEF Calls
<1>9. CASE OnSrvOpen \/ OnClose \/ PhoneConnects \/ PhoneLeaves \/ ConnectionCloses
  BY <1>0, <1>9
  DEF OnSrvOpen, OnClose, PhoneConnects, PhoneLeaves, ConnectionCloses, startVars, serverVars, Calls
<1>10. CASE UNCHANGED vars
  BY <1>0, <1>10 DEF vars, startVars, serverVars, Calls
<1> QED
  BY <1>1, <1>2, <1>3, <1>5, <1>6, <1>7, <1>8, <1>9, <1>10 DEF Next, SppCb

\* Every step keeps the links and the descriptors in range.
LEMMA StepLinks == Links /\ OneRow /\ [Next]_vars => Links'
<1> SUFFICES ASSUME Links, OneRow, [Next]_vars PROVE Links'
  OBVIOUS
<1> USE BoundsAssumption DEF Links
<1>1. CASE Restart
  BY <1>1 DEF Restart, StopStack
<1>2. CASE Start \/ StartReturns \/ OnInit \/ OnVfsRegister \/ OnVfsRegisterDone \/ OnStart
  BY <1>2 DEF Start, StartReturns, OnInit, OnVfsRegister, OnVfsRegisterDone, OnStart, linkVars
<1>3. CASE OnSrvOpen
  <2>1. Head(events).link \in Link
    BY <1>3, TakenRows DEF OnSrvOpen, Handle, OneRow
  <2> QED
    BY <1>3, <2>1 DEF OnSrvOpen
<1>4. CASE OnClose
  BY <1>4 DEF OnClose, CloseRemembered
<1>5. CASE PhoneConnects
  <2>1. links < MaxLinks /\ links' = links + 1 /\ up' = links + 1 /\ UNCHANGED <<open, holds, gfd>>
    BY <1>5 DEF PhoneConnects
  <2> QED
    BY <2>1 DEF Link
<1>6. CASE PhoneLeaves
  BY <1>6 DEF PhoneLeaves, LinkEnds
<1>7. CASE ConnectionCloses
  BY <1>7 DEF ConnectionCloses, LinkEnds
<1>8. CASE UNCHANGED vars
  BY <1>8 DEF vars, linkVars
<1> QED
  BY <1>1, <1>2, <1>3, <1>4, <1>5, <1>6, <1>7, <1>8 DEF Next, SppCb

\* No step starts a second row of events while one is on its way: start() sets one
\* off only on a stack that was taken down whole, and one that is down is silent.
LEMMA StepOneRow == Calls /\ Links /\ OneRow /\ [Next]_vars => OneRow'
<1> SUFFICES ASSUME Calls, Links, OneRow, [Next]_vars PROVE OneRow'
  OBVIOUS
<1>0. /\ Rows(events) /\ (started \/ cbPc = "started" => NoRow(events))
      /\ started \in BOOLEAN /\ cbPc \in {"idle", "started"}
      /\ level # Up => events = <<>> /\ ~started /\ cbPc = "idle" /\ served = 0 /\ up = 0
      /\ started => cbPc = "idle"
  BY DEF OneRow
<1>1. CASE Restart
  <2>1. CASE started
    <3>1. level' = 0 /\ started' = FALSE /\ served' = 0 /\ events' = <<>> /\ up' = 0 /\ cbPc' = "idle"
      BY <1>0, <1>1, <2>1 DEF Restart, StopStack, StartedCleared, EventsGone
    <3> QED
      BY <3>1, EmptyRows DEF OneRow
  <2>2. CASE ~started
    BY <1>0, <1>1, <2>2 DEF Restart, StopStack, OneRow
  <2> QED
    BY <2>1, <2>2
<1>2. CASE Start
  <2>1. UNCHANGED <<started, cbPc, served, up>>
    BY <1>2 DEF Start, serverVars, linkVars
  <2>2. CASE level # 0
    BY <1>0, <1>2, <2>1, <2>2 DEF Start, OneRow
  <2>3. CASE level = 0
    <3>1. events = <<>> /\ ~started /\ cbPc = "idle" /\ served = 0 /\ up = 0
      BY <1>0, <2>3 DEF Up
    <3>2. CASE level' = Up /\ \E ok \in Outcomes : events' = Append(events, Event("init", ok))
      <4>1. Rows(events')
        <5>1. PICK ok \in BOOLEAN : events' = Append(events, Event("init", ok))
          BY <3>2 DEF Outcomes
        <5>2. Event("init", ok) \in Events /\ Event("init", ok).type = "init"
          BY NewEvents DEF StartUp
        <5> QED
          BY <3>1, <5>1, <5>2, EmptyRows, AppendedRows
      <4> QED
        BY <2>1, <3>1, <3>2, <4>1 DEF OneRow
    <3>3. CASE events' = events
      BY <2>1, <3>1, <3>3, EmptyRows DEF OneRow
    <3> QED
      BY <1>2, <2>3, <3>2, <3>3 DEF Start
  <2> QED
    BY <2>2, <2>3
<1>3. CASE StartReturns
  BY <1>0, <1>3 DEF StartReturns, serverVars, linkVars, OneRow
<1>4. ASSUME events # <<>>, UNCHANGED level
      PROVE  level = Up /\ level' = Up
  BY <1>0, <1>4
<1>5. CASE OnInit
  <2>1. events # <<>> /\ Head(events).type = "init" /\ UNCHANGED <<level, cbPc, started, served, up>>
    BY <1>5 DEF OnInit, Handle, startVars, serverVars, linkVars
  <2>2. Rows(Tail(events)) /\ NoRow(Tail(events)) /\ ~started /\ cbPc = "idle"
    <3>1. Rows(Tail(events)) /\ NoRow(Tail(events))
      BY <1>0, <2>1, TakenRows DEF StartUp
    <3>2. ~NoRow(events)
      BY <1>0, <2>1, Taken DEF NoRow, StartUp, Rows
    <3> QED
      BY <1>0, <3>1, <3>2
  <2>3. Rows(events')
    <3>1. CASE events' = Tail(events)
      BY <2>2, <3>1
    <3>2. CASE \E ok \in Outcomes : events' = Append(Tail(events), Event("vfs register", ok))
      <4>1. PICK ok \in BOOLEAN : events' = Append(Tail(events), Event("vfs register", ok))
        BY <3>2 DEF Outcomes
      <4>2. Event("vfs register", ok) \in Events /\ Event("vfs register", ok).type = "vfs register"
        BY NewEvents DEF StartUp
      <4> QED
        BY <2>2, <4>1, <4>2, AppendedRows
    <3> QED
      BY <1>5, <3>1, <3>2 DEF OnInit, Answers
  <2> QED
    BY <1>4, <2>1, <2>2, <2>3 DEF OneRow
<1>6. CASE OnVfsRegister
  <2>1. events # <<>> /\ Head(events).type = "vfs register" /\ UNCHANGED <<level, started, up>>
    BY <1>6 DEF OnVfsRegister, Handle, startVars, linkVars
  <2>2. Rows(Tail(events)) /\ NoRow(Tail(events)) /\ ~started /\ cbPc = "idle"
    <3>1. Rows(Tail(events)) /\ NoRow(Tail(events))
      BY <1>0, <2>1, TakenRows DEF StartUp
    <3>2. ~NoRow(events)
      BY <1>0, <2>1, Taken DEF NoRow, StartUp, Rows
    <3> QED
      BY <1>0, <3>1, <3>2
  <2>3. Rows(events') /\ NoRow(events')
    <3>1. CASE events' = Tail(events)
      BY <2>2, <3>1
    <3>2. CASE \E ok \in Outcomes : events' = Append(Tail(events), Event("start", ok))
      <4>1. "start" \notin StartUp
        BY DEF StartUp
      <4>2. PICK ok \in BOOLEAN : events' = Append(Tail(events), Event("start", ok))
        BY <3>2 DEF Outcomes
      <4>3. Event("start", ok) \in Events /\ Event("start", ok).type = "start"
        BY NewEvents
      <4> QED
        BY <2>2, <4>1, <4>2, <4>3, AppendedRows
    <3> QED
      BY <1>6, <3>1, <3>2 DEF OnVfsRegister, Answers
  <2>4. cbPc' \in {"idle", "started"}
    BY <1>6, <2>2 DEF OnVfsRegister
  <2> QED
    BY <1>4, <2>1, <2>2, <2>3, <2>4 DEF OneRow
<1>7. CASE OnVfsRegisterDone
  BY <1>0, <1>7 DEF OnVfsRegisterDone, startVars, linkVars, OneRow
<1>8. CASE OnStart \/ OnSrvOpen \/ OnClose
  <2>1. events # <<>> /\ events' = Tail(events) /\ UNCHANGED <<level, cbPc, started, served, up>>
    BY <1>8 DEF OnStart, OnSrvOpen, OnClose, Handle, startVars, serverVars, linkVars
  <2>2. Rows(events') /\ (NoRow(events) => NoRow(events'))
    BY <1>0, <2>1, TakenRows
  <2> QED
    BY <1>0, <1>4, <2>1, <2>2 DEF OneRow
<1>9. ASSUME NEW type \in LinkTypes, NEW l \in Link,
             events' = Append(events, LinkEvent(type, l))
      PROVE  Rows(events') /\ (NoRow(events) => NoRow(events'))
  <2>1. type \notin StartUp
    BY DEF LinkTypes, StartUp
  <2> QED
    BY <1>0, <1>9, <2>1, NewEvents, AppendedRows
<1>10. CASE PhoneConnects
  <2>1. /\ served # 0 /\ links + 1 \in Link
        /\ events' = Append(events, LinkEvent("srv open", links + 1))
        /\ UNCHANGED <<level, cbPc, started, served>>
    <3>1. links < MaxLinks /\ links \in 0 .. MaxLinks /\ MaxLinks \in Nat
      BY <1>10, BoundsAssumption DEF PhoneConnects, Links
    <3>2. links + 1 \in Link
      BY <3>1 DEF Link
    <3> QED
      BY <1>10, <3>2 DEF PhoneConnects, startVars, serverVars
  <2>2. Rows(events') /\ (NoRow(events) => NoRow(events'))
    BY <1>9, <2>1 DEF LinkTypes
  <2> QED
    BY <1>0, <2>1, <2>2 DEF OneRow
<1>11. CASE PhoneLeaves \/ (ConnectionCloses /\ LinkEnds)
  <2>1. /\ up # 0 /\ up \in Link /\ up' = 0
        /\ events' = Append(events, LinkEvent("close", up))
        /\ UNCHANGED <<level, cbPc, started, served>>
    BY <1>11, BoundsAssumption
    DEF PhoneLeaves, ConnectionCloses, LinkEnds, startVars, serverVars, Links, Link
  <2>2. Rows(events') /\ (NoRow(events) => NoRow(events'))
    BY <1>9, <2>1 DEF LinkTypes
  <2> QED
    BY <1>0, <2>1, <2>2 DEF OneRow
<1>12. CASE ConnectionCloses /\ UNCHANGED <<up, events>>
  BY <1>0, <1>12 DEF ConnectionCloses, startVars, serverVars, OneRow
<1>13. CASE UNCHANGED vars
  BY <1>0, <1>13 DEF vars, startVars, serverVars, linkVars, OneRow
<1>14. ConnectionCloses => LinkEnds \/ UNCHANGED <<up, events>>
  BY DEF ConnectionCloses
<1> QED
  BY <1>1, <1>2, <1>3, <1>5, <1>6, <1>7, <1>8, <1>10, <1>11, <1>12, <1>13, <1>14 DEF Next, SppCb

\* Every step leaves the links taking turns: the phone opens one only when its last one
\* has ended, whose "close" is then on its way if its descriptor is open.
LEMMA StepTurns == Links /\ OneRow /\ Turns /\ [Next]_vars => Turns'
<1> SUFFICES ASSUME Links, OneRow, Turns, [Next]_vars PROVE Turns'
  OBVIOUS
<1>0. /\ events \in Seq(Events)
      /\ open \subseteq Link /\ up \in {0} \cup Link /\ 0 \notin Link
      /\ OpensApart(events)
      /\ gfd \in open => CloseBefore(events)
      /\ up = 0 => CloseAfter(events)
      /\ gfd \in open /\ up = 0 => HasClose(events)
      /\ open \subseteq holds \cup {gfd}
  <2>1. 0 \notin Link
    BY BoundsAssumption DEF Link
  <2> QED
    BY <2>1, Zenon DEF Turns, OneRow, Rows, Links
\* An event of the start-up changes nothing for the links.
<1>1. ASSUME NEW type \in StartUp \cup {"start"}, NEW s \in Seq(Events),
             OpensApart(s), gfd \in open => CloseBefore(s),
             up = 0 => CloseAfter(s), gfd \in open /\ up = 0 => HasClose(s),
             \/ events' = s
             \/ \E ok \in Outcomes : events' = Append(s, Event(type, ok)),
             UNCHANGED <<open, gfd, up, holds>>
      PROVE  Turns'
  <2>1. CASE events' = s
    BY <1>0, <1>1, <2>1 DEF Turns
  <2>2. CASE \E ok \in Outcomes : events' = Append(s, Event(type, ok))
    <3>1. PICK ok \in BOOLEAN : events' = Append(s, Event(type, ok))
      BY <2>2 DEF Outcomes
    <3>2. Event(type, ok) \in Events /\ Event(type, ok).type = type
      BY NewEvents
    <3>3. Event(type, ok).type # "srv open"
      BY <3>2 DEF StartUp
    <3>4. /\ OpensApart(events')
          /\ CloseAfter(s) => CloseAfter(events')
          /\ CloseBefore(s) => CloseBefore(events')
          /\ HasClose(s) => HasClose(events')
      BY <1>1, <3>1, <3>2, <3>3, AppendedTurns
    <3> QED
      BY <1>0, <1>1, <3>4 DEF Turns
  <2> QED
    BY <1>1, <2>1, <2>2
<1>2. ASSUME events # <<>>, Head(events).type \notin LinkTypes
      PROVE  /\ Tail(events) \in Seq(Events)
             /\ OpensApart(Tail(events)) /\ (gfd \in open => CloseBefore(Tail(events)))
             /\ up = 0 => CloseAfter(Tail(events))
             /\ gfd \in open /\ up = 0 => HasClose(Tail(events))
  BY <1>0, <1>2, Taken, TakenTurns DEF LinkTypes
<1>3. CASE Restart
  <2>1. CASE started
    <3>1. events' = <<>> /\ open' = {}
      BY <1>3, <2>1 DEF Restart, StopStack, EventsGone
    <3> QED
      BY <3>1, NoTurns DEF Turns
  <2>2. CASE ~started
    <3>1. UNCHANGED <<events, up, open, holds, gfd>>
      BY <1>3, <2>2 DEF Restart, StopStack
    <3> QED
      BY <3>1 DEF Turns
  <2> QED
    BY <2>1, <2>2
<1>4. CASE Start
  <2>1. UNCHANGED <<open, gfd, up, holds>>
    BY <1>4 DEF Start, linkVars
  <2>2. events' = events \/ \E ok \in Outcomes : events' = Append(events, Event("init", ok))
    BY <1>4 DEF Start
  <2>3. "init" \in StartUp \cup {"start"}
    BY DEF StartUp
  <2> QED
    BY <1>0, <1>1, <2>1, <2>2, <2>3
<1>5. CASE StartReturns \/ OnVfsRegisterDone \/ UNCHANGED vars
  <2>1. UNCHANGED <<events, up, open, holds, gfd>>
    BY <1>5 DEF StartReturns, OnVfsRegisterDone, vars, linkVars
  <2> QED
    BY <2>1 DEF Turns
<1>6. CASE OnInit \/ OnVfsRegister \/ OnStart
  <2>1. /\ events # <<>> /\ Head(events).type \in StartUp \cup {"start"}
        /\ UNCHANGED <<open, gfd, up, holds>>
    BY <1>6 DEF OnInit, OnVfsRegister, OnStart, Handle, linkVars, StartUp
  <2>2. Head(events).type \notin LinkTypes
    BY <2>1 DEF StartUp, LinkTypes
  <2>3. \E type \in StartUp \cup {"start"} :
            \/ events' = Tail(events)
            \/ \E ok \in Outcomes : events' = Append(Tail(events), Event(type, ok))
    BY <1>6 DEF OnInit, OnVfsRegister, OnStart, Answers, StartUp
  <2> QED
    BY <1>1, <1>2, <2>1, <2>2, <2>3
<1>7. CASE OnSrvOpen
  <2>1. PICK fd : /\ events # <<>> /\ Head(events).type = "srv open" /\ events' = Tail(events)
                  /\ open' = open \cup {fd} /\ gfd' = fd
                  /\ holds' \in {holds \cup {fd}, holds} /\ up' = up
    BY <1>7 DEF OnSrvOpen, Handle
  <2>2. /\ ~CloseBefore(events) /\ OpensApart(Tail(events)) /\ CloseBefore(Tail(events))
        /\ CloseAfter(events) => CloseAfter(Tail(events)) /\ HasClose(Tail(events))
    BY <1>0, <2>1, TakenTurns
  <2>3. open \subseteq holds
    BY <1>0, <2>2
  <2> QED
    BY <1>0, <2>1, <2>2, <2>3 DEF Turns
<1>8. CASE OnClose
  <2>1. /\ events # <<>> /\ Head(events).type = "close" /\ events' = Tail(events)
        /\ open' = open \ {gfd} /\ gfd' = 0 /\ UNCHANGED <<up, holds>>
    BY <1>8 DEF OnClose, Handle, CloseRemembered
  <2>2. OpensApart(Tail(events)) /\ (CloseAfter(events) => CloseAfter(Tail(events)))
    BY <1>0, <2>1, TakenTurns
  <2>3. gfd' \notin open'
    BY <1>0, <2>1
  <2> QED
    BY <1>0, <2>1, <2>2, <2>3 DEF Turns
<1>9. CASE PhoneConnects
  <2>1. /\ up = 0 /\ up' = links + 1 /\ links + 1 # 0 /\ links + 1 \in Link
        /\ events' = Append(events, LinkEvent("srv open", links + 1))
        /\ UNCHANGED <<open, holds, gfd>>
    <3>1. links < MaxLinks /\ links \in 0 .. MaxLinks /\ MaxLinks \in Nat
      BY <1>9, BoundsAssumption DEF PhoneConnects, Links
    <3>2. links + 1 \in Link /\ links + 1 # 0
      BY <3>1 DEF Link
    <3> QED
      BY <1>9, <3>2 DEF PhoneConnects
  <2>2. LinkEvent("srv open", links + 1) \in Events
    BY <2>1, NewEvents DEF LinkTypes
  <2>3. OpensApart(events') /\ (CloseBefore(events) /\ HasClose(events) => CloseBefore(events'))
    BY <1>0, <2>1, <2>2, AppendedTurns
  <2> QED
    BY <1>0, <2>1, <2>3 DEF Turns
<1>10. CASE PhoneLeaves \/ ConnectionCloses
  <2>1. open' \subseteq open /\ open' \subseteq holds' \cup {gfd} /\ gfd' = gfd
    BY <1>0, <1>10 DEF PhoneLeaves, ConnectionCloses
  <2>2. CASE UNCHANGED <<up, events>>
    BY <1>0, <2>1, <2>2 DEF Turns
  <2>3. CASE up \in Link /\ LinkEnds
    <3>1. events' = Append(events, LinkEvent("close", up))
      BY <2>3 DEF LinkEnds
    <3>2. LinkEvent("close", up) \in Events /\ LinkEvent("close", up).type = "close"
      BY <2>3, NewEvents DEF LinkTypes
    <3>3. /\ OpensApart(events') /\ CloseAfter(events') /\ HasClose(events')
          /\ CloseBefore(events) => CloseBefore(events')
      BY <1>0, <3>1, <3>2, AppendedTurns
    <3> QED
      BY <1>0, <2>1, <3>3 DEF Turns
  <2>4. ConnectionCloses => UNCHANGED <<up, events>> \/ (up \in Link /\ LinkEnds)
    BY DEF ConnectionCloses, Links
  <2>5. PhoneLeaves => up \in Link /\ LinkEnds
    BY <1>0 DEF PhoneLeaves
  <2> QED
    BY <1>10, <2>2, <2>3, <2>4, <2>5
<1> QED
  BY <1>3, <1>4, <1>5, <1>6, <1>7, <1>8, <1>9, <1>10 DEF Next, SppCb

\* The invariant holds in every reachable state.
LEMMA Invariant == Spec => []Inv
<1>1. Inv /\ [Next]_vars => Inv'
  BY StepFlags, StepCalls, StepLinks, StepOneRow, StepTurns DEF Inv
<1> QED
  BY InitInv, <1>1, PTL DEF Spec

\* The members keep their types, and a stack that is not whole sends no event.
THEOREM TypeCorrect == Spec => []TypeOK
<1>1. Inv => TypeOK
  BY DEF Inv, Flags, Calls, Links, OneRow, TypeOK, Versions
<1> QED
  BY Invariant, <1>1, PTL

\* started_, which stop() relies on, is never set while the stack is not whole, whatever
\* fails and however many restarts there are.
THEOREM StartedIsUpHolds == Spec => []StartedIsUp
<1>1. Inv => StartedIsUp
  BY DEF Inv, OneRow, StartedIsUp
<1> QED
  BY Invariant, <1>1, PTL

\* However links come and go, and whether or not a connection could be started for one:
\* when all is handled and no connection is left, no descriptor is open.
THEOREM NoLeakHolds == Spec => []NoLeak
<1>1. Turns => NoLeak
  <2> SUFFICES ASSUME Turns, events = <<>>, up = 0, holds = {} PROVE open = {}
    BY DEF NoLeak
  <2>1. ~HasClose(events)
    BY DEF HasClose
  <2>2. gfd \notin open /\ open \subseteq {gfd}
    BY <2>1 DEF Turns
  <2> QED
    BY <2>2
<1>2. Inv => Turns
  BY DEF Inv
<1> QED
  BY Invariant, <1>1, <1>2, PTL
-----------------------------------------------------------------------------
(* The event of a link's end closes the descriptor of that link.           *)

\* No link opens between two places of a sequence.
NoOpen(s, from, to) == \A k \in DOMAIN s : from < k /\ k < to => s[k].type # "srv open"

\* A "close" is of the link whose "srv open" is the last before it; one that comes
\* before any is of the link fd; the last "srv open" is of the link l; there is none.
Matched(s) ==
    \A i, j \in DOMAIN s :
        i < j /\ s[i].type = "srv open" /\ s[j].type = "close" /\ NoOpen(s, i, j) =>
            s[i].link = s[j].link
FirstIs(s, fd) == \A j \in DOMAIN s : s[j].type = "close" /\ NoOpen(s, 0, j) => s[j].link = fd
LastIs(s, l) ==
    \A i \in DOMAIN s : s[i].type = "srv open" /\ NoOpen(s, i, Len(s) + 1) => s[i].link = l
NoneOpens(s) == NoOpen(s, 0, Len(s) + 1)

\* g_fd is the descriptor of the link that is up, or of the next one that closes.
Own ==
    /\ Matched(events)
    /\ gfd \in open => FirstIs(events, gfd)
    /\ up # 0 => LastIs(events, up)
    /\ up # 0 /\ gfd \in open /\ NoneOpens(events) => gfd = up

\* Nothing of it is about a sequence without events.
LEMMA NoOwn == Matched(<<>>) /\ \A l : FirstIs(<<>>, l)
<1>1. \A i : i \notin DOMAIN <<>>
  OBVIOUS
<1> QED
  BY <1>1, Zenon DEF Matched, FirstIs

\* Taking the head leaves every "close" with its link.
LEMMA TakenOwn ==
    ASSUME NEW s \in Seq(Events), s # <<>>, NEW l
    PROVE  /\ Matched(s) => Matched(Tail(s))
           /\ LastIs(s, l) => LastIs(Tail(s), l)
           /\ Head(s).type = "close" /\ FirstIs(s, l) => Head(s).link = l
           /\ Head(s).type # "srv open" =>
                  /\ FirstIs(s, l) => FirstIs(Tail(s), l)
                  /\ NoneOpens(Tail(s)) => NoneOpens(s)
           /\ Head(s).type = "srv open" =>
                  /\ Matched(s) => FirstIs(Tail(s), Head(s).link)
                  /\ LastIs(s, l) /\ NoneOpens(Tail(s)) => Head(s).link = l
<1> DEFINE t == Tail(s)
<1>1. /\ Head(s) = s[1] /\ 1 \in DOMAIN s /\ Len(s) = Len(t) + 1 /\ Len(t) + 1 \in Nat
      /\ \A i \in DOMAIN t : i + 1 \in DOMAIN s /\ t[i] = s[i + 1] /\ i \in Nat /\ i # 0
      /\ \A i \in DOMAIN s : i # 1 => i - 1 \in DOMAIN t /\ t[i - 1] = s[i]
      /\ \A i \in DOMAIN s : i \in Nat /\ i # 0
  OBVIOUS
<1> HIDE DEF t
\* What no link opens in, in t, is the same a place later in s.
<1>2. ASSUME NEW i \in Nat, NEW j \in Nat, NoOpen(t, i, j), i # 0 \/ Head(s).type # "srv open"
      PROVE  NoOpen(s, i + 1, j + 1) /\ (i = 0 => NoOpen(s, 0, j + 1))
  <2>1. ASSUME NEW k \in DOMAIN s, k < j + 1, i + 1 < k PROVE s[k].type # "srv open"
    <3>1. k # 1
      BY <1>1, <2>1
    <3>2. k - 1 \in DOMAIN t /\ t[k - 1] = s[k] /\ i < k - 1 /\ k - 1 < j
      <4>1. k - 1 \in DOMAIN t /\ t[k - 1] = s[k]
        BY <1>1, <3>1
      <4>2. k \in Nat
        BY <1>1
      <4>3. i < k - 1 /\ k - 1 < j
        BY <2>1, <4>2
      <4> QED
        BY <4>1, <4>3
    <3>3. t[k - 1].type # "srv open"
      BY <1>2, <3>2 DEF NoOpen
    <3> QED
      BY <3>2, <3>3
  <2>2. NoOpen(s, i + 1, j + 1)
    BY <2>1 DEF NoOpen
  <2>3. ASSUME i = 0, NEW k \in DOMAIN s, k < j + 1 PROVE s[k].type # "srv open"
    <3>1. CASE k = 1
      BY <1>1, <1>2, <2>3, <3>1
    <3>2. CASE k # 1
      <4>1. k \in Nat /\ k # 0
        BY <1>1
      <4>2. i + 1 < k
        BY <2>3, <3>2, <4>1
      <4> QED
        BY <2>1, <2>3, <4>2
    <3> QED
      BY <3>1, <3>2
  <2>4. i = 0 => NoOpen(s, 0, j + 1)
    BY <2>3 DEF NoOpen
  <2> QED
    BY <2>2, <2>4
\* And from the head on, whatever that is.
<1>3. ASSUME NEW j \in Nat, NoOpen(t, 0, j) PROVE NoOpen(s, 1, j + 1)
  <2> SUFFICES ASSUME NEW k \in DOMAIN s, 1 < k, k < j + 1 PROVE s[k].type # "srv open"
    BY DEF NoOpen
  <2>1. k # 1 /\ k \in Nat
    BY <1>1
  <2>2. k - 1 \in DOMAIN t /\ t[k - 1] = s[k]
    BY <1>1, <2>1
  <2>3. 0 < k - 1 /\ k - 1 < j
    BY <2>1
  <2> QED
    BY <1>3, <2>2, <2>3 DEF NoOpen
<1>4. Matched(s) => Matched(t)
  <2> SUFFICES ASSUME Matched(s), NEW i \in DOMAIN t, NEW j \in DOMAIN t, i < j,
                      t[i].type = "srv open", t[j].type = "close", NoOpen(t, i, j)
               PROVE  t[i].link = t[j].link
    BY DEF Matched
  <2>1. /\ i \in Nat /\ j \in Nat /\ i # 0 /\ i + 1 \in DOMAIN s /\ j + 1 \in DOMAIN s
        /\ t[i] = s[i + 1] /\ t[j] = s[j + 1]
    BY <1>1
  <2>2. NoOpen(s, i + 1, j + 1)
    BY <1>2, <2>1
  <2>3. i + 1 < j + 1
    BY <2>1, Shifted, Zenon
  <2> QED
    BY <2>1, <2>2, <2>3 DEF Matched
<1>5. LastIs(s, l) => LastIs(t, l)
  <2> SUFFICES ASSUME LastIs(s, l), NEW i \in DOMAIN t, t[i].type = "srv open",
                      NoOpen(t, i, Len(t) + 1)
               PROVE  t[i].link = l
    BY DEF LastIs
  <2>1. i \in Nat /\ i # 0 /\ i + 1 \in DOMAIN s /\ t[i] = s[i + 1]
    BY <1>1
  <2>2. NoOpen(s, i + 1, Len(s) + 1)
    BY <1>1, <1>2, <2>1
  <2> QED
    BY <2>1, <2>2 DEF LastIs
<1>6. Head(s).type = "close" /\ FirstIs(s, l) => Head(s).link = l
  <2>2. \A k \in DOMAIN s : ~(0 < k /\ k < 1)
    OBVIOUS
  <2>1. NoOpen(s, 0, 1)
    BY <2>2, Zenon DEF NoOpen
  <2> QED
    BY <1>1, <2>1 DEF FirstIs
<1>7. Head(s).type # "srv open" /\ FirstIs(s, l) => FirstIs(t, l)
  <2> SUFFICES ASSUME Head(s).type # "srv open", FirstIs(s, l), NEW j \in DOMAIN t,
                      t[j].type = "close", NoOpen(t, 0, j)
               PROVE  t[j].link = l
    BY DEF FirstIs
  <2>1. j \in Nat /\ j + 1 \in DOMAIN s /\ t[j] = s[j + 1]
    BY <1>1
  <2>2. NoOpen(s, 0, j + 1)
    BY <1>2, <2>1
  <2> QED
    BY <2>1, <2>2 DEF FirstIs
<1>8. Head(s).type # "srv open" /\ NoneOpens(t) => NoneOpens(s)
  <2>1. ASSUME NoOpen(t, 0, Len(t) + 1), Head(s).type # "srv open" PROVE NoOpen(s, 0, Len(s) + 1)
    BY <1>1, <1>2, <2>1
  <2> QED
    BY <2>1, Zenon DEF NoneOpens
<1>9. Head(s).type = "srv open" /\ Matched(s) => FirstIs(t, Head(s).link)
  <2> SUFFICES ASSUME Head(s).type = "srv open", Matched(s), NEW j \in DOMAIN t,
                      t[j].type = "close", NoOpen(t, 0, j)
               PROVE  t[j].link = Head(s).link
    BY DEF FirstIs
  <2>1. j \in Nat /\ j # 0 /\ j + 1 \in DOMAIN s /\ t[j] = s[j + 1]
    BY <1>1
  <2>2. NoOpen(s, 1, j + 1)
    BY <1>3, <2>1
  <2>3. 1 < j + 1
    BY <2>1, Shifted, Zenon
  <2>4. s[1].type = "srv open" /\ s[1].link = Head(s).link
    BY <1>1
  <2>5. 1 \in DOMAIN s /\ s[j + 1].type = "close"
    BY <1>1, <2>1
  <2>6. s[1].link = s[j + 1].link
    BY <2>1, <2>2, <2>3, <2>4, <2>5, Zenon DEF Matched
  <2> QED
    BY <2>1, <2>4, <2>6
<1>10. Head(s).type = "srv open" /\ LastIs(s, l) /\ NoneOpens(t) => Head(s).link = l
  <2> SUFFICES ASSUME Head(s).type = "srv open", LastIs(s, l), NoneOpens(t) PROVE Head(s).link = l
    OBVIOUS
  <2>1. NoOpen(t, 0, Len(t) + 1)
    BY Zenon DEF NoneOpens
  <2>2. NoOpen(s, 1, Len(s) + 1)
    BY <1>1, <1>3, <2>1
  <2> QED
    BY <1>1, <2>2 DEF LastIs
<1> QED
  BY <1>4, <1>5, <1>6, <1>7, <1>8, <1>9, <1>10 DEF t

\* A "close" that is added is of the last link that was opened.
LEMMA AppendedOwn ==
    ASSUME NEW s \in Seq(Events), NEW e \in Events, NEW l
    PROVE  LET t == Append(s, e) IN
           /\ Matched(s) /\ (e.type = "close" => LastIs(s, e.link)) => Matched(t)
           /\ FirstIs(s, l) /\ (e.type = "close" /\ NoneOpens(s) => e.link = l) => FirstIs(t, l)
           /\ LastIs(s, l) /\ e.type # "srv open" => LastIs(t, l)
           /\ e.type = "srv open" => LastIs(t, e.link)
           /\ NoneOpens(t) => NoneOpens(s) /\ e.type # "srv open"
<1> DEFINE t == Append(s, e)
           n == Len(s) + 1
<1>1. /\ Len(t) = n /\ Len(s) \in Nat /\ n \in Nat
      /\ \A i \in DOMAIN s : t[i] = s[i] /\ i \in DOMAIN t /\ i \in Nat /\ i < n
      /\ t[n] = e /\ n \in DOMAIN t
      /\ \A i \in DOMAIN t : i = n \/ i \in DOMAIN s
      /\ n < n + 1 /\ \A i \in DOMAIN s : i < n + 1
      /\ \A i, j \in DOMAIN t : i < j => i # n
      /\ 0 < n
  OBVIOUS
<1>2. Len(s) + 1 = n
  OBVIOUS
<1> HIDE DEF t, n
\* What no link opens in, in t, has none in s either.
<1>3. ASSUME NEW i, NEW j, NoOpen(t, i, j) PROVE NoOpen(s, i, j)
  BY <1>1, <1>3 DEF NoOpen
<1>4. ASSUME NEW i, NoOpen(t, i, n + 1) PROVE NoOpen(s, i, n) /\ (i < n => e.type # "srv open")
  BY <1>1, <1>4 DEF NoOpen
<1>5. Matched(s) /\ (e.type = "close" => LastIs(s, e.link)) => Matched(t)
  <2> SUFFICES ASSUME Matched(s), e.type = "close" => LastIs(s, e.link),
                      NEW i \in DOMAIN t, NEW j \in DOMAIN t, i < j,
                      t[i].type = "srv open", t[j].type = "close", NoOpen(t, i, j)
               PROVE  t[i].link = t[j].link
    BY DEF Matched
  <2>1. i \in DOMAIN s /\ NoOpen(s, i, j) /\ t[i] = s[i]
    BY <1>1, <1>3
  <2>2. CASE j = n
    BY <1>1, <1>2, <2>1, <2>2 DEF LastIs
  <2>3. CASE j \in DOMAIN s
    <3>1. t[j] = s[j]
      BY <1>1, <2>3
    <3> QED
      BY <2>1, <2>3, <3>1 DEF Matched
  <2> QED
    BY <1>1, <2>2, <2>3
<1>6. FirstIs(s, l) /\ (e.type = "close" /\ NoneOpens(s) => e.link = l) => FirstIs(t, l)
  <2> SUFFICES ASSUME FirstIs(s, l), e.type = "close" /\ NoneOpens(s) => e.link = l,
                      NEW j \in DOMAIN t, t[j].type = "close", NoOpen(t, 0, j)
               PROVE  t[j].link = l
    BY DEF FirstIs
  <2>1. NoOpen(s, 0, j)
    BY <1>3
  <2>2. CASE j = n
    BY <1>1, <1>2, <2>1, <2>2 DEF NoneOpens
  <2>3. CASE j \in DOMAIN s
    BY <1>1, <2>1, <2>3 DEF FirstIs
  <2> QED
    BY <1>1, <2>2, <2>3
<1>7. LastIs(s, l) /\ e.type # "srv open" => LastIs(t, l)
  <2> SUFFICES ASSUME LastIs(s, l), e.type # "srv open", NEW i \in DOMAIN t,
                      t[i].type = "srv open", NoOpen(t, i, n + 1)
               PROVE  t[i].link = l
    BY <1>1 DEF LastIs
  <2>1. i \in DOMAIN s /\ t[i] = s[i] /\ NoOpen(s, i, n)
    BY <1>1, <1>4
  <2> QED
    BY <1>2, <2>1 DEF LastIs
<1>8. e.type = "srv open" => LastIs(t, e.link)
  <2> SUFFICES ASSUME e.type = "srv open", NEW i \in DOMAIN t,
                      t[i].type = "srv open", NoOpen(t, i, n + 1)
               PROVE  t[i].link = e.link
    BY <1>1 DEF LastIs
  <2>1. ~(i < n)
    BY <1>4
  <2> QED
    BY <1>1, <2>1
<1>9. NoneOpens(t) => NoneOpens(s) /\ e.type # "srv open"
  BY <1>1, <1>2, <1>4 DEF NoneOpens
<1> QED
  BY <1>5, <1>6, <1>7, <1>8, <1>9 DEF t

\* Every step leaves the descriptors with their links.
LEMMA StepOwn == Links /\ OneRow /\ Turns /\ Own /\ [Next]_vars => Own'
<1> SUFFICES ASSUME Links, OneRow, Turns, Own, [Next]_vars PROVE Own'
  OBVIOUS
<1>0. /\ events \in Seq(Events) /\ up \in {0} \cup Link /\ 0 \notin Link /\ open \subseteq Link
      /\ Matched(events)
      /\ gfd \in open => FirstIs(events, gfd)
      /\ up # 0 => LastIs(events, up)
      /\ up # 0 /\ gfd \in open /\ NoneOpens(events) => gfd = up
  <2>1. 0 \notin Link
    BY BoundsAssumption DEF Link
  <2> QED
    BY <2>1, Zenon DEF Own, OneRow, Rows, Links
\* An event that is not of a link changes nothing for them.
<1>1. ASSUME NEW type \in StartUp \cup {"start"}, NEW s \in Seq(Events),
             Matched(s), gfd \in open => FirstIs(s, gfd), up # 0 => LastIs(s, up),
             up # 0 /\ gfd \in open /\ NoneOpens(s) => gfd = up,
             \/ events' = s
             \/ \E ok \in Outcomes : events' = Append(s, Event(type, ok)),
             UNCHANGED <<open, gfd, up>>
      PROVE  Own'
  <2>1. CASE events' = s
    BY <1>1, <2>1 DEF Own
  <2>2. CASE \E ok \in Outcomes : events' = Append(s, Event(type, ok))
    <3>1. PICK ok \in BOOLEAN : events' = Append(s, Event(type, ok))
      BY <2>2 DEF Outcomes
    <3>2. Event(type, ok) \in Events /\ Event(type, ok).type = type
      BY NewEvents
    <3>3. Event(type, ok).type # "srv open" /\ Event(type, ok).type # "close"
      BY <3>2 DEF StartUp
    <3>4. /\ Matched(events') /\ (FirstIs(s, gfd) => FirstIs(events', gfd))
          /\ LastIs(s, up) => LastIs(events', up)
          /\ NoneOpens(events') => NoneOpens(s)
      BY <1>1, <3>1, <3>2, <3>3, AppendedOwn
    <3> QED
      BY <1>1, <3>4 DEF Own
  <2> QED
    BY <1>1, <2>1, <2>2
<1>2. ASSUME events # <<>>, Head(events).type # "srv open"
      PROVE  /\ Tail(events) \in Seq(Events) /\ Matched(Tail(events))
             /\ gfd \in open => FirstIs(Tail(events), gfd)
             /\ up # 0 => LastIs(Tail(events), up)
             /\ up # 0 /\ gfd \in open /\ NoneOpens(Tail(events)) => gfd = up
  BY <1>0, <1>2, Taken, TakenOwn
<1>3. CASE Restart
  <2>1. CASE started
    <3>1. events' = <<>> /\ open' = {} /\ up' = 0
      BY <1>3, <2>1 DEF Restart, StopStack, EventsGone
    <3> QED
      BY <3>1, NoOwn DEF Own
  <2>2. CASE ~started
    <3>1. UNCHANGED <<events, up, open, gfd>>
      BY <1>3, <2>2 DEF Restart, StopStack
    <3> QED
      BY <3>1 DEF Own
  <2> QED
    BY <2>1, <2>2
<1>4. CASE Start
  <2>1. UNCHANGED <<open, gfd, up>>
    BY <1>4 DEF Start, linkVars
  <2>2. events' = events \/ \E ok \in Outcomes : events' = Append(events, Event("init", ok))
    BY <1>4 DEF Start
  <2>3. "init" \in StartUp \cup {"start"}
    BY DEF StartUp
  <2> QED
    BY <1>0, <1>1, <2>1, <2>2, <2>3
<1>5. CASE StartReturns \/ OnVfsRegisterDone \/ UNCHANGED vars
  <2>1. UNCHANGED <<events, up, open, gfd>>
    BY <1>5 DEF StartReturns, OnVfsRegisterDone, vars, linkVars
  <2> QED
    BY <2>1 DEF Own
<1>6. CASE OnInit \/ OnVfsRegister \/ OnStart
  <2>1. /\ events # <<>> /\ Head(events).type \in StartUp \cup {"start"}
        /\ UNCHANGED <<open, gfd, up>>
    BY <1>6 DEF OnInit, OnVfsRegister, OnStart, Handle, linkVars, StartUp
  <2>2. Head(events).type # "srv open"
    BY <2>1 DEF StartUp
  <2>3. \E type \in StartUp \cup {"start"} :
            \/ events' = Tail(events)
            \/ \E ok \in Outcomes : events' = Append(Tail(events), Event(type, ok))
    BY <1>6 DEF OnInit, OnVfsRegister, OnStart, Answers, StartUp
  <2> QED
    BY <1>1, <1>2, <2>1, <2>2, <2>3
\* The descriptor is remembered just when the next "close" becomes its own.
<1>7. CASE OnSrvOpen
  <2>1. /\ events # <<>> /\ Head(events).type = "srv open" /\ events' = Tail(events)
        /\ gfd' = Head(events).link /\ up' = up
    BY <1>7 DEF OnSrvOpen, Handle
  <2>2. /\ Matched(Tail(events)) /\ FirstIs(Tail(events), Head(events).link)
        /\ up # 0 => LastIs(Tail(events), up)
        /\ up # 0 /\ NoneOpens(Tail(events)) => Head(events).link = up
    BY <1>0, <2>1, TakenOwn
  <2> QED
    BY <2>1, <2>2 DEF Own
<1>8. CASE OnClose
  <2>1. /\ events # <<>> /\ Head(events).type = "close" /\ events' = Tail(events)
        /\ open' \subseteq open /\ gfd' = 0 /\ up' = up
    BY <1>8 DEF OnClose, Handle, CloseRemembered
  <2>2. gfd' \notin open'
    BY <1>0, <2>1
  <2>3. Matched(Tail(events)) /\ (up # 0 => LastIs(Tail(events), up))
    BY <1>2, <2>1
  <2> QED
    BY <2>1, <2>2, <2>3 DEF Own
<1>9. CASE PhoneConnects
  <2>1. /\ up = 0 /\ up' = links + 1 /\ links + 1 \in Link
        /\ events' = Append(events, LinkEvent("srv open", links + 1))
        /\ UNCHANGED <<open, gfd>>
    <3>1. links < MaxLinks /\ links \in 0 .. MaxLinks /\ MaxLinks \in Nat
      BY <1>9, BoundsAssumption DEF PhoneConnects, Links
    <3>2. links + 1 \in Link
      BY <3>1 DEF Link
    <3> QED
      BY <1>9, <3>2 DEF PhoneConnects
  <2> DEFINE e == LinkEvent("srv open", links + 1)
  <2>2. e \in Events /\ e.type = "srv open" /\ e.type # "close" /\ e.link = up'
    BY <2>1, NewEvents DEF LinkTypes
  <2> HIDE DEF e
  <2>3. events' = Append(events, e)
    BY <2>1 DEF e
  <2>4. /\ Matched(events') /\ (FirstIs(events, gfd) => FirstIs(events', gfd))
        /\ LastIs(events', up') /\ ~NoneOpens(events')
    BY <1>0, <2>2, <2>3, AppendedOwn
  <2> QED
    BY <1>0, <2>1, <2>4 DEF Own
\* The link that ends is the last one that was opened: it has g_fd, or comes before it.
<1>10. CASE PhoneLeaves \/ ConnectionCloses
  <2>1. open' \subseteq open /\ gfd' = gfd
    BY <1>0, <1>10 DEF PhoneLeaves, ConnectionCloses
  <2>2. CASE UNCHANGED <<up, events>>
    BY <1>0, <2>1, <2>2 DEF Own
  <2>3. CASE up \in Link /\ LinkEnds
    <3> DEFINE e == LinkEvent("close", up)
    <3>1. up # 0 /\ events' = Append(events, e) /\ up' = 0
      BY <1>0, <2>3 DEF LinkEnds
    <3>2. e \in Events /\ e.type = "close" /\ e.link = up
      BY <2>3, NewEvents DEF LinkTypes
    <3> HIDE DEF e
    <3>3. /\ Matched(events')
          /\ FirstIs(events, gfd) /\ (NoneOpens(events) => e.link = gfd) => FirstIs(events', gfd)
      BY <1>0, <3>1, <3>2, AppendedOwn
    <3> QED
      BY <1>0, <2>1, <3>1, <3>2, <3>3 DEF Own
  <2>4. ConnectionCloses => UNCHANGED <<up, events>> \/ (up \in Link /\ LinkEnds)
    BY DEF ConnectionCloses, Links
  <2>5. PhoneLeaves => up \in Link /\ LinkEnds
    BY <1>0 DEF PhoneLeaves
  <2> QED
    BY <1>10, <2>2, <2>3, <2>4, <2>5
<1> QED
  BY <1>3, <1>4, <1>5, <1>6, <1>7, <1>8, <1>9, <1>10 DEF Next, SppCb

\* The descriptors stay with their links.
LEMMA OwnInvariant == Spec => []Own
<1>1. Init => Own
  BY NoOwn DEF Init, Own
<1>2. Inv => Links /\ OneRow /\ Turns
  BY DEF Inv
<1>3. Links /\ OneRow /\ Turns /\ Own /\ [Next]_vars => Own'
  BY StepOwn
<1> QED
  BY <1>1, <1>2, <1>3, Invariant, PTL DEF Spec

\* ESP_SPP_CLOSE_EVT closes g_fd and not the descriptor of its own link: no link may lose
\* its descriptor to the event of another one.
ClosesItsOwn == [][OnClose => open \ open' \subseteq {Head(events).link}]_vars

\* The event of a link's end closes the descriptor of that link or none, although the
\* server remembers but one descriptor and the events of several links may be on their
\* way while the connections close theirs.
THEOREM ClosesItsOwnHolds == Spec => ClosesItsOwn
<1>1. OneRow /\ Own /\ [Next]_vars => [OnClose => open \ open' \subseteq {Head(events).link}]_vars
  <2> SUFFICES ASSUME OneRow, Own, OnClose PROVE open \ open' \subseteq {Head(events).link}
    OBVIOUS
  <2>1. /\ events \in Seq(Events) /\ events # <<>> /\ Head(events).type = "close"
        /\ open' = open \ {gfd}
    BY DEF OnClose, Handle, CloseRemembered, OneRow, Rows
  <2>2. gfd \in open => Head(events).link = gfd
    BY <2>1, TakenOwn DEF Own
  <2> QED
    BY <2>1, <2>2
<1>2. Inv => OneRow
  BY DEF Inv
<1> QED
  BY <1>1, <1>2, Invariant, OwnInvariant, PTL DEF Spec, ClosesItsOwn
===============================================================================
