----------------------------- MODULE CryptoProofs -----------------------------
(***************************************************************************)
(* Theorems about Crypto, for any clients, any number of frames, and       *)
(* mbedtls failing or not.  The invariant follows the handshake: once it   *)
(* is accepted the key is that of the accepted client and never changes,   *)
(* and before that nothing is sealed and nothing delivered.                *)
(***************************************************************************)
EXTENDS Crypto, TLAPS

Typed ==
    /\ count \in Nat
    /\ frame \in Frames \cup {NoFrame}
    /\ inbox \in Seq([n : Nat, from : Peers \cup {None}])
    /\ sealed \in Seq(Peers \cup {None})
    /\ key \in Peers \cup {None}

\* Where the key comes from, and who has got through the handshake with it.
KeyOrigin ==
    /\ mode \in {"passphrase", "ephemeral"}
    /\ mode = "passphrase" => key \in Trusted \cup {None}
    /\ handshake => key = agreed /\ agreed \in Trusted
    /\ sendReady => handshake
    /\ sendPc = "sealing" => sendReady

\* Where the read task may be, and what it knows of the frame it is at.
Reading ==
    /\ readPc \in {"idle", "open", "opening", "message", "refused", "parse", "reply"}
    /\ readPc \in {"open", "opening"} => ~Clear
    /\ readPc = "parse" => ~handshake
    /\ readPc = "parse" /\ ~Clear => frame.from = key /\ key # None
    /\ readPc \in {"message", "refused", "reply"} => handshake
    /\ readPc = "message" => frame.from = key

\* Nothing is sealed or delivered before the handshake, and afterwards for and from
\* the agreed client; the frame that is being read has not been delivered yet.
Sealed ==
    /\ ~handshake => sealed = <<>>
    /\ KeyAgreed

Delivered ==
    /\ ~handshake => inbox = <<>>
    /\ \A i \in DOMAIN inbox : inbox[i].n <= count
    /\ readPc # "idle" => \A i \in DOMAIN inbox : inbox[i].n < count
    /\ OnlyGenuine

Inv == Typed /\ KeyOrigin /\ Reading /\ Sealed /\ Delivered

\* The invariant holds before the first frame.
LEMMA InitInv == Init => Inv
<1> SUFFICES ASSUME Init PROVE Inv
  OBVIOUS
<1>1. Typed
  BY ConstantsAssumption DEF Init, Typed, Underivable
<1>2. KeyOrigin /\ Reading
  BY DEF Init, KeyOrigin, Reading, Underivable
<1>3. Sealed /\ Delivered
  BY DEF Init, Sealed, Delivered, KeyAgreed, OnlyGenuine
<1> QED
  BY <1>1, <1>2, <1>3 DEF Inv

\* Every step keeps the frame, the inbox and the sealed frames well typed.
LEMMA StepTyped == Typed /\ [Next]_vars => Typed'
<1> SUFFICES ASSUME Typed, [Next]_vars PROVE Typed'
  OBVIOUS
<1>0. frame.from \in Peers \cup {None}
  BY DEF Typed, Frames, NoFrame
<1>1. CASE Receive
  BY <1>1 DEF Receive, Typed, keyVars
<1>2. CASE OpenStarts
  BY <1>2 DEF OpenStarts, Typed, keyVars
<1>3. CASE OpenEnds
  BY <1>3 DEF OpenEnds, Typed, keyVars
<1>4. CASE Deliver
  <2>1. \E m \in [n : Nat, from : Peers \cup {None}] : inbox' = Append(inbox, m)
    BY <1>0, <1>4 DEF Deliver, Typed
  <2>2. inbox' \in Seq([n : Nat, from : Peers \cup {None}])
    BY <2>1 DEF Typed
  <2> QED
    BY <2>2, <1>4 DEF Deliver, Typed, keyVars
<1>5. CASE ParseHandshake
  BY <1>0, <1>5 DEF ParseHandshake, Typed
<1>6. CASE Reply
  BY <1>6 DEF Reply, Typed
<1>7. CASE SealStarts
  BY <1>7 DEF SealStarts, Typed, keyVars
<1>8. CASE SealEnds
  BY <1>8 DEF SealEnds, Typed, keyVars
<1>9. CASE UNCHANGED vars
  BY <1>9 DEF vars, Typed, keyVars
<1> QED
  BY <1>1, <1>2, <1>3, <1>4, <1>5, <1>6, <1>7, <1>8, <1>9 DEF Next, ReadTask, SendTask

\* Every step of the two tasks keeps the key with the client that was let in.
LEMMA StepKey == KeyOrigin /\ Reading /\ [Next]_vars => KeyOrigin' /\ Reading'
<1> SUFFICES ASSUME KeyOrigin, Reading, [Next]_vars PROVE KeyOrigin' /\ Reading'
  OBVIOUS
<1> USE DEF KeyOrigin, Reading, Clear
<1>0. mode' = mode
  BY DEF Next, vars
<1>1. CASE Receive
  BY <1>0, <1>1 DEF Receive, ReadGoes, keyVars
<1>2. CASE OpenStarts
  BY <1>0, <1>2 DEF OpenStarts, ReadGoes, keyVars
<1>3. CASE OpenEnds
  BY <1>0, <1>3 DEF OpenEnds, ReadGoes, Genuine, keyVars
<1>4. CASE Deliver
  BY <1>0, <1>4 DEF Deliver, ReadGoes, keyVars
<1>5. CASE ParseHandshake
  BY <1>0, <1>5 DEF ParseHandshake, ReadGoes, Acceptable, KnowsPhrase
<1>6. CASE Reply
  BY <1>0, <1>6 DEF Reply, ReadGoes
<1>7. CASE SealStarts
  BY <1>0, <1>7 DEF SealStarts, MaySend, keyVars
<1>8. CASE SealEnds
  BY <1>0, <1>8 DEF SealEnds, keyVars
<1>9. CASE UNCHANGED vars
  BY <1>9 DEF vars, keyVars
<1> QED
  BY <1>1, <1>2, <1>3, <1>4, <1>5, <1>6, <1>7, <1>8, <1>9 DEF Next, ReadTask, SendTask

\* No step changes who was agreed on once the handshake is accepted.
LEMMA AgreedStays ==
    KeyOrigin /\ Reading /\ [Next]_vars /\ handshake =>
        handshake' /\ agreed' = agreed /\ key' = key
BY DEF KeyOrigin, Reading, Next, ReadTask, SendTask, Receive, OpenStarts, OpenEnds, Deliver,
       ParseHandshake, Reply, SealStarts, SealEnds, ReadGoes, keyVars, vars

\* Only SealEnds adds to what is sealed, and it does so under the agreed key.
LEMMA StepSealed ==
    Typed /\ KeyOrigin /\ Reading /\ Sealed /\ [Next]_vars => Sealed'
<1> SUFFICES ASSUME Typed, KeyOrigin, Reading, Sealed, [Next]_vars PROVE Sealed'
  OBVIOUS
<1>1. CASE SealEnds
  <2>1. handshake /\ handshake' /\ agreed' = agreed /\ key = agreed /\ agreed \in Trusted
    BY <1>1, AgreedStays DEF SealEnds, KeyOrigin
  <2>2. sealed' = Append(sealed, key) /\ sealed \in Seq(Peers \cup {None})
    BY <1>1 DEF SealEnds, Typed
  <2>3. key \in Peers \cup {None}
    BY DEF Typed
  <2>4. \A i \in DOMAIN sealed' :
            IF i \in DOMAIN sealed THEN sealed'[i] = sealed[i] ELSE sealed'[i] = key
    BY <2>2, <2>3
  <2> QED
    BY <2>1, <2>4 DEF Sealed, KeyAgreed
<1>2. CASE ~SealEnds
  <2>1. sealed' = sealed
    BY <1>2 DEF Next, ReadTask, SendTask, Receive, OpenStarts, OpenEnds, Deliver,
                ParseHandshake, Reply, SealStarts, vars
  <2>2. CASE handshake
    BY <2>1, <2>2, AgreedStays DEF Sealed, KeyAgreed
  <2>3. CASE ~handshake
    BY <2>1, <2>3 DEF Sealed, KeyAgreed
  <2> QED
    BY <2>2, <2>3
<1> QED
  BY <1>1, <1>2

\* The elements of a sequence are where the sequence's are.
LEMMA Elements ==
    ASSUME NEW S, NEW s \in Seq(S)
    PROVE  \A i \in DOMAIN s : s[i] \in S
OBVIOUS

\* Only Deliver adds to the inbox: a frame newer than all of those in it, opened with
\* the agreed key.
LEMMA StepDelivered ==
    Typed /\ KeyOrigin /\ Reading /\ Delivered /\ [Next]_vars => Delivered'
<1> SUFFICES ASSUME Typed, KeyOrigin, Reading, Delivered, [Next]_vars PROVE Delivered'
  OBVIOUS
<1>0. \A i \in DOMAIN inbox : inbox[i].n \in Nat
  <2>1. inbox \in Seq([n : Nat, from : Peers \cup {None}])
    BY DEF Typed
  <2>2. \A i \in DOMAIN inbox : inbox[i] \in [n : Nat, from : Peers \cup {None}]
    BY <2>1, Elements, Zenon
  <2> QED
    BY <2>2
<1>1. CASE Deliver
  <2>1. /\ handshake /\ handshake' /\ agreed' = agreed
        /\ key = agreed /\ readPc' = "idle" /\ readPc # "idle"
        /\ count' = count /\ count \in Nat
    BY <1>1, AgreedStays DEF Deliver, ReadGoes, Reading, KeyOrigin, Typed
  <2>2. PICK m \in [n : Nat, from : Peers \cup {None}] :
            /\ inbox' = Append(inbox, m)
            /\ m.n # 0 => m.n = count /\ m.from = key
            /\ m.n <= count
    <3>1. frame.from \in Peers \cup {None} /\ count \in Nat
      BY DEF Typed, Frames, NoFrame
    <3>2. CASE readPc = "message"
      <4>1. inbox' = Append(inbox, [n |-> count, from |-> frame.from]) /\ frame.from = key
        BY <1>1, <3>2 DEF Deliver, ReadGoes, Reading
      <4> QED
        BY <3>1, <4>1
    <3>3. CASE readPc = "refused"
      <4>1. inbox' = Append(inbox, [n |-> 0, from |-> frame.from])
        BY <1>1, <3>3 DEF Deliver, ReadGoes
      <4> QED
        BY <3>1, <4>1
    <3> QED
      BY <1>1, <3>2, <3>3 DEF Deliver, ReadGoes
  <2>3. \A i \in DOMAIN inbox' :
            /\ i \in Nat
            /\ i \in DOMAIN inbox => inbox'[i] = inbox[i]
            /\ i \notin DOMAIN inbox => inbox'[i] = m /\ \A j \in DOMAIN inbox' : j <= i
    <3>1. inbox \in Seq([n : Nat, from : Peers \cup {None}])
      BY DEF Typed
    <3>2. /\ DOMAIN inbox = 1 .. Len(inbox) /\ Len(inbox) \in Nat
          /\ DOMAIN inbox' = 1 .. Len(inbox) + 1
          /\ \A i \in 1 .. Len(inbox) : inbox'[i] = inbox[i]
          /\ inbox'[Len(inbox) + 1] = m
      BY <2>2, <3>1
    <3> QED
      BY <3>2
  <2>4. \A i \in DOMAIN inbox : inbox[i].n < count
    BY <2>1 DEF Delivered
  <2>5. \A i \in DOMAIN inbox' : inbox'[i].n <= count'
    BY <1>0, <2>1, <2>2, <2>3, <2>4
  <2>6. \A i \in DOMAIN inbox' : inbox'[i].n # 0 => inbox'[i].from = agreed'
    BY <2>1, <2>2, <2>3 DEF Delivered, OnlyGenuine
  <2>7. ASSUME NEW i \in DOMAIN inbox', NEW j \in DOMAIN inbox', i < j, inbox'[j].n # 0
        PROVE  inbox'[i].n < inbox'[j].n
    <3>1. i \in DOMAIN inbox /\ inbox'[i] = inbox[i]
      BY <2>3, <2>7
    <3>2. CASE j \in DOMAIN inbox
      BY <2>3, <2>7, <3>1, <3>2 DEF Delivered, OnlyGenuine
    <3>3. CASE j \notin DOMAIN inbox
      BY <2>2, <2>3, <2>4, <2>7, <3>1, <3>3
    <3> QED
      BY <3>2, <3>3
  <2> QED
    BY <2>1, <2>5, <2>6, <2>7 DEF Delivered, OnlyGenuine
<1>2. CASE ~Deliver
  <2>1. inbox' = inbox
    BY <1>2 DEF Next, ReadTask, SendTask, Receive, OpenStarts, OpenEnds,
                ParseHandshake, Reply, SealStarts, SealEnds, vars
  <2>2. (~handshake' => inbox' = <<>>) /\ OnlyGenuine'
    <3>1. CASE handshake
      BY <2>1, <3>1, AgreedStays DEF Delivered, OnlyGenuine
    <3>2. CASE ~handshake
      BY <2>1, <3>2 DEF Delivered, OnlyGenuine
    <3> QED
      BY <3>1, <3>2
  <2>3. \/ count' = count + 1 /\ Receive
        \/ count' = count /\ (readPc = "idle" => readPc' = "idle")
    BY <1>2 DEF Next, ReadTask, SendTask, Receive, OpenStarts, OpenEnds,
                ParseHandshake, Reply, SealStarts, SealEnds, ReadGoes, vars
  <2>4. \A i \in DOMAIN inbox : inbox[i].n <= count /\ inbox[i].n \in Nat /\ count \in Nat
    BY <1>0 DEF Delivered, Typed
  <2>5. CASE count' = count + 1
    BY <2>1, <2>2, <2>4, <2>5 DEF Delivered
  <2>6. CASE count' = count /\ (readPc = "idle" => readPc' = "idle")
    BY <2>1, <2>2, <2>4, <2>6 DEF Delivered
  <2> QED
    BY <2>3, <2>5, <2>6
<1> QED
  BY <1>1, <1>2

\* The invariant holds in every reachable state.
LEMMA Invariant == Spec => []Inv
<1>1. Inv /\ [Next]_vars => Inv'
  BY StepTyped, StepKey, StepSealed, StepDelivered DEF Inv
<1> QED
  BY InitInv, <1>1, PTL DEF Spec

\* Whatever fails and whoever tries, nothing is sealed but under the key of the client
\* that was let in, which knows the passphrase.
THEOREM KeyAgreedHolds == Spec => []KeyAgreed
<1>1. Inv => KeyAgreed
  BY DEF Inv, Sealed
<1> QED
  BY Invariant, <1>1, PTL

\* The application gets that client's messages only, in order and none twice, though
\* the two tasks share one GCM context.
THEOREM OnlyGenuineHolds == Spec => []OnlyGenuine
<1>1. Inv => OnlyGenuine
  BY DEF Inv, Delivered
<1> QED
  BY Invariant, <1>1, PTL
===============================================================================
