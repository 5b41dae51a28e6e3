-------------------------- MODULE WireProtocolProofs --------------------------
(***************************************************************************)
(* Theorems about WireProtocol, for any consoles, sizes and bounds.  A     *)
(* step writes at most one token; what the tokens are is read off the      *)
(* labels of the two tasks and the semaphore sendReady, which keeps the    *)
(* send task away until the handshake is over.                             *)
(***************************************************************************)
EXTENDS WireProtocol, FiniteSetTheorems, TLAPS

TokenSet == [kind : Tokens, n : 0 .. MaxItems, len : Nat]
Plain == {Line, EmptyHeader, ReplyHeader, ReplyBody, Code}
Header == Token("header", item, HeaderByte(FrameLen(size)))
Body == Token("body", item, FrameLen(size))

Flags ==
    /\ guarded \in BOOLEAN /\ handshake \in BOOLEAN /\ sendReady \in BOOLEAN
    /\ running \in BOOLEAN /\ isClosed \in BOOLEAN /\ open \in BOOLEAN

Labels ==
    /\ kind \in Kinds
    /\ readPc \in {"loop", "read", "frames", "answer", "hello", "guard", "reply header",
                   "reply body", "code", "done"}
    /\ sendPc \in {"idle", "send", "wait", "encrypted", "header", "body"}
    /\ linePc \in [Consoles -> {"idle", "write"}]

Numbers ==
    /\ input \in 0 .. MaxInput
    /\ item \in 0 .. MaxItems
    /\ size \in Sizes \cup {0}
    /\ lines \in [Consoles -> 0 .. MaxLines]

Typed == Flags /\ Labels /\ Numbers /\ wire \in Seq(TokenSet)

-----------------------------------------------------------------------------
(* Types.                                                                  *)

\* The initial state has the types.
LEMMA InitTyped == Init => Typed
<1> SUFFICES ASSUME Init PROVE Typed
  OBVIOUS
<1>1. Flags
  BY DEF Init, Flags
<1>2. Labels
  BY DEF Init, Labels
<1>3. Numbers
  <2>1. input = 0 /\ item = 0 /\ size = 0 /\ lines = [c \in Consoles |-> 0]
    BY DEF Init
  <2> QED
    BY <2>1, BoundsAssumption DEF Numbers
<1>4. wire \in Seq(TokenSet)
  BY DEF Init
<1> QED
  BY <1>1, <1>2, <1>3, <1>4 DEF Typed

\* A step keeps the flags Boolean.
LEMMA StepFlags == Flags /\ [Next]_vars => Flags'
<1> SUFFICES ASSUME Flags, [Next]_vars PROVE Flags'
  OBVIOUS
<1> USE DEF Flags, protoVars, closeVars
<1>1. CASE ReadTask
  BY <1>1
  DEF ReadTask, ReadChunk, AppendReceived, EndOfChunk, EndOfLoop, Takes, ReadLine, ReadGuard,
      ReadHandshake, ReadWrongHandshake, ReadBadFrame, ReadMessage, Writes, WriteAnswer,
      WriteHello, Guard, WithBody, WriteReply, WriteCode
<1>2. CASE SendTask
  BY <1>2
  DEF SendTask, TakeItem, SendGoes, SendStarts, SendWaits, SendTimesOut, SendLooks, WriteHeader,
      WriteBody
<1>3. CASE \E c \in Consoles : BeginLine(c) \/ WriteLine(c)
  BY <1>3 DEF BeginLine, WriteLine
<1>4. CASE Stopper
  BY <1>4 DEF Stopper, Stop, CloseProtocol, CloseDescriptor
<1>5. CASE UNCHANGED vars
  BY <1>5 DEF vars
<1> QED
  BY <1>1, <1>2, <1>3, <1>4, <1>5 DEF Next

\* A step keeps the tasks at their labels.
LEMMA StepLabels == Labels /\ [Next]_vars => Labels'
<1> SUFFICES ASSUME Labels, [Next]_vars PROVE Labels'
  OBVIOUS
<1> USE DEF Labels, lineVars, sendVars
<1>0. kind' = kind
  BY DEF Next, vars
<1>1. CASE ReadTask
  BY <1>0, <1>1
  DEF ReadTask, ReadChunk, AppendReceived, EndOfChunk, EndOfLoop, Takes, ReadLine, ReadGuard,
      ReadHandshake, ReadWrongHandshake, ReadBadFrame, ReadMessage, Writes, WriteAnswer,
      WriteHello, Guard, WriteReply, WriteCode
<1>2. CASE SendTask
  BY <1>0, <1>2
  DEF SendTask, TakeItem, SendGoes, SendStarts, SendWaits, SendTimesOut, SendLooks, WriteHeader,
      WriteBody
<1>3. CASE \E c \in Consoles : BeginLine(c) \/ WriteLine(c)
  BY <1>0, <1>3 DEF BeginLine, WriteLine
<1>4. CASE Stopper
  BY <1>0, <1>4 DEF Stopper
<1>5. CASE UNCHANGED vars
  BY <1>5 DEF vars
<1> QED
  BY <1>1, <1>2, <1>3, <1>4, <1>5 DEF Next

\* A step keeps the counters within their bounds.
LEMMA StepNumbers == Numbers /\ [Next]_vars => Numbers'
<1> SUFFICES ASSUME Numbers, [Next]_vars PROVE Numbers'
  OBVIOUS
<1> USE BoundsAssumption DEF Numbers
<1>1. CASE ReadTask
  <2>1. UNCHANGED <<item, size, lines>>
    BY <1>1
    DEF ReadTask, ReadChunk, AppendReceived, EndOfChunk, EndOfLoop, Takes, ReadLine, ReadGuard,
        ReadHandshake, ReadWrongHandshake, ReadBadFrame, ReadMessage, Writes, WriteAnswer,
        WriteHello, Guard, WriteReply, WriteCode, sendVars, lineVars
  <2>2. input' = input \/ (input < MaxInput /\ input' = input + 1)
    BY <1>1
    DEF ReadTask, ReadChunk, AppendReceived, EndOfChunk, EndOfLoop, Takes, ReadLine, ReadGuard,
        ReadHandshake, ReadWrongHandshake, ReadBadFrame, ReadMessage, Writes, WriteAnswer,
        WriteHello, Guard, WriteReply, WriteCode
  <2> QED
    BY <2>1, <2>2
<1>2. CASE SendTask
  <2>1. /\ UNCHANGED <<input, lines>>
        /\ \/ item < MaxItems /\ item' = item + 1 /\ size' \in Sizes
           \/ UNCHANGED <<item, size>>
    BY <1>2
    DEF SendTask, TakeItem, SendGoes, SendStarts, SendWaits, SendTimesOut, SendLooks, WriteHeader,
        WriteBody, lineVars
  <2> QED
    BY <2>1
<1>3. CASE \E c \in Consoles : BeginLine(c) \/ WriteLine(c)
  <2>1. UNCHANGED <<input, item, size>>
    BY <1>3 DEF BeginLine, WriteLine, sendVars
  <2>2. \/ lines' = lines
        \/ \E c \in Consoles : lines[c] < MaxLines /\ lines' = [lines EXCEPT ![c] = @ + 1]
    BY <1>3 DEF BeginLine, WriteLine
  <2> QED
    BY <2>1, <2>2
<1>4. CASE Stopper
  BY <1>4 DEF Stopper, sendVars, lineVars
<1>5. CASE UNCHANGED vars
  BY <1>5 DEF vars, sendVars, lineVars
<1> QED
  BY <1>1, <1>2, <1>3, <1>4, <1>5 DEF Next

\* A step writes nothing, or one token: one of the plain ones, a header when the send
\* task is at it, or the body.  Nothing is written on a descriptor that is closed.
Quietly == wire' = wire
ReadWrites(token) ==
    /\ wire' = Append(wire, token)
    /\ token = Line => readPc = "answer" /\ readPc' = "read"
    /\ token = EmptyHeader => readPc = "hello" /\ readPc' = "guard"
    /\ token = ReplyHeader => readPc = "reply header" /\ readPc' = "reply body"
    /\ token = ReplyBody => readPc = "reply body" /\ readPc' = "frames"
    /\ token = Code => readPc = "code" /\ readPc' = "frames"
    /\ token # ReplyBody /\ sendReady' => sendReady
ConsoleWrites ==
    /\ wire' = Append(wire, Line)
    /\ \E c \in Consoles :
          linePc[c] = "write" /\ linePc' = [linePc EXCEPT ![c] = "idle"]
SendWrites ==
    \/ sendPc = "header" /\ sendPc' = "body" /\ wire' = Append(wire, Header)
    \/ sendPc = "body" /\ sendPc' = "idle" /\ wire' = Append(wire, Body)

\* What a step writes, and what it leaves alone when it writes.
LEMMA StepWrites ==
    ASSUME [Next]_vars
    PROVE  \/ Quietly
           \/ open /\ SendWrites /\ UNCHANGED <<item, size, readPc, protoVars, linePc>>
           \/ open /\ ConsoleWrites /\ UNCHANGED <<item, size, sendPc, readPc, protoVars>>
           \/ /\ open /\ UNCHANGED <<item, size, sendPc, guarded, handshake, linePc>>
              /\ \E token \in Plain : ReadWrites(token)
<1> USE DEF Quietly, Write
<1>1. CASE ReadTask
  <2>1. CASE WriteAnswer \/ WriteHello \/ WriteReply \/ WriteCode
    <3> USE DEF Writes, ReadWrites, Plain, sendVars, lineVars
    <3>1. /\ Line # EmptyHeader /\ Line # ReplyHeader /\ Line # ReplyBody /\ Line # Code
          /\ EmptyHeader # ReplyHeader /\ EmptyHeader # ReplyBody /\ EmptyHeader # Code
          /\ ReplyHeader # ReplyBody /\ ReplyHeader # Code /\ ReplyBody # Code
      BY DEF Line, EmptyHeader, ReplyHeader, ReplyBody, Code, Token
    <3>2. CASE WriteAnswer
      BY <3>1, <3>2 DEF WriteAnswer
    <3>3. CASE WriteHello
      BY <3>1, <3>3 DEF WriteHello
    <3>4. CASE WriteReply
      BY <3>1, <3>4 DEF WriteReply, WithBody
    <3>5. CASE WriteCode
      BY <3>1, <3>5 DEF WriteCode, protoVars
    <3> QED
      BY <2>1, <3>2, <3>3, <3>4, <3>5
  <2>2. CASE ~(WriteAnswer \/ WriteHello \/ WriteReply \/ WriteCode)
    BY <1>1, <2>2
    DEF ReadTask, ReadChunk, AppendReceived, EndOfChunk, EndOfLoop, Takes, ReadLine, ReadGuard,
        ReadHandshake, ReadWrongHandshake, ReadBadFrame, ReadMessage, Guard
  <2> QED
    BY <2>1, <2>2
<1>2. CASE SendTask
  BY <1>2
  DEF SendTask, TakeItem, SendGoes, SendStarts, SendWaits, SendTimesOut, SendLooks, WriteHeader,
      WriteBody, SendWrites, Header, Body, lineVars
<1>3. CASE \E c \in Consoles : BeginLine(c) \/ WriteLine(c)
  BY <1>3 DEF BeginLine, WriteLine, ConsoleWrites, sendVars
<1>4. CASE Stopper
  BY <1>4 DEF Stopper
<1>5. CASE UNCHANGED vars
  BY <1>5 DEF vars
<1> QED
  BY <1>1, <1>2, <1>3, <1>4, <1>5 DEF Next

\* What Append does to the places of a sequence.
LEMMA Appended ==
    ASSUME NEW T, NEW s \in Seq(T), NEW t \in T
    PROVE  /\ Append(s, t) \in Seq(T)
           /\ DOMAIN s = 1 .. Len(s) /\ Len(s) \in Nat
           /\ DOMAIN Append(s, t) = 1 .. Len(s) + 1
           /\ \A i \in 1 .. Len(s) : Append(s, t)[i] = s[i]
           /\ Append(s, t)[Len(s) + 1] = t
  OBVIOUS

\* Append makes a sequence another one.
LEMMA Grows == ASSUME NEW T, NEW s \in Seq(T), NEW t \in T PROVE Append(s, t) # s
<1>1. Len(Append(s, t)) = Len(s) + 1 /\ Len(s) \in Nat
  OBVIOUS
<1> QED
  BY <1>1

\* Every token that a step can write is one.
LEMMA TokensTyped ==
    ASSUME Labels, Numbers
    PROVE  Plain \subseteq TokenSet /\ Header \in TokenSet /\ Body \in TokenSet
<1>1. size \in Nat /\ item \in 0 .. MaxItems /\ 0 \in 0 .. MaxItems
  BY BoundsAssumption DEF Numbers
<1>2. FrameLen(size) \in Nat
  BY <1>1 DEF FrameLen
<1>3. HeaderByte(FrameLen(size)) \in Nat
  BY <1>2 DEF HeaderByte
<1>4. \A type \in Tokens, n \in 0 .. MaxItems, len \in Nat : Token(type, n, len) \in TokenSet
  BY DEF Token, TokenSet
<1>5. Header \in TokenSet /\ Body \in TokenSet
  BY <1>1, <1>2, <1>3, <1>4 DEF Header, Body, Tokens
<1>6. Plain \subseteq TokenSet
  BY <1>1, <1>4 DEF Plain, Line, EmptyHeader, ReplyHeader, ReplyBody, Code, Tokens
<1> QED
  BY <1>5, <1>6

\* A step leaves the wire alone, or appends one token to it while it is open.
LEMMA StepAppends ==
    ASSUME Labels, Numbers, [Next]_vars
    PROVE  wire' = wire \/ (open /\ \E token \in TokenSet : wire' = Append(wire, token))
<1>1. Line \in Plain
  BY DEF Plain
<1> QED
  BY <1>1, StepWrites, TokensTyped DEF Quietly, SendWrites, ConsoleWrites, ReadWrites

\* A step keeps the types.
LEMMA StepTyped == Typed /\ [Next]_vars => Typed'
<1> SUFFICES ASSUME Typed, [Next]_vars PROVE Typed'
  OBVIOUS
<1>1. Flags' /\ Labels' /\ Numbers'
  BY StepFlags, StepLabels, StepNumbers DEF Typed
<1>2. TokenSet' = TokenSet
  BY DEF TokenSet, Tokens
<1>3. wire' \in Seq(TokenSet)
  BY StepAppends, Appended DEF Typed
<1> QED
  BY <1>1, <1>2, <1>3 DEF Typed

\* The state has the types in every behaviour.
LEMMA AlwaysTyped == Spec => []Typed
  BY InitTyped, StepTyped, PTL DEF Spec

\* The type invariant of the module (variables of main/fd_connection.cpp and
\* main/protocol/): the bounds hold however many consoles there are.
THEOREM TypeCorrect == Spec => []TypeOK
<1>1. Typed => TypeOK
  BY DEF Typed, Flags, Labels, Numbers, TypeOK, TokenSet
<1> QED
  BY <1>1, AlwaysTyped, PTL

-----------------------------------------------------------------------------
(* The header tells the length.  Every header and every body belongs to a  *)
(* message that was taken, and those of the last one have its size; when   *)
(* the next is taken they are all of earlier messages.                     *)

\* A size that fits: the frame of the message is shorter than 256 bytes.
SizesFit == \A n \in Sizes : 28 + n < 256

FramesOfTheLast ==
    \A i \in DOMAIN wire :
        /\ wire[i].kind \in {"header", "body"} => wire[i].n <= item
        /\ wire[i].kind \in {"header", "body"} /\ wire[i].n = item =>
                wire[i].len = FrameLen(size)

\* The byte of the header is the length, for a size that fits.
LEMMA ByteIsLength ==
    ASSUME SizesFit, Numbers
    PROVE  HeaderByte(FrameLen(size)) = FrameLen(size)
<1>1. FrameLen(size) \in 0 .. 255
  <2>1. size \in Sizes \/ size = 0
    BY DEF Numbers
  <2>2. CASE size \in Sizes
    <3>1. size \in Nat /\ 28 + size < 256
      BY <2>2, BoundsAssumption DEF SizesFit
    <3> QED
      BY <3>1 DEF FrameLen
  <2>3. CASE size = 0
    BY <2>3 DEF FrameLen
  <2> QED
    BY <2>1, <2>2, <2>3
<1> QED
  BY <1>1 DEF HeaderByte

\* The kinds of the tokens.
LEMMA PlainKinds ==
    /\ Line.kind = "line" /\ EmptyHeader.kind = "empty header" /\ Code.kind = "code"
    /\ ReplyHeader.kind = "reply header" /\ ReplyBody.kind = "reply body"
    /\ Header.kind = "header" /\ Body.kind = "body"
    /\ \A token \in Plain : token.kind \notin {"header", "body"} /\ token.n = 0
<1>1. /\ Line.kind = "line" /\ EmptyHeader.kind = "empty header" /\ Code.kind = "code"
      /\ ReplyHeader.kind = "reply header" /\ ReplyBody.kind = "reply body"
      /\ Header.kind = "header" /\ Body.kind = "body"
  BY DEF Line, EmptyHeader, ReplyHeader, ReplyBody, Code, Header, Body, Token
<1>2. Line.n = 0 /\ EmptyHeader.n = 0 /\ Code.n = 0 /\ ReplyHeader.n = 0 /\ ReplyBody.n = 0
  BY DEF Line, EmptyHeader, ReplyHeader, ReplyBody, Code, Token
<1>3. \A token \in Plain : token.kind \notin {"header", "body"} /\ token.n = 0
  BY <1>1, <1>2 DEF Plain
<1> QED
  BY <1>1, <1>3

\* A frame is a header or a body of the last message.
LEMMA FrameTokens ==
    ASSUME NEW token \in Plain \cup {Header, Body}, token.kind \in {"header", "body"},
           SizesFit, Numbers
    PROVE  token.n = item /\ token.len = FrameLen(size)
<1>1. Header.len = HeaderByte(FrameLen(size)) /\ Body.len = FrameLen(size)
  BY DEF Header, Body, Token
<1>2. Header.n = item /\ Body.n = item
  BY DEF Header, Body, Token
<1>3. token \notin Plain
  BY PlainKinds
<1>4. Header.len = FrameLen(size)
  BY <1>1, ByteIsLength
<1> QED
  BY <1>1, <1>2, <1>3, <1>4

\* The message changes only when the send task takes the next, which writes nothing.
LEMMA StepItem ==
    ASSUME [Next]_vars
    PROVE  \/ UNCHANGED <<item, size>>
           \/ item' = item + 1 /\ wire' = wire
<1>1. CASE ReadTask
  BY <1>1
  DEF ReadTask, ReadChunk, AppendReceived, EndOfChunk, EndOfLoop, Takes, ReadLine, ReadGuard,
      ReadHandshake, ReadWrongHandshake, ReadBadFrame, ReadMessage, Writes, WriteAnswer,
      WriteHello, Guard, WriteReply, WriteCode, sendVars
<1>2. CASE SendTask
  BY <1>2
  DEF SendTask, TakeItem, SendGoes, SendStarts, SendWaits, SendTimesOut, SendLooks, WriteHeader,
      WriteBody
<1>3. CASE \E c \in Consoles : BeginLine(c) \/ WriteLine(c)
  BY <1>3 DEF BeginLine, WriteLine, sendVars
<1>4. CASE Stopper
  BY <1>4 DEF Stopper, sendVars
<1>5. CASE UNCHANGED vars
  BY <1>5 DEF vars, sendVars
<1> QED
  BY <1>1, <1>2, <1>3, <1>4, <1>5 DEF Next

\* A token that a step appends is a plain one, or a header or body of the last message.
LEMMA StepToken ==
    ASSUME [Next]_vars, wire' # wire
    PROVE  \E token \in Plain \cup {Header, Body} :
              wire' = Append(wire, token) /\ UNCHANGED <<item, size>>
<1>1. Line \in Plain
  BY DEF Plain
<1> QED
  BY <1>1, StepWrites DEF Quietly, SendWrites, ConsoleWrites, ReadWrites

\* A step keeps FramesOfTheLast.
LEMMA StepFramesOfTheLast ==
    ASSUME SizesFit, Typed, FramesOfTheLast, [Next]_vars
    PROVE  FramesOfTheLast'
<1>1. Typed'
  BY StepTyped
<1>2. item \in Nat /\ \A i \in DOMAIN wire : wire[i] \in TokenSet
  BY BoundsAssumption DEF Typed, Numbers
<1>3. \A i \in DOMAIN wire : wire[i].n \in Nat
  BY <1>2, BoundsAssumption DEF TokenSet
<1>4. FrameLen(size)' = IF size' = size THEN FrameLen(size) ELSE FrameLen(size')
  BY DEF FrameLen, Next, vars
<1>5. CASE wire' = wire
  <2>1. CASE UNCHANGED <<item, size>>
    BY <1>4, <1>5, <2>1 DEF FramesOfTheLast
  <2>2. CASE item' = item + 1
    BY <1>2, <1>3, <1>5, <2>2 DEF FramesOfTheLast
  <2> QED
    BY <2>1, <2>2, StepItem
<1>6. CASE wire' # wire
  <2>1. PICK token \in Plain \cup {Header, Body} :
            wire' = Append(wire, token) /\ UNCHANGED <<item, size>>
    BY <1>6, StepToken
  <2>2. token \in TokenSet
    BY TokensTyped DEF Typed
  <2>3. /\ DOMAIN wire = 1 .. Len(wire) /\ Len(wire) \in Nat
        /\ DOMAIN wire' = 1 .. Len(wire) + 1
        /\ \A i \in 1 .. Len(wire) : wire'[i] = wire[i]
        /\ wire'[Len(wire) + 1] = token
    BY <2>1, <2>2, Appended DEF Typed
  <2>4. FrameLen(size)' = FrameLen(size)
    BY <1>4, <2>1
  <2>5. /\ token.kind \in {"header", "body"} => token.n = item
        /\ token.kind \in {"header", "body"} => token.len = FrameLen(size)
    BY FrameTokens DEF Typed
  <2> SUFFICES ASSUME NEW i \in DOMAIN wire'
               PROVE  /\ wire'[i].kind \in {"header", "body"} => wire'[i].n <= item
                      /\ wire'[i].kind \in {"header", "body"} /\ wire'[i].n = item =>
                            wire'[i].len = FrameLen(size)
    BY <2>1, <2>4 DEF FramesOfTheLast
  <2>6. CASE i = Len(wire) + 1
    BY <1>2, <2>3, <2>5, <2>6
  <2>7. CASE i \in DOMAIN wire
    BY <2>3, <2>7 DEF FramesOfTheLast
  <2> QED
    BY <2>3, <2>6, <2>7
<1> QED
  BY <1>5, <1>6

\* A step keeps the lengths together: a body that is written has the length of
\* the header of its message, and the other frames are of other messages.
LEMMA StepHeaderTellsLength ==
    ASSUME SizesFit, Typed, FramesOfTheLast, HeaderTellsLength, [Next]_vars
    PROVE  HeaderTellsLength'
<1>1. CASE wire' = wire
  BY <1>1 DEF HeaderTellsLength, Places
<1>2. CASE wire' # wire
  <2>1. PICK token \in Plain \cup {Header, Body} :
            wire' = Append(wire, token) /\ UNCHANGED <<item, size>>
    BY <1>2, StepToken
  <2>2. token \in TokenSet
    BY TokensTyped DEF Typed
  <2>3. /\ DOMAIN wire = 1 .. Len(wire) /\ Len(wire) \in Nat
        /\ DOMAIN wire' = 1 .. Len(wire) + 1
        /\ \A i \in 1 .. Len(wire) : wire'[i] = wire[i]
        /\ wire'[Len(wire) + 1] = token
    BY <2>1, <2>2, Appended DEF Typed
  <2>4. FramesOfTheLast'
    BY StepFramesOfTheLast
  <2>5. token.kind \in {"header", "body"} => token.n = item' /\ token.len = FrameLen(size)'
    <3>1. FrameLen(size)' = FrameLen(size)
      BY <2>1 DEF FrameLen, Next, vars
    <3> QED
      BY <2>1, <3>1, FrameTokens DEF Typed
  <2> SUFFICES ASSUME NEW i \in DOMAIN wire', NEW j \in DOMAIN wire',
                      wire'[i].kind = "header", wire'[j].kind = "body", wire'[i].n = wire'[j].n
               PROVE  wire'[i].len = wire'[j].len
    BY DEF HeaderTellsLength, Places
  <2>6. CASE i = Len(wire) + 1
    BY <2>3, <2>4, <2>5, <2>6 DEF FramesOfTheLast
  <2>7. CASE j = Len(wire) + 1
    BY <2>3, <2>4, <2>5, <2>7 DEF FramesOfTheLast
  <2>8. CASE i \in DOMAIN wire /\ j \in DOMAIN wire
    BY <2>3, <2>8 DEF HeaderTellsLength, Places
  <2> QED
    BY <2>3, <2>6, <2>7, <2>8
<1> QED
  BY <1>1, <1>2

\* For sizes that fit, the header that the peer reads first says how many bytes
\* of body follow (send(), encryptFrame() of main/protocol/): the property
\* HeaderTellsLength of every size the application can send, and no other.
THEOREM HeaderTellsLengthHolds == SizesFit => (Spec => []HeaderTellsLength)
<1> SUFFICES ASSUME SizesFit PROVE Spec => []HeaderTellsLength
  OBVIOUS
<1> DEFINE Inv == Typed /\ FramesOfTheLast /\ HeaderTellsLength
<1>1. Init => Inv
  <2>1. Init => wire = <<>> /\ Typed
    BY InitTyped DEF Init
  <2> QED
    BY <2>1 DEF FramesOfTheLast, HeaderTellsLength, Places
<1>2. Inv /\ [Next]_vars => Inv'
  BY StepTyped, StepFramesOfTheLast, StepHeaderTellsLength
<1> QED
  BY <1>1, <1>2, PTL DEF Spec

\* The token that a step appends tells which task wrote it, and where it was.
LEMMA TokenTellsWriter ==
    ASSUME Typed, [Next]_vars, wire' # wire
    PROVE  \E token \in TokenSet :
              /\ open
              /\ wire' = Append(wire, token)
              /\ UNCHANGED <<item, size>>
              /\ \/ /\ \/ token = Header /\ sendPc = "header" /\ sendPc' = "body"
                       \/ token = Body /\ sendPc = "body" /\ sendPc' = "idle"
                    /\ UNCHANGED <<readPc, protoVars, linePc>>
                 \/ /\ token = Line /\ ConsoleWrites
                    /\ UNCHANGED <<sendPc, readPc, protoVars>>
                 \/ /\ token \in Plain /\ ReadWrites(token)
                    /\ UNCHANGED <<sendPc, guarded, handshake, linePc>>
<1>1. Plain \subseteq TokenSet /\ Header \in TokenSet /\ Body \in TokenSet /\ Line \in Plain
  BY TokensTyped DEF Typed, Plain
<1>2. CASE open /\ SendWrites /\ UNCHANGED <<item, size, readPc, protoVars, linePc>>
  BY <1>1, <1>2 DEF SendWrites
<1>3. CASE open /\ ConsoleWrites /\ UNCHANGED <<item, size, sendPc, readPc, protoVars>>
  BY <1>1, <1>3 DEF ConsoleWrites
<1>4. CASE /\ open /\ UNCHANGED <<item, size, sendPc, guarded, handshake, linePc>>
           /\ \E token \in Plain : ReadWrites(token)
  BY <1>1, <1>4 DEF ReadWrites
<1> QED
  BY <1>2, <1>3, <1>4, StepWrites DEF Quietly

-----------------------------------------------------------------------------
(* The order of the tasks' steps.  The handshake comes after the guard     *)
(* line, the semaphore after the reply, the frames after the semaphore.    *)

Stage ==
    /\ handshake => guarded
    /\ sendReady => handshake
    /\ readPc \in {"answer", "hello", "guard"} => ~guarded
    /\ readPc \in {"frames", "reply header", "reply body", "code"} => guarded
    /\ readPc \in {"reply header", "reply body"} => handshake /\ ~sendReady
    /\ sendPc \in {"encrypted", "header", "body"} => sendReady
    /\ kind = "raw" /\ readPc = "code" => ~handshake

\* The order holds in every behaviour.
LEMMA StageHolds == Spec => []Stage
<1>1. Init => Stage
  BY DEF Init, Stage
<1>2. Typed /\ Stage /\ [Next]_vars => Stage'
  <2> SUFFICES ASSUME Flags, Flags', Stage, [Next]_vars PROVE Stage'
    BY StepFlags DEF Typed
  <2> USE DEF Stage, Flags, protoVars, sendVars
  <2>0. kind' = kind
    BY DEF Next, vars
  <2>1. CASE ReadTask
    BY <2>0, <2>1
    DEF ReadTask, ReadChunk, AppendReceived, EndOfChunk, EndOfLoop, Takes, ReadLine, ReadGuard,
        ReadHandshake, ReadWrongHandshake, ReadBadFrame, Unreadable, ReadMessage, Writes,
        WriteAnswer, WriteHello, Guard, WithBody, WriteReply, WriteCode
  <2>2. CASE SendTask
    BY <2>0, <2>2
    DEF SendTask, TakeItem, SendGoes, SendStarts, SendWaits, SendTimesOut, SendLooks,
        WriteHeader, WriteBody
  <2>3. CASE \E c \in Consoles : BeginLine(c) \/ WriteLine(c)
    <3>1. UNCHANGED <<guarded, handshake, sendReady, readPc, sendPc>>
      BY <2>3 DEF BeginLine, WriteLine
    <3> QED
      BY <2>0, <3>1
  <2>4. CASE Stopper
    BY <2>0, <2>4 DEF Stopper
  <2>5. CASE UNCHANGED vars
    BY <2>5 DEF vars
  <2> QED
    BY <2>1, <2>2, <2>3, <2>4, <2>5 DEF Next
<1> QED
  BY <1>1, <1>2, AlwaysTyped, PTL DEF Spec

-----------------------------------------------------------------------------
(* Raw frames stay whole.  A header that is the last token belongs to a    *)
(* send task that is about to write the body, and while it is, no other    *)
(* task has anything to write.                                             *)

NoLines == \A c \in Consoles : lines[c] = 0

Begun == \A c \in Consoles : linePc[c] = "write" => lines[c] # 0

BodyIsNext ==
    kind = "raw" /\ NoLines /\ open =>
        \A i \in DOMAIN wire : i = Len(wire) /\ wire[i].kind = "header" => sendPc = "body"

\* A console that is about to write has counted its line.
LEMMA BegunHolds == Typed /\ Begun /\ [Next]_vars => Begun'
<1> SUFFICES ASSUME Typed, Begun, [Next]_vars PROVE Begun'
  OBVIOUS
<1>1. linePc \in [Consoles -> {"idle", "write"}] /\ lines \in [Consoles -> 0 .. MaxLines]
  BY DEF Typed, Labels, Numbers
<1>2. CASE \E c \in Consoles : BeginLine(c)
  <2>1. PICK c \in Consoles : /\ linePc' = [linePc EXCEPT ![c] = "write"]
                              /\ lines' = [lines EXCEPT ![c] = @ + 1]
    BY <1>2 DEF BeginLine
  <2>2. lines'[c] # 0
    BY <1>1, <2>1, BoundsAssumption
  <2>3. \A d \in Consoles \ {c} : lines'[d] = lines[d] /\ linePc'[d] = linePc[d]
    BY <1>1, <2>1
  <2> QED
    BY <2>2, <2>3 DEF Begun
<1>3. CASE \E c \in Consoles : WriteLine(c)
  BY <1>1, <1>3 DEF WriteLine, Begun
<1>4. CASE UNCHANGED lineVars
  BY <1>4 DEF lineVars, Begun
<1>5. ReadTask \/ SendTask \/ Stopper => UNCHANGED lineVars
  BY
  DEF ReadTask, ReadChunk, AppendReceived, EndOfChunk, EndOfLoop, Takes, ReadLine, ReadGuard,
      ReadHandshake, ReadWrongHandshake, ReadBadFrame, ReadMessage, Writes, WriteAnswer,
      WriteHello, Guard, WriteReply, WriteCode, SendTask, TakeItem, SendGoes, SendStarts,
      SendWaits, SendTimesOut, SendLooks, WriteHeader, WriteBody, Stopper
<1> QED
  BY <1>2, <1>3, <1>4, <1>5 DEF Next, vars

\* A line that was begun stays begun.
LEMMA NoLinesBefore ==
    ASSUME Typed, [Next]_vars, NoLines'
    PROVE  NoLines
<1>1. lines \in [Consoles -> 0 .. MaxLines]
  BY DEF Typed, Numbers
<1>2. \/ lines' = lines
      \/ \E c \in Consoles : lines' = [lines EXCEPT ![c] = @ + 1]
  BY
  DEF Next, ReadTask, ReadChunk, AppendReceived, EndOfChunk, EndOfLoop, Takes, ReadLine,
      ReadGuard, ReadHandshake, ReadWrongHandshake, ReadBadFrame, ReadMessage, Writes,
      WriteAnswer, WriteHello, Guard, WriteReply, WriteCode, SendTask, TakeItem, SendGoes,
      SendStarts, SendWaits, SendTimesOut, SendLooks, WriteHeader, WriteBody, Stopper,
      BeginLine, WriteLine, lineVars, vars
<1>3. CASE lines' = lines
  BY <1>3 DEF NoLines
<1>4. CASE \E c \in Consoles : lines' = [lines EXCEPT ![c] = @ + 1]
  <2>1. PICK c \in Consoles : lines' = [lines EXCEPT ![c] = @ + 1]
    BY <1>4
  <2>2. lines'[c] # 0
    BY <1>1, <2>1, BoundsAssumption
  <2> QED
    BY <2>2 DEF NoLines
<1> QED
  BY <1>2, <1>3, <1>4

\* The descriptor is not opened again, and the send task leaves its two writes
\* only by writing.
LEMMA StepSend ==
    ASSUME [Next]_vars, open'
    PROVE  /\ open
           /\ sendPc = "body" /\ sendPc' # "body" => wire' = Append(wire, Body)
           /\ sendPc # "body" /\ sendPc' = "body" => wire' = Append(wire, Header)
<1>1. CASE ReadTask
  BY <1>1
  DEF ReadTask, ReadChunk, AppendReceived, EndOfChunk, EndOfLoop, Takes, ReadLine, ReadGuard,
      ReadHandshake, ReadWrongHandshake, ReadBadFrame, ReadMessage, Writes, WriteAnswer,
      WriteHello, Guard, WriteReply, WriteCode, sendVars, closeVars
<1>2. CASE SendTask
  BY <1>2
  DEF SendTask, TakeItem, SendGoes, SendStarts, SendWaits, SendTimesOut, SendLooks, WriteHeader,
      WriteBody, Write, Header, Body, closeVars
<1>3. CASE \E c \in Consoles : BeginLine(c) \/ WriteLine(c)
  BY <1>3 DEF BeginLine, WriteLine, sendVars, closeVars
<1>4. CASE Stopper
  BY <1>4 DEF Stopper, Stop, CloseProtocol, CloseDescriptor, sendVars
<1>5. CASE UNCHANGED vars
  BY <1>5 DEF vars, sendVars, closeVars
<1> QED
  BY <1>1, <1>2, <1>3, <1>4, <1>5 DEF Next

\* When the send task is about to write a raw body, nobody else writes.
LEMMA OnlyTheBody ==
    ASSUME Stage, Begun, NoLines, kind = "raw", sendPc = "body", [Next]_vars, wire' # wire
    PROVE  wire' = Append(wire, Body) /\ sendPc' = "idle"
<1>1. sendReady /\ handshake /\ guarded
  BY DEF Stage
<1>2. readPc \notin {"answer", "hello", "reply header", "reply body", "code"}
  BY <1>1 DEF Stage
<1>3. ~ \E token \in Plain : ReadWrites(token)
  BY <1>2 DEF ReadWrites, Plain
<1>4. ~ConsoleWrites
  BY DEF ConsoleWrites, Begun, NoLines
<1> QED
  BY <1>3, <1>4, StepWrites DEF Quietly, SendWrites

\* A step keeps BodyIsNext and RawFramesWhole.
LEMMA StepRaw ==
    ASSUME Typed, Stage, Begun, BodyIsNext, RawFramesWhole, [Next]_vars
    PROVE  BodyIsNext' /\ RawFramesWhole'
<1>1. kind' = kind
  BY DEF Next, vars
<1> SUFFICES ASSUME kind = "raw", NoLines'
             PROVE  /\ open' => \A i \in DOMAIN wire' :
                          i = Len(wire') /\ wire'[i].kind = "header" => sendPc' = "body"
                    /\ \A i \in DOMAIN wire' : wire'[i].kind = "header" =>
                          (i + 1 \in DOMAIN wire' => wire'[i + 1].kind = "body")
  BY <1>1 DEF BodyIsNext, RawFramesWhole, NoLines, Places
<1>2. NoLines
  BY NoLinesBefore
<1>3. \A i \in DOMAIN wire : wire[i].kind = "header" =>
          (i + 1 \in DOMAIN wire => wire[i + 1].kind = "body")
  BY <1>2 DEF RawFramesWhole, NoLines, Places
<1>4. open => \A i \in DOMAIN wire :
          i = Len(wire) /\ wire[i].kind = "header" => sendPc = "body"
  BY <1>2 DEF BodyIsNext
<1>5. Len(wire) \in Nat /\ DOMAIN wire = 1 .. Len(wire)
  BY DEF Typed
<1>6. CASE wire' = wire
  <2>1. open' => open /\ (sendPc = "body" => sendPc' = "body")
    BY <1>6, StepSend, StepAppends, TokensTyped, Appended DEF Typed
  <2> QED
    BY <1>3, <1>4, <1>6, <2>1
<1>7. CASE wire' # wire
  <2>1. PICK token \in TokenSet :
            /\ open
            /\ wire' = Append(wire, token)
            /\ token \in Plain \/ token = Body \/ (token = Header /\ sendPc' = "body")
    BY <1>7, TokenTellsWriter DEF Plain
  <2>2. /\ DOMAIN wire' = 1 .. Len(wire) + 1 /\ Len(wire') = Len(wire) + 1
        /\ \A i \in 1 .. Len(wire) : wire'[i] = wire[i]
        /\ wire'[Len(wire) + 1] = token
    BY <2>1, Appended DEF Typed
  <2>3. CASE \E i \in DOMAIN wire : i = Len(wire) /\ wire[i].kind = "header"
    <3>1. sendPc = "body"
      BY <1>4, <2>1, <2>3
    <3>2. wire' = Append(wire, Body)
      BY <1>2, <1>7, <3>1, OnlyTheBody
    <3>3. wire'[Len(wire) + 1].kind = "body"
      <4>1. Body \in TokenSet /\ wire \in Seq(TokenSet)
        BY TokensTyped DEF Typed
      <4>2. Append(wire, Body)[Len(wire) + 1] = Body
        BY <4>1, Appended
      <4> QED
        BY <3>2, <4>2, PlainKinds
    <3> QED
      BY <1>3, <1>5, <2>2, <3>3
  <2>4. CASE ~ \E i \in DOMAIN wire : i = Len(wire) /\ wire[i].kind = "header"
    <3>1. token.kind = "header" => sendPc' = "body"
      BY <2>1, PlainKinds
    <3> QED
      BY <1>3, <1>5, <2>2, <2>4, <3>1
  <2> QED
    BY <2>3, <2>4
<1> QED
  BY <1>6, <1>7

\* With the raw protocol, and no line begun by a console, nothing comes between a
\* header and its body, whatever the sizes and the number of messages: the two
\* writeCb() calls of main/protocol/raw_protocol.cpp need no lock that spans both.
THEOREM RawFramesWholeHolds == Spec => []RawFramesWhole
<1> DEFINE Inv == Begun /\ BodyIsNext /\ RawFramesWhole
<1>1. Init => Inv
  <2>1. Init => wire = <<>> /\ \A c \in Consoles : linePc[c] = "idle"
    BY DEF Init
  <2> QED
    BY <2>1 DEF Begun, BodyIsNext, RawFramesWhole, Places
<1>2. Typed /\ Stage /\ Inv /\ [Next]_vars => Inv'
  BY BegunHolds, StepRaw
<1> QED
  BY <1>1, <1>2, AlwaysTyped, StageHolds, PTL DEF Spec

-----------------------------------------------------------------------------
(* Late lines.  Once an answer to a frame is on the wire the connection is *)
(* guarded, so no console begins a line: each of those that had begun one  *)
(* still writes it, and every line written is one writer less.             *)

Answers == Places({"reply header", "code"})
Late(i) == {j \in Places({"line"}) : i < j}
Writers == {c \in Consoles : linePc[c] = "write"}

LateAndWriters ==
    \A i \in Answers :
        /\ guarded
        /\ Cardinality(Late(i)) + Cardinality(Writers) <= Cardinality(Consoles)

\* The sets that are counted are finite.
LEMMA FiniteCounts ==
    ASSUME IsFiniteSet(Consoles), Typed
    PROVE  /\ IsFiniteSet(Writers) /\ Cardinality(Writers) \in Nat
           /\ Cardinality(Writers) <= Cardinality(Consoles) /\ Cardinality(Consoles) \in Nat
           /\ \A i \in DOMAIN wire : IsFiniteSet(Late(i)) /\ Cardinality(Late(i)) \in Nat
<1>1. Writers \in SUBSET Consoles
  BY DEF Writers
<1>2. /\ IsFiniteSet(Writers) /\ Cardinality(Writers) <= Cardinality(Consoles)
      /\ Cardinality(Writers) \in Nat /\ Cardinality(Consoles) \in Nat
  BY <1>1, FS_Subset, FS_CardinalityType
<1>3. ASSUME NEW i \in DOMAIN wire
      PROVE  IsFiniteSet(Late(i)) /\ Cardinality(Late(i)) \in Nat
  <2>1. DOMAIN wire = 1 .. Len(wire) /\ Len(wire) \in Int
    BY DEF Typed
  <2>2. IsFiniteSet(1 .. Len(wire))
    BY <2>1, FS_Interval
  <2>3. Late(i) \in SUBSET (1 .. Len(wire))
    BY <2>1 DEF Late, Places
  <2> QED
    BY <2>2, <2>3, FS_Subset, FS_CardinalityType
<1> QED
  BY <1>2, <1>3

\* A connection stays guarded, and no console begins a line once it is.
LEMMA StepWriters ==
    ASSUME Labels, [Next]_vars, guarded
    PROVE  guarded' /\ Writers' \subseteq Writers
<1>1. CASE ReadTask \/ SendTask \/ Stopper \/ UNCHANGED vars
  <2>1. guarded' /\ linePc' = linePc
    BY <1>1
    DEF ReadTask, ReadChunk, AppendReceived, EndOfChunk, EndOfLoop, Takes, ReadLine, ReadGuard,
        ReadHandshake, ReadWrongHandshake, ReadBadFrame, ReadMessage, Writes, WriteAnswer,
        WriteHello, Guard, WriteReply, WriteCode, SendTask, TakeItem, SendGoes, SendStarts,
        SendWaits, SendTimesOut, SendLooks, WriteHeader, WriteBody, Stopper, protoVars,
        lineVars, vars
  <2> QED
    BY <2>1 DEF Writers
<1>2. CASE \E c \in Consoles : BeginLine(c)
  BY <1>2 DEF BeginLine, Unguarded
<1>3. CASE \E c \in Consoles : WriteLine(c)
  BY <1>3 DEF WriteLine, protoVars, Writers, Labels
<1> QED
  BY <1>1, <1>2, <1>3 DEF Next

\* A step keeps LateAndWriters.
LEMMA StepLate ==
    ASSUME IsFiniteSet(Consoles), Typed, Stage, LateAndWriters, [Next]_vars
    PROVE  LateAndWriters'
<1> DEFINE Top == Cardinality(Consoles)
<1>1. Typed' /\ Labels /\ Numbers
  BY StepTyped DEF Typed
<1>2. CASE wire' = wire
  <2> SUFFICES ASSUME NEW i \in Answers
               PROVE  guarded' /\ Cardinality(Late(i)) + Cardinality(Writers') <= Top
    BY <1>2 DEF LateAndWriters, Late, Answers, Places
  <2>1. guarded /\ Cardinality(Late(i)) + Cardinality(Writers) <= Top
    BY DEF LateAndWriters
  <2>2. guarded' /\ Writers' \in SUBSET Writers
    BY <1>1, <2>1, StepWriters
  <2>3. /\ Cardinality(Writers') <= Cardinality(Writers)
        /\ Cardinality(Writers') \in Nat
    BY <2>2, FiniteCounts, FS_Subset, FS_CardinalityType
  <2>4. i \in DOMAIN wire
    BY DEF Answers, Places
  <2> QED
    BY <2>1, <2>2, <2>3, <2>4, FiniteCounts
<1>3. CASE wire' # wire
  <2>1. PICK token \in TokenSet :
            /\ wire' = Append(wire, token)
            /\ \/ token \in {Header, Body} /\ UNCHANGED <<readPc, protoVars, linePc>>
               \/ token = Line /\ ConsoleWrites /\ UNCHANGED protoVars
               \/ /\ token \in Plain /\ ReadWrites(token)
                  /\ UNCHANGED <<guarded, linePc>>
    BY <1>3, TokenTellsWriter
  <2>2. /\ DOMAIN wire' = 1 .. Len(wire) + 1
        /\ DOMAIN wire = 1 .. Len(wire) /\ Len(wire) \in Nat
        /\ \A i \in 1 .. Len(wire) : wire'[i] = wire[i]
        /\ wire'[Len(wire) + 1] = token
    BY <2>1, Appended DEF Typed
  <2>3. \A i \in DOMAIN wire : Late(i)' =
            IF token.kind = "line" THEN Late(i) \cup {Len(wire) + 1} ELSE Late(i)
    BY <2>2 DEF Late, Places
  <2>4. \A i \in Answers : guarded /\ Cardinality(Late(i)) + Cardinality(Writers) <= Top
    BY DEF LateAndWriters
  <2>5. Answers' \subseteq Answers \cup {Len(wire) + 1}
    <3> SUFFICES ASSUME NEW i \in DOMAIN wire', i \in Answers'
                 PROVE  i \in Answers \/ i = Len(wire) + 1
      BY DEF Answers, Places
    <3>1. CASE i \in 1 .. Len(wire)
      <4>1. i \in DOMAIN wire /\ wire'[i] = wire[i]
        BY <2>2, <3>1
      <4> QED
        BY <4>1 DEF Answers, Places
    <3>2. i \in 1 .. Len(wire) \/ i = Len(wire) + 1
      BY <2>2
    <3> QED
      BY <3>1, <3>2
  <2>6. Answers \subseteq DOMAIN wire
    BY DEF Answers, Places
  <2>7. CASE token = Line /\ ConsoleWrites /\ UNCHANGED protoVars
    <3>1. PICK c \in Consoles :
              linePc[c] = "write" /\ linePc' = [linePc EXCEPT ![c] = "idle"]
      BY <2>7 DEF ConsoleWrites
    <3>2. Writers' = Writers \ {c} /\ c \in Writers
      BY <1>1, <3>1 DEF Writers, Labels
    <3>3. Cardinality(Writers') = Cardinality(Writers) - 1
      BY <3>2, FiniteCounts, FS_RemoveElement
    <3>4. token.kind = "line"
      BY <2>7, PlainKinds
    <3>5. Answers' \subseteq Answers
      BY <2>2, <2>5, <3>4 DEF Answers, Places
    <3> SUFFICES ASSUME NEW i \in Answers
                 PROVE  guarded' /\ Cardinality(Late(i)') + Cardinality(Writers') <= Top
      BY <3>5 DEF LateAndWriters, Late
    <3>6. Late(i)' = Late(i) \cup {Len(wire) + 1} /\ IsFiniteSet(Late(i))
      BY <2>3, <2>6, <3>4, FiniteCounts
    <3>7. Cardinality(Late(i)') <= Cardinality(Late(i)) + 1 /\ Cardinality(Late(i)') \in Nat
      <4>1. /\ IsFiniteSet(Late(i) \cup {Len(wire) + 1})
            /\ \/ Cardinality(Late(i) \cup {Len(wire) + 1}) = Cardinality(Late(i))
               \/ Cardinality(Late(i) \cup {Len(wire) + 1}) = Cardinality(Late(i)) + 1
        BY <3>6, FS_AddElement
      <4>2. Cardinality(Late(i)) \in Nat
        BY <3>6, FS_CardinalityType
      <4> QED
        BY <3>6, <4>1, <4>2
    <3>8. Cardinality(Late(i)) \in Nat /\ Cardinality(Writers) \in Nat /\ Top \in Nat
      BY <2>6, FiniteCounts
    <3>9. Cardinality(Late(i)') + Cardinality(Writers') <= Top
      BY <2>4, <3>3, <3>7, <3>8
    <3> QED
      BY <2>4, <2>7, <3>9 DEF protoVars
  <2>8. ASSUME UNCHANGED <<guarded, linePc>>, token.kind # "line",
               token.kind \in {"reply header", "code"} => guarded
        PROVE  LateAndWriters'
    <3>1. Writers' = Writers
      BY <2>8 DEF Writers
    <3> SUFFICES ASSUME NEW i \in Answers'
                 PROVE  guarded' /\ Cardinality(Late(i)') + Cardinality(Writers) <= Top
      BY <3>1 DEF LateAndWriters, Late
    <3>2. CASE i \in Answers
      <4>1. Late(i)' = Late(i)
        BY <2>3, <2>6, <2>8, <3>2
      <4> QED
        BY <2>4, <2>8, <3>2, <4>1
    <3>3. CASE i = Len(wire) + 1
      <4>1. guarded'
        BY <2>2, <2>8, <3>3 DEF Answers, Places
      <4>2. Late(i)' = {}
        BY <2>2, <3>3 DEF Late, Places
      <4>3. Cardinality(Late(i)') = 0
        BY <4>2, FS_EmptySet
      <4>4. Cardinality(Late(i)') + Cardinality(Writers) <= Top
        BY <4>3, FiniteCounts
      <4> QED
        BY <4>1, <4>4
    <3> QED
      BY <2>5, <3>2, <3>3
  <2>9. CASE token \in {Header, Body} /\ UNCHANGED <<readPc, protoVars, linePc>>
    BY <2>8, <2>9, PlainKinds DEF protoVars
  <2>10. CASE token \in Plain /\ ReadWrites(token) /\ UNCHANGED <<guarded, linePc>>
    <3>1. CASE token = Line
      <4>1. ~guarded
        BY <2>10, <3>1 DEF ReadWrites, Stage
      <4>2. Answers' \subseteq Answers
        BY <2>2, <2>5, <3>1, PlainKinds DEF Answers, Places
      <4> QED
        BY <2>4, <4>1, <4>2 DEF LateAndWriters
    <3>2. CASE token = ReplyHeader \/ token = Code
      <4>1. guarded
        BY <2>10, <3>2, PlainKinds DEF ReadWrites, Stage
      <4> QED
        BY <2>8, <2>10, <3>2, <4>1, PlainKinds
    <3>3. CASE token = EmptyHeader \/ token = ReplyBody
      BY <2>8, <2>10, <3>3, PlainKinds
    <3> QED
      BY <2>10, <3>1, <3>2, <3>3 DEF Plain
  <2> QED
    BY <2>1, <2>7, <2>9, <2>10
<1> QED
  BY <1>2, <1>3

\* However many lines the consoles send, at most one more of each comes after an
\* answer to a frame (sendLine() of main/fd_connection.cpp tests _guarded before
\* it takes _writeMtx), for any finite number of consoles.
THEOREM LateLinesHolds == IsFiniteSet(Consoles) => (Spec => []LateLines)
<1> SUFFICES ASSUME IsFiniteSet(Consoles) PROVE Spec => []LateLines
  OBVIOUS
<1>1. Init => LateAndWriters
  <2>1. Init => wire = <<>>
    BY DEF Init
  <2>2. Init => Answers = {}
    BY <2>1 DEF Answers, Places
  <2> QED
    BY <2>2 DEF LateAndWriters
<1>2. Typed /\ Stage /\ LateAndWriters /\ [Next]_vars => LateAndWriters'
  BY StepLate
<1>3. Typed /\ LateAndWriters => LateLines
  <2> SUFFICES ASSUME Typed, LateAndWriters, NEW i \in Answers
               PROVE  Cardinality(Late(i)) <= Cardinality(Consoles)
    BY DEF LateLines, Answers, Late
  <2>1. i \in DOMAIN wire
    BY DEF Answers, Places
  <2> QED
    BY <2>1, FiniteCounts DEF LateAndWriters
<1> QED
  BY <1>1, <1>2, <1>3, AlwaysTyped, StageHolds, PTL DEF Spec

-----------------------------------------------------------------------------
(* The frames can be told apart.  Where the tasks are says which framing   *)
(* token is the last one on the wire, so each finds the one it must follow.*)

NoFraming == Places(Framing) = {}

LastFraming(kinds) ==
    \E i \in Places(kinds) : \A k \in Places(Framing) : k <= i

Position ==
    open =>
        /\ ~guarded /\ readPc # "guard" => NoFraming
        /\ readPc = "guard" \/ (guarded /\ ~handshake) \/ readPc = "reply header" =>
                LastFraming({"empty header"})
        /\ readPc = "reply body" => LastFraming({"reply header"})
        /\ sendReady /\ sendPc # "body" => LastFraming({"reply body", "body"})
        /\ sendPc = "body" =>
                \E i \in Places({"header"}) :
                    wire[i].n = item /\ \A k \in Places(Framing) : k <= i

\* Every token is of a message that was taken, and of an earlier one until the
\* header of the message is written.
Taken ==
    /\ \A k \in DOMAIN wire : wire[k].n <= item
    /\ sendPc \in {"send", "wait", "encrypted", "header"} =>
          item # 0 /\ \A k \in DOMAIN wire : wire[k].n < item

\* What a new token does to the places of some kinds.
LEMMA PlacesGrow ==
    ASSUME Typed, NEW token \in TokenSet, wire' = Append(wire, token), NEW kinds
    PROVE  /\ Places(kinds) \subseteq 1 .. Len(wire)
           /\ token.kind \in kinds => Places(kinds)' = Places(kinds) \cup {Len(wire) + 1}
           /\ token.kind \notin kinds => Places(kinds)' = Places(kinds)
<1>1. /\ DOMAIN wire' = 1 .. Len(wire) + 1
      /\ DOMAIN wire = 1 .. Len(wire) /\ Len(wire) \in Nat
      /\ \A i \in 1 .. Len(wire) : wire'[i] = wire[i]
      /\ wire'[Len(wire) + 1] = token
  BY Appended DEF Typed
<1>2. Places(kinds) \subseteq 1 .. Len(wire)
  BY <1>1 DEF Places
<1>3. Places(kinds)' = {i \in 1 .. Len(wire) + 1 : wire'[i].kind \in kinds}
  BY <1>1 DEF Places
<1>4. Places(kinds) = {i \in 1 .. Len(wire) : wire'[i].kind \in kinds}
  BY <1>1 DEF Places
<1> QED
  BY <1>1, <1>2, <1>3, <1>4

\* A token may come if it follows the framing token it must follow.
MayCome(token) ==
    /\ token.kind = "empty header" => NoFraming
    /\ token.kind = "reply header" => LastFraming({"empty header"})
    /\ token.kind = "reply body" => LastFraming({"reply header"})
    /\ token.kind = "header" =>
          /\ LastFraming({"reply body", "body"})
          /\ \A j \in Places(Framing) : wire[j].n < token.n
    /\ token.kind = "body" =>
          \E i \in Places({"header"}) :
              wire[i].n = token.n /\ \A k \in Places(Framing) : k <= i

\* A token that may come keeps the frames apart.
LEMMA StepWellFramed ==
    ASSUME Typed, NEW token \in TokenSet, wire' = Append(wire, token), MayCome(token),
           WellFramed
    PROVE  WellFramed'
<1>1. PICK n \in Nat : n = Len(wire)
  BY DEF Typed
<1>2. /\ DOMAIN wire = 1 .. n
      /\ \A i \in 1 .. n : wire'[i] = wire[i]
      /\ wire'[n + 1] = token
  BY <1>1, Appended DEF Typed
<1>3. \A kinds : /\ Places(kinds) \subseteq 1 .. n
                 /\ Places(kinds) \subseteq Places(kinds)'
                 /\ Places(kinds)' \subseteq Places(kinds) \cup {n + 1}
                 /\ n + 1 \in Places(kinds)' => token.kind \in kinds
  BY PlacesGrow, <1>1
<1>4. n + 1 <= n + 1 /\ \A m \in 1 .. n : m <= n + 1
  BY <1>1
<1>5. \A i \in 1 .. n, j \in 1 .. n : LastBefore(j, i) => LastBefore(j, i)'
  BY <1>2, <1>3 DEF LastBefore
<1>6. \A j \in Places(Framing) :
          (\A k \in Places(Framing) : k <= j) => LastBefore(j, n + 1)'
  <2> SUFFICES ASSUME NEW j \in Places(Framing), \A k \in Places(Framing) : k <= j
               PROVE  LastBefore(j, n + 1)'
    OBVIOUS
  <2>1. /\ j \in Places(Framing)' /\ j \in 1 .. n
        /\ Places(Framing)' \subseteq Places(Framing) \cup {n + 1}
    BY <1>3
  <2>2. j < n + 1
    BY <1>1, <2>1
  <2>3. \A k \in Places(Framing)' : k < n + 1 => k <= j
    BY <1>1, <2>1
  <2> QED
    BY <2>1, <2>2, <2>3 DEF LastBefore
<1> DEFINE Follows(i, kinds) == \E j \in Places(kinds) : LastBefore(j, i)
<1>7. ASSUME NEW kinds, NEW i \in 1 .. n, Follows(i, kinds) PROVE Follows(i, kinds)'
  BY <1>3, <1>5, <1>7
<1>8. ASSUME NEW kinds \in SUBSET Framing, LastFraming(kinds) PROVE Follows(n + 1, kinds)'
  <2>1. PICK j \in Places(kinds) : \A k \in Places(Framing) : k <= j
    BY <1>8 DEF LastFraming
  <2>2. j \in Places(Framing)
    BY DEF Places
  <2>3. LastBefore(j, n + 1)'
    BY <1>6, <2>1, <2>2
  <2> QED
    BY <1>3, <2>1, <2>3
<1> HIDE DEF Follows
<1>9. ASSUME NEW type, NEW kinds \in SUBSET Framing,
              \A i \in Places({type}) : Follows(i, kinds),
              token.kind = type => LastFraming(kinds), NEW i \in Places({type})'
       PROVE  Follows(i, kinds)'
  <2>1. CASE i \in Places({type})
    <3>1. i \in 1 .. n /\ Follows(i, kinds)
      BY <1>3, <1>9, <2>1
    <3> QED
      BY <1>7, <3>1
  <2>2. CASE i = n + 1
    <3>1. token.kind = type
      BY <1>3, <2>2
    <3>2. LastFraming(kinds)
      BY <1>9, <3>1
    <3> QED
      BY <1>8, <2>2, <3>2
  <2> QED
    BY <1>3, <2>1, <2>2
<1>10. ASSUME NEW i \in Places({"empty header"})', NEW j \in Places(Framing)'
      PROVE  i <= j
  <2>1. CASE i = n + 1
    <3>1. NoFraming
      BY <1>3, <2>1 DEF MayCome
    <3>2. j = n + 1
      BY <1>3, <3>1 DEF NoFraming
    <3> QED
      BY <1>4, <2>1, <3>2, Zenon
  <2>2. CASE i # n + 1
    <3>1. i \in Places({"empty header"}) /\ i \in 1 .. n
      BY <1>3, <2>2
    <3>2. CASE j \in Places(Framing)
      BY <3>1, <3>2 DEF WellFramed
    <3>3. CASE j = n + 1
      BY <1>4, <3>1, <3>3, Zenon
    <3> QED
      BY <1>3, <3>2, <3>3
  <2> QED
    BY <2>1, <2>2
<1>11. \A i \in Places({"reply header"})' : Follows(i, {"empty header"})'
  <2>1. \A i \in Places({"reply header"}) : Follows(i, {"empty header"})
    BY DEF WellFramed, Follows
  <2> QED
    BY <1>9, <2>1 DEF MayCome, Framing
<1>12. \A i \in Places({"reply body"})' : Follows(i, {"reply header"})'
  <2>1. \A i \in Places({"reply body"}) : Follows(i, {"reply header"})
    BY DEF WellFramed, Follows
  <2> QED
    BY <1>9, <2>1 DEF MayCome, Framing
<1>13. \A i \in Places({"header"})' : Follows(i, {"reply body", "body"})'
  <2>1. \A i \in Places({"header"}) : Follows(i, {"reply body", "body"})
    BY DEF WellFramed, Follows
  <2> QED
    BY <1>9, <2>1 DEF MayCome, Framing
<1>14. ASSUME NEW i \in Places({"header"})', NEW j \in Places(Framing)', j < i
       PROVE  wire'[j].n < wire'[i].n
  <2>1. CASE i = n + 1
    <3>1. \A k \in Places(Framing) : wire[k].n < token.n
      BY <1>3, <2>1 DEF MayCome
    <3>2. j \in Places(Framing) /\ j \in 1 .. n
      BY <1>2, <1>3, <1>14, <2>1
    <3> QED
      BY <1>2, <2>1, <3>1, <3>2
  <2>2. CASE i # n + 1
    <3>1. i \in Places({"header"}) /\ i \in 1 .. n
      BY <1>3, <2>2
    <3>2. j \in Places(Framing) /\ j \in 1 .. n
      BY <1>2, <1>3, <1>14, <3>1
    <3>3. wire[j].n < wire[i].n
      BY <1>14, <3>1, <3>2 DEF WellFramed
    <3> QED
      BY <1>2, <3>1, <3>2, <3>3
  <2> QED
    BY <2>1, <2>2
<1>15. ASSUME NEW i \in Places({"body"})'
       PROVE  \E j \in Places({"header"})' : LastBefore(j, i)' /\ wire'[j].n = wire'[i].n
  <2>1. CASE i = n + 1
    <3>1. PICK j \in Places({"header"}) :
              wire[j].n = token.n /\ \A k \in Places(Framing) : k <= j
      BY <1>3, <2>1 DEF MayCome
    <3>2. j \in Places(Framing) /\ j \in 1 .. n
      BY <1>3 DEF Places, Framing
    <3>3. LastBefore(j, n + 1)'
      BY <1>6, <3>1, <3>2
    <3>4. wire'[j].n = wire'[i].n
      BY <1>2, <2>1, <3>1, <3>2
    <3> QED
      <4>1. j \in Places({"header"})'
        BY <1>3
      <4> QED
        BY <2>1, <3>3, <3>4, <4>1
  <2>2. CASE i # n + 1
    <3>1. i \in Places({"body"}) /\ i \in 1 .. n
      BY <1>3, <2>2
    <3>2. PICK j \in Places({"header"}) : LastBefore(j, i) /\ wire[j].n = wire[i].n
      BY <3>1 DEF WellFramed
    <3>3. j \in 1 .. n /\ j \in Places({"header"})'
      BY <1>3
    <3>4. LastBefore(j, i)'
      BY <1>5, <3>1, <3>2, <3>3
    <3>5. wire'[j].n = wire'[i].n
      BY <1>2, <3>1, <3>2, <3>3
    <3> QED
      BY <3>3, <3>4, <3>5
  <2> QED
    BY <2>1, <2>2
<1> QED
  BY <1>10, <1>11, <1>12, <1>13, <1>14, <1>15 DEF WellFramed, Follows

\* A step keeps Taken: the number of the message grows before anything of it is
\* written, and the header is the first thing written.
LEMMA StepTaken ==
    ASSUME Typed, Taken, [Next]_vars
    PROVE  Taken'
<1>1. \A k \in DOMAIN wire : wire[k].n \in Nat
  <2>1. \A k \in DOMAIN wire : wire[k] \in TokenSet
    BY DEF Typed
  <2> QED
    BY <2>1, BoundsAssumption DEF TokenSet
<1>2. item \in Nat
  BY BoundsAssumption DEF Typed, Numbers
<1> DEFINE Before == {"send", "wait", "encrypted", "header"}
<1>3. CASE wire' = wire
  <2>1. \/ item' = item + 1
        \/ UNCHANGED item /\ (sendPc' \in Before => sendPc \in Before)
    <3>1. CASE ReadTask
      BY <3>1
      DEF ReadTask, ReadChunk, AppendReceived, EndOfChunk, EndOfLoop, Takes, ReadLine,
          ReadGuard, ReadHandshake, ReadWrongHandshake, ReadBadFrame, ReadMessage, Writes,
          WriteAnswer, WriteHello, Guard, WriteReply, WriteCode, sendVars
    <3>2. CASE SendTask
      BY <3>2
      DEF SendTask, TakeItem, SendGoes, SendStarts, SendWaits, SendTimesOut, SendLooks,
          WriteHeader, WriteBody
    <3>3. CASE \E c \in Consoles : BeginLine(c) \/ WriteLine(c)
      BY <3>3 DEF BeginLine, WriteLine, sendVars
    <3>4. CASE Stopper
      BY <3>4 DEF Stopper, sendVars
    <3>5. CASE UNCHANGED vars
      BY <3>5 DEF vars, sendVars
    <3> QED
      BY <3>1, <3>2, <3>3, <3>4, <3>5 DEF Next
  <2>2. CASE item' = item + 1
    BY <1>1, <1>2, <1>3, <2>2 DEF Taken
  <2>3. CASE UNCHANGED item /\ (sendPc' \in Before => sendPc \in Before)
    BY <1>3, <2>3 DEF Taken
  <2> QED
    BY <2>1, <2>2, <2>3
<1>4. CASE wire' # wire
  <2>1. PICK token \in TokenSet :
            /\ wire' = Append(wire, token)
            /\ UNCHANGED item
            /\ \/ token \in {Header, Body} /\ sendPc' \in {"body", "idle"}
               \/ token \in Plain /\ UNCHANGED sendPc
    BY <1>4, TokenTellsWriter DEF Plain
  <2>2. /\ DOMAIN wire' = 1 .. Len(wire) + 1
        /\ DOMAIN wire = 1 .. Len(wire) /\ Len(wire) \in Nat
        /\ \A i \in 1 .. Len(wire) : wire'[i] = wire[i]
        /\ wire'[Len(wire) + 1] = token
    BY <2>1, Appended DEF Typed
  <2>3. token.n = item \/ (token.n = 0 /\ UNCHANGED sendPc)
    <3>1. Header.n = item /\ Body.n = item
      BY DEF Header, Body, Token
    <3> QED
      BY <2>1, <3>1, PlainKinds
  <2>4. \A k \in DOMAIN wire' : wire'[k].n <= item
    BY <1>2, <2>2, <2>3 DEF Taken
  <2>5. sendPc' \in Before => item # 0 /\ \A k \in DOMAIN wire' : wire'[k].n < item
    <3> SUFFICES ASSUME sendPc' \in Before
                 PROVE  item # 0 /\ \A k \in DOMAIN wire' : wire'[k].n < item
      OBVIOUS
    <3>1. token \in Plain /\ sendPc \in Before
      BY <2>1
    <3>2. item # 0 /\ \A k \in DOMAIN wire : wire[k].n < item
      BY <3>1 DEF Taken
    <3>3. token.n = 0
      BY <3>1, PlainKinds
    <3> QED
      BY <1>2, <2>2, <3>2, <3>3
  <2> QED
    BY <2>1, <2>4, <2>5 DEF Taken
<1> QED
  BY <1>3, <1>4

\* A step that writes nothing moves no task past a write.
LEMMA QuietControl ==
    ASSUME Typed, Stage, [Next]_vars, open', wire' = wire
    PROVE  /\ open
           /\ ~guarded' /\ readPc' # "guard" => ~guarded /\ readPc # "guard"
           /\ readPc' = "guard" => readPc = "guard"
           /\ guarded' /\ ~handshake' => readPc = "guard" \/ (guarded /\ ~handshake)
           /\ readPc' = "reply header" => readPc = "reply header" \/ (guarded /\ ~handshake)
           /\ readPc' = "reply body" => readPc = "reply body"
           /\ sendReady' /\ sendPc' # "body" => sendReady /\ sendPc # "body"
           /\ sendPc' = "body" => sendPc = "body"
           /\ sendPc' = "body" => item' = item
<1>1. open /\ Flags /\ Flags' /\ (sendPc' = "body" => sendPc = "body")
      /\ (sendPc = "body" => sendPc' = "body")
  <2>1. Body \in TokenSet /\ Header \in TokenSet
    BY TokensTyped DEF Typed
  <2>2. Append(wire, Body) # wire /\ Append(wire, Header) # wire
    BY <2>1, Grows DEF Typed
  <2> QED
    BY <2>2, StepSend, StepFlags DEF Typed
<1>2. \A token \in Plain : Append(wire, token) # wire
  BY TokensTyped, Grows DEF Typed
<1> USE DEF Stage, Flags, protoVars, sendVars
<1>3. CASE ReadTask
  <2>1. CASE WriteAnswer \/ WriteHello \/ WriteReply
    BY <1>1, <1>2, <2>1
    DEF Writes, Write, WriteAnswer, WriteHello, WriteReply, WithBody, closeVars, Plain
  <2>2. CASE ~(WriteAnswer \/ WriteHello \/ WriteReply)
    BY <1>1, <1>3, <2>2
    DEF ReadTask, ReadChunk, AppendReceived, EndOfChunk, EndOfLoop, Takes, ReadLine, ReadGuard,
        ReadHandshake, ReadWrongHandshake, ReadBadFrame, ReadMessage, Guard, WriteCode
  <2> QED
    BY <2>1, <2>2
<1>4. CASE SendTask
  BY <1>1, <1>4
  DEF SendTask, TakeItem, SendGoes, SendStarts, SendWaits, SendTimesOut, SendLooks,
      WriteHeader, WriteBody
<1>5. CASE \E c \in Consoles : BeginLine(c) \/ WriteLine(c)
  <2>1. UNCHANGED <<guarded, handshake, sendReady, readPc, sendPc, item>>
    BY <1>5 DEF BeginLine, WriteLine
  <2> QED
    BY <1>1, <2>1
<1>6. CASE Stopper
  BY <1>1, <1>6 DEF Stopper
<1>7. CASE UNCHANGED vars
  BY <1>1, <1>7 DEF vars
<1> QED
  BY <1>3, <1>4, <1>5, <1>6, <1>7 DEF Next

\* The last framing token is the new one.
LEMMA LastIsNew ==
    ASSUME Typed, NEW token \in TokenSet, wire' = Append(wire, token), NEW kinds,
           token.kind \in kinds
    PROVE  LastFraming(kinds)'
<1>0. PICK n \in Nat : n = Len(wire)
  BY DEF Typed
<1>1. n + 1 \in Places(kinds)'
  BY <1>0, PlacesGrow
<1>2. Places(Framing) \subseteq 1 .. n /\ Places(Framing)' \subseteq Places(Framing) \cup {n + 1}
  BY <1>0, PlacesGrow
<1>3. \A k \in Places(Framing)' : k <= n + 1
  BY <1>0, <1>2
<1> QED
  BY <1>1, <1>3 DEF LastFraming

\* A token that is not a framing one leaves the last framing token where it is.
LEMMA LastIsOld ==
    ASSUME Typed, NEW token \in TokenSet, wire' = Append(wire, token),
           token.kind \notin Framing
    PROVE  /\ NoFraming => NoFraming'
           /\ \A kinds \in SUBSET Framing : LastFraming(kinds) => LastFraming(kinds)'
           /\ \A i \in Places({"header"}) :
                  (\A k \in Places(Framing) : k <= i) =>
                      /\ i \in Places({"header"})' /\ wire'[i] = wire[i]
                      /\ \A k \in Places(Framing)' : k <= i
<1>1. \A kinds \in SUBSET Framing : Places(kinds)' = Places(kinds)
  BY PlacesGrow
<1>2. Places({"header"})' = Places({"header"}) /\ Places(Framing)' = Places(Framing)
  BY <1>1 DEF Framing
<1>3. \A i \in Places({"header"}) : wire'[i] = wire[i]
  BY Appended DEF Typed, Places
<1> QED
  BY <1>1, <1>2, <1>3 DEF NoFraming, LastFraming

\* What a step writes may come.
LEMMA WritesMayCome ==
    ASSUME Typed, Stage, Position, Taken, [Next]_vars, wire' # wire
    PROVE  \E token \in TokenSet : wire' = Append(wire, token) /\ MayCome(token)
<1>1. PICK token \in TokenSet :
          /\ open
          /\ wire' = Append(wire, token)
          /\ \/ token = Header /\ sendPc = "header"
             \/ token = Body /\ sendPc = "body"
             \/ token = Line
             \/ token \in Plain /\ ReadWrites(token)
  BY TokenTellsWriter
<1>2. CASE token = Header /\ sendPc = "header"
  <2>1. LastFraming({"reply body", "body"})
    BY <1>1, <1>2 DEF Position, Stage
  <2>2. \A j \in Places(Framing) : wire[j].n < item
    BY <1>2 DEF Taken, Places
  <2>3. Header.n = item
    BY DEF Header, Token
  <2>4. MayCome(token)
    BY <1>2, <2>1, <2>2, <2>3, PlainKinds DEF MayCome
  <2> QED
    BY <1>1, <2>4
<1>3. CASE token = Body /\ sendPc = "body"
  <2>1. \E i \in Places({"header"}) : wire[i].n = item /\ \A k \in Places(Framing) : k <= i
    BY <1>1, <1>3 DEF Position
  <2>2. Body.n = item
    BY DEF Body, Token
  <2>3. MayCome(token)
    BY <1>3, <2>1, <2>2, PlainKinds DEF MayCome
  <2> QED
    BY <1>1, <2>3
<1>4. CASE token = Line \/ token = Code
  BY <1>1, <1>4, PlainKinds DEF MayCome
<1>5. CASE token = EmptyHeader /\ ReadWrites(token)
  <2>1. NoFraming
    BY <1>1, <1>5 DEF ReadWrites, Stage, Position
  <2> QED
    BY <1>1, <1>5, <2>1, PlainKinds DEF MayCome
<1>6. CASE token = ReplyHeader /\ ReadWrites(token)
  <2>1. LastFraming({"empty header"})
    BY <1>1, <1>6 DEF ReadWrites, Stage, Position
  <2> QED
    BY <1>1, <1>6, <2>1, PlainKinds DEF MayCome
<1>7. CASE token = ReplyBody /\ ReadWrites(token)
  <2>1. LastFraming({"reply header"})
    BY <1>1, <1>7 DEF ReadWrites, Stage, Position
  <2> QED
    BY <1>1, <1>7, <2>1, PlainKinds DEF MayCome
<1> QED
  BY <1>1, <1>2, <1>3, <1>4, <1>5, <1>6, <1>7 DEF Plain

\* A header that is written is the last framing token.
LEMMA HeaderIsLast ==
    ASSUME Typed, wire' = Append(wire, Header), item' = item
    PROVE  \E i \in Places({"header"})' :
              wire'[i].n = item' /\ \A k \in Places(Framing)' : k <= i
<1>0. PICK n \in Nat : n = Len(wire)
  BY DEF Typed
<1>1. Header \in TokenSet /\ Header.kind = "header" /\ Header.n = item
  <2>1. Header.kind = "header" /\ Header.n = item
    BY DEF Header, Token
  <2> QED
    BY <2>1, TokensTyped DEF Typed
<1>2. wire'[n + 1] = Header
  BY <1>0, <1>1, Appended DEF Typed
<1>3. n + 1 \in Places({"header"})'
  BY <1>0, <1>1, PlacesGrow
<1>4. Places(Framing) \subseteq 1 .. n /\ Places(Framing)' \subseteq Places(Framing) \cup {n + 1}
  BY <1>0, <1>1, PlacesGrow
<1>5. \A k \in Places(Framing)' : k <= n + 1
  BY <1>0, <1>4
<1> QED
  BY <1>1, <1>2, <1>3, <1>5

\* A step keeps the tasks where the last framing token says.
LEMMA StepPosition ==
    ASSUME Typed, Stage, Position, [Next]_vars
    PROVE  Position'
<1> SUFFICES ASSUME open' PROVE Position'
  BY DEF Position
<1>0. open
  BY StepSend
<1>1. CASE wire' = wire
  <2>1. \A kinds : Places(kinds)' = Places(kinds)
    BY <1>1 DEF Places
  <2>2. NoFraming' = NoFraming /\ \A kinds : LastFraming(kinds)' = LastFraming(kinds)
    BY <2>1 DEF NoFraming, LastFraming
  <2>3. ~guarded' /\ readPc' # "guard" => NoFraming'
    BY <1>0, <1>1, <2>2, QuietControl DEF Position
  <2>4. readPc' = "guard" \/ (guarded' /\ ~handshake') \/ readPc' = "reply header" =>
            LastFraming({"empty header"})'
    BY <1>0, <1>1, <2>2, QuietControl DEF Position
  <2>5. readPc' = "reply body" => LastFraming({"reply header"})'
    BY <1>0, <1>1, <2>2, QuietControl DEF Position
  <2>6. sendReady' /\ sendPc' # "body" => LastFraming({"reply body", "body"})'
    BY <1>0, <1>1, <2>2, QuietControl DEF Position
  <2>7. sendPc' = "body" =>
            \E i \in Places({"header"})' :
                wire'[i].n = item' /\ \A k \in Places(Framing)' : k <= i
    <3>1. sendPc' = "body" => sendPc = "body" /\ item' = item
      BY <1>1, QuietControl
    <3> QED
      BY <1>0, <1>1, <2>1, <3>1 DEF Position
  <2> QED
    BY <2>3, <2>4, <2>5, <2>6, <2>7 DEF Position
<1>2. CASE wire' # wire
  <2>1. PICK token \in TokenSet :
            /\ wire' = Append(wire, token)
            /\ UNCHANGED item
            /\ \/ /\ token = Header /\ sendPc = "header" /\ sendPc' = "body"
                  /\ UNCHANGED <<readPc, guarded, handshake, sendReady>>
               \/ /\ token = Body /\ sendPc = "body" /\ sendPc' = "idle"
                  /\ UNCHANGED <<readPc, guarded, handshake, sendReady>>
               \/ token = Line /\ UNCHANGED <<sendPc, readPc, guarded, handshake, sendReady>>
               \/ /\ token \in Plain /\ ReadWrites(token)
                  /\ UNCHANGED <<sendPc, guarded, handshake>>
    BY <1>2, TokenTellsWriter DEF protoVars
  <2> USE DEF Stage, Position
  <2>2. CASE /\ token = Header /\ sendPc = "header" /\ sendPc' = "body"
             /\ UNCHANGED <<readPc, guarded, handshake, sendReady>>
    <3>1. guarded' /\ handshake' /\ readPc' \notin {"guard", "reply header", "reply body"}
      BY <2>2
    <3>2. \E i \in Places({"header"})' :
              wire'[i].n = item' /\ \A k \in Places(Framing)' : k <= i
      BY <2>1, <2>2, HeaderIsLast
    <3> QED
      BY <2>2, <3>1, <3>2
  <2>3. CASE /\ token = Body /\ sendPc = "body" /\ sendPc' = "idle"
             /\ UNCHANGED <<readPc, guarded, handshake, sendReady>>
    <3>1. guarded' /\ handshake' /\ readPc' \notin {"guard", "reply header", "reply body"}
      BY <2>3
    <3>2. LastFraming({"reply body", "body"})'
      BY <2>1, <2>3, LastIsNew, PlainKinds
    <3> QED
      BY <2>3, <3>1, <3>2
  <2>4. CASE token = EmptyHeader /\ ReadWrites(token) /\ UNCHANGED <<sendPc, guarded, handshake>>
    <3>1. LastFraming({"empty header"})'
      BY <2>1, <2>4, LastIsNew, PlainKinds
    <3>2. ~guarded /\ ~sendReady /\ ~sendReady' /\ sendPc' # "body" /\ readPc' = "guard"
      BY <2>4, PlainKinds DEF ReadWrites
    <3> QED
      BY <2>4, <3>1, <3>2
  <2>5. CASE token = ReplyHeader /\ ReadWrites(token) /\ UNCHANGED <<sendPc, guarded, handshake>>
    <3>1. LastFraming({"reply header"})'
      BY <2>1, <2>5, LastIsNew, PlainKinds
    <3>2. guarded' /\ handshake' /\ ~sendReady' /\ sendPc' # "body" /\ readPc' = "reply body"
      BY <2>5, PlainKinds DEF ReadWrites
    <3> QED
      BY <3>1, <3>2
  <2>6. CASE token = ReplyBody /\ ReadWrites(token) /\ UNCHANGED <<sendPc, guarded, handshake>>
    <3>1. LastFraming({"reply body", "body"})'
      BY <2>1, <2>6, LastIsNew, PlainKinds
    <3>2. guarded' /\ handshake' /\ sendPc' # "body" /\ readPc' = "frames"
      BY <2>6 DEF ReadWrites
    <3> QED
      BY <3>1, <3>2
  <2>7. ASSUME token.kind \notin Framing,
               \/ UNCHANGED <<sendPc, readPc, guarded, handshake, sendReady>>
               \/ /\ UNCHANGED <<sendPc, guarded, handshake>> /\ (sendReady' => sendReady)
                  /\ \/ readPc = "answer" /\ readPc' = "read"
                     \/ readPc = "code" /\ readPc' = "frames"
        PROVE  Position'
    <3>1. NoFraming => NoFraming'
      BY <2>1, <2>7, LastIsOld
    <3>2. /\ LastFraming({"empty header"}) => LastFraming({"empty header"})'
          /\ LastFraming({"reply header"}) => LastFraming({"reply header"})'
          /\ LastFraming({"reply body", "body"}) => LastFraming({"reply body", "body"})'
      BY <2>1, <2>7, LastIsOld DEF Framing
    <3>3. ASSUME sendPc = "body"
          PROVE  \E i \in Places({"header"})' :
                     wire'[i].n = item' /\ \A k \in Places(Framing)' : k <= i
      BY <1>0, <2>1, <2>7, <3>3, LastIsOld
    <3>8. /\ guarded' = guarded /\ handshake' = handshake
          /\ readPc' = "guard" <=> readPc = "guard"
          /\ readPc' = "reply header" <=> readPc = "reply header"
      BY <2>7
    <3>4. ~guarded' /\ readPc' # "guard" => NoFraming'
      BY <1>0, <3>1, <3>8
    <3>5. readPc' = "guard" \/ (guarded' /\ ~handshake') \/ readPc' = "reply header" =>
              LastFraming({"empty header"})'
      BY <1>0, <3>2, <3>8
    <3>6. readPc' = "reply body" => LastFraming({"reply header"})'
      BY <1>0, <2>7, <3>2
    <3>7. sendReady' /\ sendPc' # "body" => LastFraming({"reply body", "body"})'
      BY <1>0, <2>7, <3>2
    <3> QED
      BY <2>7, <3>3, <3>4, <3>5, <3>6, <3>7
  <2>8. CASE token = Line \/ token = Code
    <3>1. token.kind \notin Framing
      BY <2>8, PlainKinds DEF Framing
    <3> QED
      BY <2>1, <2>7, <2>8, <3>1, PlainKinds DEF ReadWrites
  <2> QED
    BY <2>1, <2>2, <2>3, <2>4, <2>5, <2>6, <2>8 DEF Plain
<1> QED
  BY <1>1, <1>2

\* Whatever the consoles write in between, the empty header, the reply and the
\* frames come in the order in which the peer expects them (init(),
\* sendHandshake(), send() of main/protocol/), for every protocol, any number of
\* consoles and messages, and through a stop at any time.
THEOREM WellFramedHolds == Spec => []WellFramed
<1> DEFINE Inv == Position /\ Taken /\ WellFramed
<1>1. Init => Inv
  <2> SUFFICES ASSUME Init PROVE Inv
    OBVIOUS
  <2>1. wire = <<>> /\ ~guarded /\ readPc = "loop" /\ sendPc = "idle" /\ ~sendReady
    BY DEF Init
  <2>2. \A kinds : Places(kinds) = {}
    BY <2>1 DEF Places
  <2>3. Position
    BY <2>1, <2>2 DEF Position, NoFraming
  <2>4. Taken
    BY <2>1 DEF Taken
  <2>5. WellFramed
    BY <2>2 DEF WellFramed
  <2> QED
    BY <2>3, <2>4, <2>5
<1>2. Typed /\ Stage /\ Inv /\ [Next]_vars => Inv'
  <2> SUFFICES ASSUME Typed, Stage, Inv, [Next]_vars PROVE Inv'
    OBVIOUS
  <2>1. Position' /\ Taken'
    BY StepPosition, StepTaken
  <2>2. CASE wire' = wire
    <3>1. \A kinds : Places(kinds)' = Places(kinds)
      BY <2>2 DEF Places
    <3>2. WellFramed'
      BY <2>2, <3>1 DEF WellFramed, LastBefore
    <3> QED
      BY <2>1, <3>2
  <2>3. CASE wire' # wire
    <3>1. PICK token \in TokenSet : wire' = Append(wire, token) /\ MayCome(token)
      BY <2>3, WritesMayCome
    <3>2. WellFramed'
      BY <3>1, StepWellFramed
    <3> QED
      BY <2>1, <3>2
  <2> QED
    BY <2>2, <2>3
<1> QED
  BY <1>1, <1>2, AlwaysTyped, StageHolds, PTL DEF Spec
===============================================================================
