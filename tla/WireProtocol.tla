---------------------------- MODULE WireProtocol ----------------------------
(***************************************************************************)
(* The bytes a connection writes (main/protocol/, and sendBytes(),         *)
(* sendLine() of main/fd_connection.cpp).  Three tasks write on one        *)
(* descriptor: the read task (answers to lines, the empty header, the      *)
(* handshake reply, error codes), the send task (frames), and the tasks    *)
(* that call sendLine() from outside (the serial console).                 *)
(*                                                                         *)
(* _writeMtx makes each writeCb() and each line one unit, so the wire is a *)
(* sequence of such units, the tokens below.  Nothing keeps the two        *)
(* writeCb() calls of a frame together but the order of the tasks' steps,  *)
(* which is what this module is about.  The contents of lines and frames,  *)
(* and cryptography, are left out: a frame can be read or it cannot.       *)
(***************************************************************************)
EXTENDS Integers, Sequences, FiniteSets

CONSTANTS
    Kinds,       \* the protocols: "raw", "passphrase" and "ephemeral"
    Consoles,    \* the tasks that call sendLine() from outside
    Sizes,       \* sizes of the messages that are queued
    MaxItems,    \* bound: messages queued
    MaxInput,    \* bound: lines and frames that the peer sends
    MaxLines     \* bound: lines that each console sends

ASSUME KindsAssumption == Kinds \subseteq {"raw", "passphrase", "ephemeral"}
ASSUME BoundsAssumption ==
    /\ Sizes \subseteq Nat \ {0}
    /\ MaxItems \in Nat
    /\ MaxInput \in Nat
    /\ MaxLines \in Nat

VARIABLES
    kind,        \* the protocol that was configured
    guarded,     \* _guarded
    handshake,   \* handshakeReceived
    sendReady,   \* the binary semaphore
    running,     \* _running
    isClosed,    \* Protocol::isClosed
    open,        \* the descriptor is open
    wire,        \* the tokens written on it
    input,       \* number of lines and frames read
    readPc,      \* where the read task is
    sendPc,      \* where the send task is
    item,        \* number of the message the send task took last
    size,        \* its size
    linePc,      \* linePc[c]: console c is "idle", or past the test of _guarded
    lines        \* lines[c]: number of lines console c has begun

protoVars == <<guarded, handshake, sendReady>>
closeVars == <<running, isClosed, open>>
sendVars == <<sendPc, item, size>>
lineVars == <<linePc, lines>>
vars == <<kind, protoVars, closeVars, wire, input, readPc, sendVars, lineVars>>

\* Tokens.  n is the message's number, len what a header says or the bytes of a
\* body; both are 0 where they mean nothing.
Token(type, n, len) == [kind |-> type, n |-> n, len |-> len]
Line == Token("line", 0, 0)
EmptyHeader == Token("empty header", 0, 0)
ReplyHeader == Token("reply header", 0, 0)
ReplyBody == Token("reply body", 0, 0)
Code == Token("code", 0, 0)

\* writeAll(): nothing is written on a descriptor that is closed.
Write(token) == wire' = IF open THEN Append(wire, token) ELSE wire

\* encryptFrame() adds the iv and the tag; the header is a uint8_t.
FrameLen(n) == IF kind = "raw" THEN n ELSE 12 + n + 16
SignedByte(n) == IF n % 256 < 128 THEN n % 256 ELSE (n % 256) - 256
HeaderByte(n) == n % 256

Init ==
    /\ kind \in Kinds
    /\ guarded = FALSE
    /\ handshake = FALSE
    /\ sendReady = FALSE
    /\ running = TRUE
    /\ isClosed = FALSE
    /\ open = TRUE
    /\ wire = <<>>
    /\ input = 0
    /\ readPc = "loop"
    /\ sendPc = "idle"
    /\ item = 0
    /\ size = 0
    /\ linePc = [c \in Consoles |-> "idle"]
    /\ lines = [c \in Consoles |-> 0]

-----------------------------------------------------------------------------
(* The read task: taskLoop() and what it calls.  "loop" is the test of     *)
(* _running, "read" a chunk being read and cut into lines, "frames" a      *)
(* chunk in appendReceived(); the other labels are the write that comes    *)
(* next, and "done" the end.                                               *)

ReadChunk ==
    /\ readPc = "loop"
    /\ running
    /\ readPc' = "read"
    /\ UNCHANGED <<protoVars, closeVars, wire, input, sendVars, lineVars>>

\* PassphraseAes takes no chunk once it is closed.
Quiet == kind = "passphrase" /\ isClosed

AppendReceived ==
    /\ readPc = "read"
    /\ guarded
    /\ ~Quiet
    /\ readPc' = "frames"
    /\ UNCHANGED <<protoVars, closeVars, wire, input, sendVars, lineVars>>

EndOfChunk ==
    /\ readPc \in {"read", "frames"}
    /\ readPc' = "loop"
    /\ UNCHANGED <<protoVars, closeVars, wire, input, sendVars, lineVars>>

\* The loop ends when the connection is stopped or read() fails: the task closes
\* the descriptor, and calls stop().
EndOfLoop ==
    /\ \/ readPc = "loop" /\ ~running
       \/ readPc = "read"
    /\ open' = FALSE
    /\ readPc' = "done"
    /\ UNCHANGED <<protoVars, running, isClosed, wire, input, sendVars, lineVars>>

\* One more line or frame of the chunk, after which the task is at pc.
Takes(from, pc) ==
    /\ readPc = from
    /\ input < MaxInput
    /\ input' = input + 1
    /\ readPc' = pc
    /\ UNCHANGED <<guarded, closeVars, wire, sendVars, lineVars>>

\* A line that does not end with "guard": _onLine answers it with sendLine().
ReadLine ==
    /\ ~guarded
    /\ Takes("read", "answer")
    /\ UNCHANGED <<handshake, sendReady>>

\* A line that does: init(), up to the write of the empty header.
ReadGuard ==
    /\ ~guarded
    /\ Takes("read", "hello")
    /\ handshake' = FALSE
    /\ sendReady' = FALSE

\* parseHandshake() says yes: readyCallback(), then sendHandshake().
ReadHandshake ==
    /\ ~handshake
    /\ Takes("frames", "reply header")
    /\ handshake' = TRUE
    /\ UNCHANGED sendReady

\* A frame that is well formed but is not the handshake: raw and ephemeral
\* answer with a code, PassphraseAes says nothing.
ReadWrongHandshake ==
    /\ ~handshake
    /\ Takes("frames", IF kind = "passphrase" THEN "frames" ELSE "code")
    /\ UNCHANGED <<handshake, sendReady>>

\* A frame that cannot be decrypted or decoded is answered with a code; after
\* the handshake no raw frame is unreadable.
RawAnswersToo == TRUE
Unreadable == ~(kind = "raw" /\ handshake)

ReadBadFrame ==
    /\ Unreadable
    /\ Takes("frames", "code")
    /\ UNCHANGED <<handshake, sendReady>>

\* A message, handed to the application.
ReadMessage ==
    /\ handshake
    /\ Takes("frames", "frames")
    /\ UNCHANGED <<handshake, sendReady>>

\* The read task makes a write and goes from one label to the next.
Writes(from, token, to) ==
    /\ readPc = from
    /\ Write(token)
    /\ readPc' = to
    /\ UNCHANGED <<guarded, handshake, closeVars, input, sendVars, lineVars>>

WriteAnswer == Writes("answer", Line, "read") /\ UNCHANGED sendReady

\* The empty header is written before _guarded is set.
WriteHello == Writes("hello", EmptyHeader, "guard") /\ UNCHANGED sendReady

\* What follows "guard" in the chunk goes to appendReceived().
Guard ==
    /\ readPc = "guard"
    /\ guarded' = TRUE
    /\ readPc' = "read"
    /\ UNCHANGED <<handshake, sendReady, closeVars, wire, input, sendVars, lineVars>>

\* sendReady is given when the whole reply is written.
WithHeader(pc) == pc = "reply header"
WithBody(pc) == pc = "reply body"

WriteReply ==
    /\ \/ Writes("reply header", ReplyHeader, "reply body")
       \/ Writes("reply body", ReplyBody, "frames")
    /\ sendReady' = (sendReady \/ WithBody(readPc))

\* sendCode(): PassphraseAes writes no code once it is closed.
WriteCode ==
    /\ readPc = "code"
    /\ IF Quiet THEN UNCHANGED wire ELSE Write(Code)
    /\ readPc' = "frames"
    /\ UNCHANGED <<protoVars, closeVars, input, sendVars, lineVars>>

ReadTask ==
    \/ ReadChunk \/ AppendReceived \/ EndOfChunk \/ EndOfLoop
    \/ ReadLine \/ ReadGuard \/ ReadHandshake \/ ReadWrongHandshake
    \/ ReadBadFrame \/ ReadMessage
    \/ WriteAnswer \/ WriteHello \/ Guard
    \/ WriteReply \/ WriteCode

-----------------------------------------------------------------------------
(* The send task: sendTask() and Protocol::send().                         *)

TakeItem ==
    /\ sendPc = "idle"
    /\ running
    /\ item < MaxItems
    /\ item' = item + 1
    /\ size' \in Sizes
    /\ sendPc' = "send"
    /\ UNCHANGED <<protoVars, closeVars, wire, input, readPc, lineVars>>

SendGoes(from, to) ==
    /\ sendPc = from
    /\ sendPc' = to
    /\ UNCHANGED <<protoVars, closeVars, input, readPc, item, size, lineVars>>

\* send() waits for sendReady, and puts it back when it has it.
SendStarts == SendGoes("send", IF Quiet THEN "idle" ELSE "wait") /\ UNCHANGED wire

SendWaits == sendReady /\ SendGoes("wait", "encrypted") /\ UNCHANGED wire

SendTimesOut == ~sendReady /\ SendGoes("wait", "idle") /\ UNCHANGED wire

\* The last look at isClosed, before both writes.
SendLooks == SendGoes("encrypted", IF Quiet THEN "idle" ELSE "header") /\ UNCHANGED wire

WriteHeader ==
    /\ SendGoes("header", "body")
    /\ Write(Token("header", item, HeaderByte(FrameLen(size))))

WriteBody ==
    /\ SendGoes("body", "idle")
    /\ Write(Token("body", item, FrameLen(size)))

SendTask ==
    \/ TakeItem \/ SendStarts \/ SendWaits \/ SendTimesOut \/ SendLooks
    \/ WriteHeader \/ WriteBody

-----------------------------------------------------------------------------
(* The tasks that call sendLine(), and the end of the connection.          *)

\* sendLine() looks at _guarded before it has _writeMtx.
AnyTime(c) == linePc[c] = "idle"
Unguarded(c) == linePc[c] = "idle" /\ ~guarded

BeginLine(c) ==
    /\ Unguarded(c)
    /\ lines[c] < MaxLines
    /\ linePc' = [linePc EXCEPT ![c] = "write"]
    /\ lines' = [lines EXCEPT ![c] = @ + 1]
    /\ UNCHANGED <<protoVars, closeVars, wire, input, readPc, sendVars>>

WriteLine(c) ==
    /\ linePc[c] = "write"
    /\ Write(Line)
    /\ linePc' = [linePc EXCEPT ![c] = "idle"]
    /\ UNCHANGED <<protoVars, closeVars, input, readPc, sendVars, lines>>

\* stop(), called by the read task at its end or by another task at any time:
\* _running, then isClosed, then the descriptor.
Stop ==
    /\ running
    /\ running' = FALSE
    /\ UNCHANGED <<isClosed, open>>

CloseProtocol ==
    /\ ~running
    /\ ~isClosed
    /\ isClosed' = TRUE
    /\ UNCHANGED <<running, open>>

CloseDescriptor ==
    /\ isClosed
    /\ open
    /\ open' = FALSE
    /\ UNCHANGED <<running, isClosed>>

Stopper ==
    /\ Stop \/ CloseProtocol \/ CloseDescriptor
    /\ UNCHANGED <<protoVars, wire, input, readPc, sendVars, lineVars>>

Next ==
    /\ UNCHANGED kind
    /\ \/ ReadTask
       \/ SendTask
       \/ \E c \in Consoles : BeginLine(c) \/ WriteLine(c)
       \/ Stopper

Spec == Init /\ [][Next]_vars

-----------------------------------------------------------------------------
(* Properties.                                                             *)

Tokens == {"line", "empty header", "reply header", "reply body", "code", "header", "body"}

\* The variables keep their types, and what is on the wire is a sequence of tokens.
TypeOK ==
    /\ kind \in Kinds
    /\ {guarded, handshake, sendReady, running, isClosed, open} \subseteq BOOLEAN
    /\ wire \in Seq([kind : Tokens, n : 0 .. MaxItems, len : Nat])
    /\ input \in 0 .. MaxInput
    /\ readPc \in {"loop", "read", "frames", "answer", "hello", "guard", "reply header",
                   "reply body", "code", "done"}
    /\ sendPc \in {"idle", "send", "wait", "encrypted", "header", "body"}
    /\ item \in 0 .. MaxItems
    /\ size \in Sizes \cup {0}
    /\ linePc \in [Consoles -> {"idle", "write"}]
    /\ lines \in [Consoles -> 0 .. MaxLines]

Places(kinds) == {i \in DOMAIN wire : wire[i].kind \in kinds}

Framing == {"empty header", "reply header", "reply body", "header", "body"}

\* Place j holds the last of the framing tokens before place i.
LastBefore(j, i) ==
    /\ j \in Places(Framing) /\ j < i
    /\ \A k \in Places(Framing) : k < i => k <= j

\* The peer can tell the frames apart once it knows where lines and codes are:
\* what else is written is the empty header, then one reply, then frames, every
\* header followed by its body, the numbers of the messages growing.  Three
\* tasks and two writeCb() calls for each frame make this an order of
\* steps and not a lock.
WellFramed ==
    LET Follows(i, kinds) == \E j \in Places(kinds) : LastBefore(j, i)
    IN  /\ \A i \in Places({"empty header"}), j \in Places(Framing) : i <= j
        /\ \A i \in Places({"reply header"}) : Follows(i, {"empty header"})
        /\ \A i \in Places({"reply body"}) : Follows(i, {"reply header"})
        /\ \A i \in Places({"header"}) :
              /\ Follows(i, {"reply body", "body"})
              /\ \A j \in Places(Framing) : j < i => wire[j].n < wire[i].n
        /\ \A i \in Places({"body"}) :
              \E j \in Places({"header"}) : LastBefore(j, i) /\ wire[j].n = wire[i].n

\* Whatever size a message has, the one-byte header that the peer reads first
\* says how many bytes of body follow (send(), encryptFrame()).
HeaderTellsLength ==
    \A i \in Places({"header"}), j \in Places({"body"}) :
        wire[i].n = wire[j].n => wire[i].len = wire[j].len

\* Lines get in among the frames only from a task that was past the test of
\* _guarded: once the peer has seen an answer to a frame (a reply or a code), it
\* sees at most one more line of each console, however many they send.
LateLines ==
    \A i \in Places({"reply header", "code"}) :
        Cardinality({j \in Places({"line"}) : i < j}) <= Cardinality(Consoles)

\* With the raw protocol and as long as no console begins a line nothing comes
\* between a header and its body: after the handshake the read task writes no more
\* codes, so the two writes of the send task need no lock that spans both.
RawFramesWhole ==
    kind = "raw" /\ (\A c \in Consoles : lines[c] = 0) =>
        \A i \in Places({"header"}) :
            i + 1 \in DOMAIN wire => wire[i + 1].kind = "body"
=============================================================================
