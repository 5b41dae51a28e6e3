---------------------------- MODULE FdConnection ----------------------------
(***************************************************************************)
(* The life of one FdConnection object (main/fd_connection.cpp): start(),  *)
(* the read task, the send task, the application tasks that call           *)
(* enqueueSend(), and stop(), which the read task and the application race *)
(* to execute.                                                             *)
(*                                                                         *)
(* What is kept: every atomic flag, the descriptor, the send queue, the    *)
(* protocol's closed flag and its sendReady semaphore, and the order in    *)
(* which each task touches them.  What is abstracted: the bytes.  A        *)
(* SendItem is its number in the order of xQueueSend, a line or a frame is *)
(* one unit of the chunk the last read() returned, and writeAll() is one   *)
(* step that needs the peer to accept the bytes or the descriptor to be    *)
(* closed.  The order of bytes on the wire is the subject of WireProtocol. *)
(***************************************************************************)
EXTENDS Naturals, Sequences

CONSTANTS
    Callers,       \* application tasks that call enqueueSend()
    Stoppers,      \* those of them that also call stop() (appTask)
    Read,          \* the "conn_read" task
    Send,          \* the "conn_send" task
    QueueLen,      \* capacity of sendQueue, 16 in the code
    ChecksClosed,  \* TRUE iff the protocol tests isClosed (PassphraseAes)
    MaxItems,      \* bound: no enqueueSend() starts once this many are queued
    MaxChunk       \* bound: complete lines or frames in what one read() returns

ASSUME TasksAssumption ==
    /\ Stoppers \subseteq Callers
    /\ Read \notin Callers
    /\ Send \notin Callers
    /\ Read # Send

ASSUME BoundsAssumption ==
    /\ QueueLen \in Nat \ {0}
    /\ ChecksClosed \in BOOLEAN
    /\ MaxItems \in Nat
    /\ MaxChunk \in Nat \ {0}

VARIABLES
    startPc,      \* progress of start(), run by the task that made the object
    running,      \* _running
    guarded,      \* _guarded: the "guard" line has switched to the protocol
    fd,           \* _fd: "valid" (>= 0) or "invalid" (-1)
    sock,         \* the descriptor behind _fd: "open" or "closed"
    sendQueue,    \* the handle: "unset", "live", "freed" (dangling), "null"
    queue,        \* what the queue holds
    sendTask,     \* _sendTask is not null
    isClosed,     \* Protocol::isClosed
    handshake,    \* handshakeReceived
    sendReady,    \* the binary semaphore Protocol::sendReady
    closeCbSent,  \* _closeCbSent
    pc,           \* where each task is
    chunk,        \* units left in what the read task read last
    held,         \* the SendItem the send task has taken, or NoItem
    accepted,     \* number of SendItems put in the queue so far
    sent,         \* the SendItems written to the peer, in order
    closes,       \* number of ::close() calls made by this object
    closeCbs,     \* number of calls of _closeCB
    panicked      \* a queue operation hit a deleted queue and reset the chip

connVars == <<startPc, running, guarded, fd, sock, closeCbSent, closes, closeCbs>>
queueVars == <<sendQueue, queue, accepted>>
protoVars == <<isClosed, handshake, sendReady>>
vars == <<connVars, queueVars, protoVars, sendTask, pc, chunk, held, sent, panicked>>

Tasks == Callers \cup {Read, Send}
StopTasks == Stoppers \cup {Read}

Poison == 0      \* the null SendItem* that stop() queues
NoItem == 0

\* The labels of stop() after its exchange of _running has succeeded.
StopPcs == {"proto", "closefd", "poison", "wait", "unlink", "callback"}
CallerPcs == {"idle", "enqueue"} \cup StopPcs
ReadPcs == {"none", "loop", "read", "lines", "ok", "hello", "frames", "code",
            "shake", "exit", "stop", "fin", "gone"} \cup StopPcs
SendPcs == {"none", "check", "receive", "item", "take", "write", "clear", "gone"}

Goto(t, label) == pc' = [pc EXCEPT ![t] = label]

Init ==
    /\ startPc = "new"
    /\ running = FALSE
    /\ guarded = FALSE
    /\ fd = "valid"
    /\ sock = "open"
    /\ sendQueue = "unset"
    /\ queue = <<>>
    /\ sendTask = FALSE
    /\ isClosed = FALSE
    /\ handshake = FALSE
    /\ sendReady = FALSE
    /\ closeCbSent = FALSE
    /\ pc = [t \in Tasks |-> IF t \in Callers THEN "idle" ELSE "none"]
    /\ chunk = 0
    /\ held = NoItem
    /\ accepted = 0
    /\ sent = <<>>
    /\ closes = 0
    /\ closeCbs = 0
    /\ panicked = FALSE

-----------------------------------------------------------------------------
(* start(), called once, by the Bluetooth task that created the object.    *)

Start ==
    /\ startPc = "new"
    /\ fd = "valid"
    /\ startPc' = "send"
    /\ running' = TRUE
    /\ guarded' = FALSE
    /\ sendQueue' = "live"
    /\ UNCHANGED <<fd, sock, closeCbSent, closes, closeCbs, queue, accepted,
                   protoVars, sendTask, pc, chunk, held, sent, panicked>>

\* The result of creating the send task is ignored: it may not exist.
StartSendTask ==
    /\ startPc = "send"
    /\ startPc' = "read"
    /\ \/ sendTask' = TRUE /\ Goto(Send, "check")
       \/ UNCHANGED <<sendTask, pc>>
    /\ UNCHANGED <<running, guarded, fd, sock, closeCbSent, closes, closeCbs,
                   queueVars, protoVars, chunk, held, sent, panicked>>

StartReadTask ==
    /\ startPc = "read"
    /\ startPc' = "up"
    /\ Goto(Read, "loop")
    /\ UNCHANGED <<running, guarded, fd, sock, closeCbSent, closes, closeCbs,
                   queueVars, protoVars, sendTask, chunk, held, sent, panicked>>

\* No memory for the read task: start() gives up, the send task stays behind.
StartReadTaskFails ==
    /\ startPc = "read"
    /\ startPc' = "failed"
    /\ running' = FALSE
    /\ closeCbs' = closeCbs + 1
    /\ UNCHANGED <<guarded, fd, sock, closeCbSent, closes, queueVars, protoVars,
                   sendTask, pc, chunk, held, sent, panicked>>

-----------------------------------------------------------------------------
(* enqueueSend(), called by an application task.                           *)

EnqueueCheck(t) ==
    /\ startPc = "up"
    /\ pc[t] = "idle"
    /\ running
    /\ accepted < MaxItems
    /\ Goto(t, "enqueue")
    /\ UNCHANGED <<connVars, queueVars, protoVars, sendTask, chunk, held, sent, panicked>>

\* xQueueSend(portMAX_DELAY): the task is blocked while the queue is full.
EnqueuePut(t) ==
    /\ pc[t] = "enqueue"
    /\ sendQueue = "live"
    /\ Len(queue) < QueueLen
    /\ queue' = Append(queue, accepted + 1)
    /\ accepted' = accepted + 1
    /\ Goto(t, "idle")
    /\ UNCHANGED <<connVars, sendQueue, protoVars, sendTask, chunk, held, sent, panicked>>

\* The queue was deleted between the test of _running and xQueueSend, or under
\* the blocked task: the chip resets, the item is lost, or (no step) the task
\* stays blocked on a list nobody will ever signal.
EnqueueOnDeleted(t) ==
    /\ pc[t] = "enqueue"
    /\ sendQueue \in {"freed", "null"}
    /\ \/ panicked' = TRUE /\ UNCHANGED pc
       \/ sendQueue = "freed" /\ Goto(t, "idle") /\ UNCHANGED panicked
    /\ UNCHANGED <<connVars, queueVars, protoVars, sendTask, chunk, held, sent>>

Enqueue(t) == EnqueueCheck(t) \/ EnqueuePut(t) \/ EnqueueOnDeleted(t)

-----------------------------------------------------------------------------
(* stop(), called by appTask and by the read task on its way out.          *)

EveryStopperEnds(t) == "fin"
AfterStop(t) == IF t = Read THEN "fin" ELSE "idle"

\* What _running.exchange(false) returned.
ExchangeIgnored == TRUE
WinsExchange == running

\* if (!_running.exchange(false)) return;
StopEnter(t) ==
    /\ IF t = Read THEN pc[t] = "stop" ELSE pc[t] = "idle" /\ startPc = "up"
    /\ running' = FALSE
    /\ Goto(t, IF WinsExchange THEN "proto" ELSE AfterStop(t))
    /\ UNCHANGED <<startPc, guarded, fd, sock, closeCbSent, closes, closeCbs,
                   queueVars, protoVars, sendTask, chunk, held, sent, panicked>>

StopProtocol(t) ==
    /\ pc[t] = "proto"
    /\ isClosed' = TRUE
    /\ Goto(t, "closefd")
    /\ UNCHANGED <<connVars, queueVars, handshake, sendReady, sendTask, chunk,
                   held, sent, panicked>>

\* int fd = _fd.exchange(-1); if (fd >= 0) ::close(fd);
CloseForgotten ==
    /\ fd' = "invalid"
    /\ UNCHANGED <<sock, closes>>

CloseDescriptor ==
    /\ fd' = "invalid"
    /\ sock' = IF fd = "valid" THEN "closed" ELSE sock
    /\ closes' = IF fd = "valid" THEN closes + 1 ELSE closes

StopDescriptor(t) ==
    /\ pc[t] = "closefd"
    /\ CloseDescriptor
    /\ Goto(t, "poison")
    /\ UNCHANGED <<startPc, running, guarded, closeCbSent, closeCbs, queueVars,
                   protoVars, sendTask, chunk, held, sent, panicked>>

\* xQueueSend(.., 0): a full queue drops the poison pill.
PillForgotten(q) == q
PillQueued(q) == IF Len(q) < QueueLen THEN Append(q, Poison) ELSE q

StopPoison(t) ==
    /\ pc[t] = "poison"
    /\ queue' = PillQueued(queue)
    /\ Goto(t, "wait")
    /\ UNCHANGED <<connVars, sendQueue, accepted, protoVars, sendTask, chunk,
                   held, sent, panicked>>

\* while (_sendTask) vTaskDelay(1); vQueueDelete(sendQueue);
NoWait == TRUE
SendTaskHasLeft == ~sendTask

StopDeleteQueue(t) ==
    /\ pc[t] = "wait"
    /\ SendTaskHasLeft
    /\ sendQueue' = "freed"
    /\ Goto(t, "unlink")
    /\ UNCHANGED <<connVars, queue, accepted, protoVars, sendTask, chunk, held,
                   sent, panicked>>

StopUnlinkQueue(t) ==
    /\ pc[t] = "unlink"
    /\ sendQueue' = "null"
    /\ Goto(t, "callback")
    /\ UNCHANGED <<connVars, queue, accepted, protoVars, sendTask, chunk, held,
                   sent, panicked>>

\* if (!_closeCbSent.exchange(true) && _closeCB) _closeCB();
StopCallback(t) ==
    /\ pc[t] = "callback"
    /\ closeCbSent' = TRUE
    /\ closeCbs' = IF closeCbSent THEN closeCbs ELSE closeCbs + 1
    /\ Goto(t, AfterStop(t))
    /\ UNCHANGED <<startPc, running, guarded, fd, sock, closes, queueVars,
                   protoVars, sendTask, chunk, held, sent, panicked>>

\* The body of stop(), for the caller that won the exchange.
StopBody(t) ==
    \/ StopProtocol(t)
    \/ StopDescriptor(t)
    \/ StopPoison(t)
    \/ StopDeleteQueue(t)
    \/ StopUnlinkQueue(t)
    \/ StopCallback(t)

-----------------------------------------------------------------------------
(* The read task: taskLoop() and taskTrampoline().                         *)

ReadLoop ==
    /\ pc[Read] = "loop"
    /\ Goto(Read, IF running /\ fd = "valid" THEN "read" ELSE "exit")
    /\ UNCHANGED <<connVars, queueVars, protoVars, sendTask, chunk, held, sent, panicked>>

\* n == 0, EINTR, EAGAIN: sleep and retry.
ReadNothing ==
    /\ pc[Read] = "read"
    /\ sock = "open"
    /\ Goto(Read, "loop")
    /\ UNCHANGED <<connVars, queueVars, protoVars, sendTask, chunk, held, sent, panicked>>

ReadError ==
    /\ pc[Read] = "read"
    /\ Goto(Read, "exit")
    /\ UNCHANGED <<connVars, queueVars, protoVars, sendTask, chunk, held, sent, panicked>>

\* PassphraseAes returns from appendReceived() at once when it is closed.
EnterFrames == IF ChecksClosed /\ isClosed THEN "loop" ELSE "frames"

ReadData ==
    /\ pc[Read] = "read"
    /\ sock = "open"
    /\ \E n \in 1..MaxChunk : chunk' = n
    /\ Goto(Read, IF guarded THEN EnterFrames ELSE "lines")
    /\ UNCHANGED <<connVars, queueVars, protoVars, sendTask, held, sent, panicked>>

\* A plain line: _onLine answers "OK" with sendLine().
LineReceived ==
    /\ pc[Read] = "lines"
    /\ chunk > 0
    /\ chunk' = chunk - 1
    /\ Goto(Read, "ok")
    /\ UNCHANGED <<connVars, queueVars, protoVars, sendTask, held, sent, panicked>>

\* A line that ends with "guard": init() resets the protocol and then writes
\* its empty header.
GuardReceived ==
    /\ pc[Read] = "lines"
    /\ chunk > 0
    /\ chunk' = chunk - 1
    /\ handshake' = FALSE
    /\ sendReady' = FALSE
    /\ Goto(Read, "hello")
    /\ UNCHANGED <<connVars, queueVars, isClosed, sendTask, held, sent, panicked>>

\* A frame that cannot be used: sendCode().
BadFrameReceived ==
    /\ pc[Read] = "frames"
    /\ chunk > 0
    /\ chunk' = chunk - 1
    /\ Goto(Read, "code")
    /\ UNCHANGED <<connVars, queueVars, protoVars, sendTask, held, sent, panicked>>

\* A frame that is handed to the application, or dropped without an answer.
DataFrameReceived ==
    /\ pc[Read] = "frames"
    /\ chunk > 0
    /\ chunk' = chunk - 1
    /\ UNCHANGED <<connVars, queueVars, protoVars, sendTask, pc, held, sent, panicked>>

\* parseHandshake() succeeds: readyCallback(), then the reply is written.
HandshakeReceived ==
    /\ pc[Read] = "frames"
    /\ chunk > 0
    /\ ~handshake
    /\ chunk' = chunk - 1
    /\ handshake' = TRUE
    /\ Goto(Read, "shake")
    /\ UNCHANGED <<connVars, queueVars, isClosed, sendReady, sendTask, held, sent, panicked>>

\* The chunk holds no further complete line or frame.
ChunkDone ==
    /\ pc[Read] \in {"lines", "frames"}
    /\ chunk = 0
    /\ Goto(Read, "loop")
    /\ UNCHANGED <<connVars, queueVars, protoVars, sendTask, chunk, held, sent, panicked>>

\* The read task's own writes return: "OK", the header that precedes
\* _guarded.store(true), an error code, or the handshake reply, after which
\* sendReady is given.
ReadWriteReturns ==
    /\ \/ /\ pc[Read] = "ok"
          /\ Goto(Read, "lines")
          /\ UNCHANGED <<guarded, sendReady>>
       \/ /\ pc[Read] = "hello"
          /\ guarded' = TRUE
          /\ Goto(Read, EnterFrames)
          /\ UNCHANGED sendReady
       \/ /\ pc[Read] = "code"
          /\ Goto(Read, "frames")
          /\ UNCHANGED <<guarded, sendReady>>
       \/ /\ pc[Read] = "shake"
          /\ sendReady' = TRUE
          /\ Goto(Read, "frames")
          /\ UNCHANGED guarded
    /\ UNCHANGED <<startPc, running, fd, sock, closeCbSent, closes, closeCbs,
                   queueVars, isClosed, handshake, sendTask, chunk, held, sent, panicked>>

\* The end of taskLoop(): close the descriptor, then call stop().
ReturnsWithoutStop == "fin"
EndOfLoop == "stop"

ReadExit ==
    /\ pc[Read] = "exit"
    /\ CloseDescriptor
    /\ Goto(Read, EndOfLoop)
    /\ UNCHANGED <<startPc, running, guarded, closeCbSent, closeCbs, queueVars,
                   protoVars, sendTask, chunk, held, sent, panicked>>

\* taskTrampoline(): _task = nullptr, vTaskDelete.
ReadTaskEnds ==
    /\ pc[Read] = "fin"
    /\ Goto(Read, "gone")
    /\ UNCHANGED <<connVars, queueVars, protoVars, sendTask, chunk, held, sent, panicked>>

\* What the read task does without waiting for anybody.
ReadProceeds ==
    \/ ReadLoop
    \/ ReadNothing
    \/ ReadError
    \/ ReadData
    \/ LineReceived
    \/ GuardReceived
    \/ BadFrameReceived
    \/ DataFrameReceived
    \/ HandshakeReceived
    \/ ChunkDone
    \/ ReadExit
    \/ ReadTaskEnds

-----------------------------------------------------------------------------
(* The send task: sendTask() and the send() of the protocol.               *)

SendCheck ==
    /\ pc[Send] = "check"
    /\ Goto(Send, IF running THEN "receive" ELSE "clear")
    /\ UNCHANGED <<connVars, queueVars, protoVars, sendTask, chunk, held, sent, panicked>>

SendReceive ==
    /\ pc[Send] = "receive"
    /\ queue # <<>>
    /\ held' = Head(queue)
    /\ queue' = Tail(queue)
    /\ Goto(Send, IF Head(queue) = Poison THEN "clear" ELSE "item")
    /\ UNCHANGED <<connVars, sendQueue, accepted, protoVars, sendTask, chunk, sent, panicked>>

\* delete item, and back to the loop condition.
SendLeaves == held' = NoItem /\ Goto(Send, "clear")
SendDrops == held' = NoItem /\ Goto(Send, "check")

SendBegin ==
    /\ pc[Send] = "item"
    /\ IF running /\ ~(ChecksClosed /\ isClosed)
       THEN Goto(Send, "take") /\ UNCHANGED held
       ELSE SendDrops
    /\ UNCHANGED <<connVars, queueVars, protoVars, sendTask, chunk, sent, panicked>>

\* xSemaphoreTake(sendReady, 5 s) and the xSemaphoreGive that follows it.
TimeoutIgnored == TRUE
TookReady == sendReady

SendTakesReady ==
    /\ pc[Send] = "take"
    /\ TookReady
    /\ Goto(Send, "write")
    /\ UNCHANGED <<connVars, queueVars, protoVars, sendTask, chunk, held, sent, panicked>>

\* Five seconds without a handshake: the item is dropped.
ItemPutBack ==
    /\ pc[Send] = "take"
    /\ ~sendReady
    /\ SendDrops
    /\ queue' = Append(queue, held)
    /\ UNCHANGED <<connVars, sendQueue, accepted, protoVars, sendTask, chunk, sent, panicked>>

SendTimesOut ==
    /\ pc[Send] = "take"
    /\ ~sendReady
    /\ SendDrops
    /\ UNCHANGED <<connVars, queueVars, protoVars, sendTask, chunk, sent, panicked>>

\* Header and payload are written: they reach the peer only while the
\* descriptor is open.  PassphraseAes writes nothing if it finds itself closed.
SendWriteReturns ==
    /\ pc[Send] = "write"
    /\ \/ sock = "open" /\ sent' = Append(sent, held)
       \/ (sock = "closed" \/ (ChecksClosed /\ isClosed)) /\ sent' = sent
    /\ SendDrops
    /\ UNCHANGED <<connVars, queueVars, protoVars, sendTask, chunk, panicked>>

\* self->_sendTask = nullptr; vTaskDelete(nullptr);
SendTaskEnds ==
    /\ pc[Send] = "clear"
    /\ sendTask' = FALSE
    /\ Goto(Send, "gone")
    /\ UNCHANGED <<connVars, queueVars, protoVars, chunk, held, sent, panicked>>

SendProceeds ==
    \/ SendCheck
    \/ SendReceive
    \/ SendBegin
    \/ SendTakesReady
    \/ SendTimesOut
    \/ SendTaskEnds

-----------------------------------------------------------------------------
\* The peer or the radio link goes away: the Bluetooth stack closes the
\* descriptor, and reads and writes on it fail from then on.
LinkLost ==
    /\ sock = "open"
    /\ sock' = "closed"
    /\ UNCHANGED <<startPc, running, guarded, fd, closeCbSent, closes, closeCbs,
                   queueVars, protoVars, sendTask, pc, chunk, held, sent, panicked>>

Next ==
    /\ ~panicked
    /\ \/ Start \/ StartSendTask \/ StartReadTask \/ StartReadTaskFails
       \/ \E t \in Callers : Enqueue(t)
       \/ \E t \in StopTasks : StopEnter(t) \/ StopBody(t)
       \/ ReadProceeds
       \/ ReadWriteReturns
       \/ SendProceeds
       \/ SendWriteReturns
       \/ LinkLost

Spec == Init /\ [][Next]_vars

(***************************************************************************)
(* Fairness: FreeRTOS runs every ready task again (the loops sleep with    *)
(* vTaskDelay, so a higher priority never starves a lower one for good).   *)
(* No fairness for what others decide: an application task need not call,  *)
(* the link need not fail, and a peer need not read, so a write is only    *)
(* certain to return once the descriptor is closed.                        *)
(***************************************************************************)
Fairness ==
    /\ WF_vars(~panicked /\ (Start \/ StartSendTask \/ StartReadTask \/ StartReadTaskFails))
    /\ \A t \in Callers : WF_vars(~panicked /\ EnqueuePut(t))
    /\ \A t \in Stoppers : WF_vars(~panicked /\ StopBody(t))
    /\ WF_vars(~panicked /\ (ReadProceeds \/ StopEnter(Read) \/ StopBody(Read)))
    /\ WF_vars(~panicked /\ SendProceeds)
    /\ WF_vars(~panicked /\ sock = "closed" /\ ReadWriteReturns)
    /\ WF_vars(~panicked /\ sock = "closed" /\ SendWriteReturns)

FairSpec == Spec /\ Fairness
-----------------------------------------------------------------------------
(* Properties.                                                             *)

FlagsOK ==
    /\ running \in BOOLEAN
    /\ guarded \in BOOLEAN
    /\ sendTask \in BOOLEAN
    /\ isClosed \in BOOLEAN
    /\ handshake \in BOOLEAN
    /\ sendReady \in BOOLEAN
    /\ closeCbSent \in BOOLEAN
    /\ panicked \in BOOLEAN

LabelsOK ==
    /\ DOMAIN pc = Tasks
    /\ pc[Read] \in ReadPcs
    /\ pc[Send] \in SendPcs
    /\ \A t \in Callers : pc[t] \in CallerPcs
    /\ \A t \in Callers \ Stoppers : pc[t] \notin StopPcs

DataOK ==
    /\ startPc \in {"new", "send", "read", "up", "failed"}
    /\ fd \in {"valid", "invalid"}
    /\ sock \in {"open", "closed"}
    /\ sendQueue \in {"unset", "live", "freed", "null"}
    /\ queue \in Seq(Nat)
    /\ Len(queue) <= QueueLen
    /\ chunk \in Nat
    /\ held \in Nat
    /\ accepted \in Nat
    /\ sent \in Seq(Nat)
    /\ closes \in Nat
    /\ closeCbs \in Nat

\* The variables keep their types, each task its own labels, and the queue its
\* capacity.
TypeOK == FlagsOK /\ LabelsOK /\ DataOK

\* stop() may be entered by appTask and the read task at once, and each may
\* have closed the descriptor before; yet the object closes its descriptor at
\* most once, announces its end at most once, and has one teardown at a time.
TeardownOnce ==
    /\ closes <= 1
    /\ closeCbs <= 1
    /\ \A s, t \in StopTasks : pc[s] \in StopPcs /\ pc[t] \in StopPcs => s = t

\* The send task is the queue's only reader: once stop() has deleted the queue
\* it has already left its loop for good, so it never receives from freed
\* memory, whatever it was doing (waiting for an item, for the handshake, for
\* the peer) when stop() began.
QueueOutlivesSendTask ==
    sendQueue \in {"freed", "null"} => pc[Send] \in {"none", "gone"}

\* What the close callback tells the application (which then posts
\* CleanupConnection and deletes the object): the connection is inert.  No
\* caller can start an enqueueSend, descriptor and queue are gone, and so is
\* the send task.  The read task is NOT covered: it may still be on its way.
ClosedIsInert ==
    closeCbs > 0 /\ startPc = "up" =>
        /\ ~running
        /\ fd = "invalid" /\ sock = "closed"
        /\ sendQueue = "null"
        /\ pc[Send] \in {"none", "gone"}

\* The send task writes a frame only when the protocol is on, the handshake
\* has been accepted and the reply to it is completely written.
SendsOnlyAfterHandshake ==
    pc[Send] = "write" => guarded /\ handshake /\ pc[Read] # "shake"

\* Seen through enqueueSend() and the peer, the object is a SendChannel: pending
\* is what the queue holds, but for the poison pill, and the send task's item.
Deleted == sendQueue \in {"freed", "null"}
Pending ==
    IF Deleted THEN {}
    ELSE ({held} \cup {queue[i] : i \in DOMAIN queue}) \ {Poison, NoItem}
Channel == INSTANCE SendChannel WITH
    Capacity <- QueueLen + 1, count <- accepted, pending <- Pending,
    out <- sent, shut <- Deleted
ImplementsChannel == Channel!Spec

\* Seen through start(), stop() and the callbacks, it has a ConnectionLife: torn down
\* means that the descriptor is closed, the queue is gone and the send task has left.
StartedReader ==
    CASE pc[Read] = "callback" -> "announce"
      [] pc[Read] \in StopPcs \ {"callback"} -> "tear"
      [] pc[Read] = "fin" -> "tail"
      [] pc[Read] = "gone" -> "gone"
      [] OTHER -> IF handshake THEN "open" ELSE "loop"
LifeReader ==
    CASE startPc = "new" -> "none"
      [] startPc \in {"send", "read"} -> "starting"
      [] startPc = "failed" -> "failed"
      [] startPc = "up" -> StartedReader
LifeOwner ==
    IF \E t \in Stoppers : pc[t] = "callback" THEN "announce"
    ELSE IF \E t \in Stoppers : pc[t] \in StopPcs THEN "tear" ELSE "idle"
TornDown ==
    fd = "invalid" /\ sock = "closed" /\ sendQueue = "null" /\ pc[Send] \in {"none", "gone"}
CloseCalled == closeCbs > 0
Life == INSTANCE ConnectionLife WITH
    reader <- LifeReader, owner <- LifeOwner, torn <- TornDown, announced <- CloseCalled
HasLife == Life!Spec

\* The peer gets the items that enqueueSend() accepted in that order and none of them
\* twice, through time-outs, a lost link and a stop() at any moment.
DeliveredInOrder == Channel!Ordered

\* stop() always comes back and announces the end of the connection: the send
\* task is never left waiting, even when the queue was too full for the poison
\* pill, the handshake never came, or the peer has stopped reading.
StopCompletes ==
    \A t \in StopTasks : pc[t] = "proto" ~> panicked \/ closeCbs = 1

\* A lost link ends in the close callback, whoever notices first and whatever
\* the read task was busy with, so the application always gets to clean up.
LostLinkIsAnnounced ==
    sock = "closed" /\ startPc = "up" ~> panicked \/ closeCbs = 1

\* With a peer that reads, an enqueueSend() blocked on a full queue returns,
\* handshake or not, until the connection is torn down (or never got a send
\* task).
PeerReads ==
    WF_vars(~panicked /\ ReadWriteReturns) /\ WF_vars(~panicked /\ SendWriteReturns)
BlockedCallerReleased ==
    PeerReads =>
        \A t \in Callers :
            pc[t] = "enqueue" ~> pc[t] = "idle" \/ ~running \/ pc[Send] = "none"
=============================================================================
