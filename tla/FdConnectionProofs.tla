-------------------------- MODULE FdConnectionProofs --------------------------
(***************************************************************************)
(* Theorems about FdConnection, for any number of callers and stoppers and *)
(* any queue length.  The inductive invariant says where the single        *)
(* execution of stop() has got to, and what that fixes of the descriptor,  *)
(* the queue, the send task and the callbacks.  Two abstract modules are   *)
(* refined: SendChannel, for the peer, and ConnectionLife, for the owner.  *)
(***************************************************************************)
EXTENDS FdConnection, FiniteSetTheorems, TLAPS

-----------------------------------------------------------------------------
(* The inductive invariant.                                                *)

InStop(t) == pc[t] \in StopPcs

\* Before start() has returned nobody but the send task runs.
Starting ==
    /\ startPc # "up" => pc[Read] = "none" /\ \A t \in Callers : pc[t] = "idle"
    /\ startPc # "up" => ~sendReady /\ ~handshake
    /\ startPc = "new" => ~running /\ pc[Send] = "none"
    /\ startPc \in {"send", "read"} => running
    /\ startPc = "send" => pc[Send] = "none"
    /\ startPc = "failed" => ~running

\* Exactly one task wins the exchange of _running and executes stop(): first
\* nobody, then one, then nobody again, with the callback sent.
OneStopper ==
    /\ \A s, t \in StopTasks : InStop(s) /\ InStop(t) => s = t
    /\ \A t \in StopTasks : InStop(t) => ~running /\ ~closeCbSent
    /\ closeCbSent => ~running /\ startPc = "up"
    /\ closeCbs = IF closeCbSent \/ startPc = "failed" THEN 1 ELSE 0

\* The descriptor is closed at most once, and before the stopper goes on.
Descriptor ==
    /\ closes = IF fd = "invalid" THEN 1 ELSE 0
    /\ fd = "invalid" => sock = "closed"
    /\ closeCbSent \/ sendQueue = "null" => fd = "invalid"
    /\ \A t \in StopTasks :
           pc[t] \in {"poison", "wait", "unlink", "callback"} => fd = "invalid"

\* What the queue's handle is, by the stopper's progress.
QueueHandle ==
    /\ sendQueue = "unset" <=> startPc = "new"
    /\ running => sendQueue = "live"
    /\ startPc # "up" => sendQueue \in {"unset", "live"}
    /\ closeCbSent => sendQueue = "null"
    /\ \A t \in StopTasks :
           /\ pc[t] \in {"proto", "closefd", "poison", "wait"} => sendQueue = "live"
           /\ pc[t] = "unlink" => sendQueue = "freed"
           /\ pc[t] = "callback" => sendQueue = "null"

\* _sendTask says whether the send task still runs, and the queue's deletion
\* waits for it.
SendTaskFlag ==
    /\ sendTask <=> pc[Send] \notin {"none", "gone"}
    /\ QueueOutlivesSendTask

\* sendReady is a permit that only a written handshake reply gives.
Handshaking ==
    /\ pc[Read] \in {"lines", "ok", "hello"} => ~guarded
    /\ pc[Read] \in {"frames", "code", "shake"} => guarded
    /\ pc[Read] = "shake" => handshake
    /\ handshake => guarded
    /\ sendReady \/ pc[Send] = "write" => guarded /\ handshake /\ pc[Read] # "shake"

Inductive ==
    /\ Starting
    /\ OneStopper
    /\ Descriptor
    /\ QueueHandle
    /\ SendTaskFlag
    /\ Handshaking
-----------------------------------------------------------------------------
(* Type correctness.                                                       *)

\* Every initial state is well typed.
LEMMA InitTypeOK == Init => TypeOK
<1>1. Init => FlagsOK
  BY DEF Init, FlagsOK
<1>2. Init => LabelsOK
  BY TasksAssumption DEF Init, LabelsOK, Tasks, CallerPcs, ReadPcs, SendPcs, StopPcs
<1>3. Init => DataOK
  BY BoundsAssumption DEF Init, DataOK, NoItem
<1>4. QED
  BY <1>1, <1>2, <1>3 DEF TypeOK

\* Every step leaves the flags Boolean.
LEMMA StepFlags == FlagsOK /\ [Next]_vars => FlagsOK'
<1> SUFFICES ASSUME FlagsOK, [Next]_vars PROVE FlagsOK'
  OBVIOUS
<1> USE DEF FlagsOK, connVars, queueVars, protoVars
<1>1. CASE Start
  BY <1>1 DEF Start
<1>2. CASE StartSendTask
  BY <1>2 DEF StartSendTask
<1>3. CASE StartReadTask
  BY <1>3 DEF StartReadTask
<1>4. CASE StartReadTaskFails
  BY <1>4 DEF StartReadTaskFails
<1>5. ASSUME NEW t \in Callers, EnqueueCheck(t) PROVE FlagsOK'
  BY <1>5 DEF EnqueueCheck
<1>6. ASSUME NEW t \in Callers, EnqueuePut(t) PROVE FlagsOK'
  BY <1>6 DEF EnqueuePut
<1>7. ASSUME NEW t \in Callers, EnqueueOnDeleted(t) PROVE FlagsOK'
  BY <1>7 DEF EnqueueOnDeleted
<1>8. ASSUME NEW t \in StopTasks, StopEnter(t) PROVE FlagsOK'
  BY <1>8 DEF StopEnter
<1>9. ASSUME NEW t \in StopTasks, StopProtocol(t) PROVE FlagsOK'
  BY <1>9 DEF StopProtocol
<1>10. ASSUME NEW t \in StopTasks, StopDescriptor(t) PROVE FlagsOK'
  BY <1>10 DEF StopDescriptor
<1>11. ASSUME NEW t \in StopTasks, StopPoison(t) PROVE FlagsOK'
  BY <1>11 DEF StopPoison
<1>12. ASSUME NEW t \in StopTasks, StopDeleteQueue(t) PROVE FlagsOK'
  BY <1>12 DEF StopDeleteQueue
<1>13. ASSUME NEW t \in StopTasks, StopUnlinkQueue(t) PROVE FlagsOK'
  BY <1>13 DEF StopUnlinkQueue
<1>14. ASSUME NEW t \in StopTasks, StopCallback(t) PROVE FlagsOK'
  BY <1>14 DEF StopCallback
<1>15. CASE ReadLoop
  BY <1>15 DEF ReadLoop
<1>16. CASE ReadNothing
  BY <1>16 DEF ReadNothing
<1>17. CASE ReadError
  BY <1>17 DEF ReadError
<1>18. CASE ReadData
  BY <1>18 DEF ReadData
<1>19. CASE LineReceived
  BY <1>19 DEF LineReceived
<1>20. CASE GuardReceived
  BY <1>20 DEF GuardReceived
<1>21. CASE BadFrameReceived
  BY <1>21 DEF BadFrameReceived
<1>22. CASE DataFrameReceived
  BY <1>22 DEF DataFrameReceived
<1>23. CASE HandshakeReceived
  BY <1>23 DEF HandshakeReceived
<1>24. CASE ChunkDone
  BY <1>24 DEF ChunkDone
<1>25. CASE ReadExit
  BY <1>25 DEF ReadExit
<1>26. CASE ReadTaskEnds
  BY <1>26 DEF ReadTaskEnds
<1>27. CASE ReadWriteReturns
  BY <1>27 DEF ReadWriteReturns
<1>28. CASE SendCheck
  BY <1>28 DEF SendCheck
<1>29. CASE SendReceive
  BY <1>29 DEF SendReceive
<1>30. CASE SendBegin
  BY <1>30 DEF SendBegin
<1>31. CASE SendTakesReady
  BY <1>31 DEF SendTakesReady
<1>32. CASE SendTimesOut
  BY <1>32 DEF SendTimesOut
<1>33. CASE SendTaskEnds
  BY <1>33 DEF SendTaskEnds
<1>34. CASE SendWriteReturns
  BY <1>34 DEF SendWriteReturns
<1>35. CASE LinkLost
  BY <1>35 DEF LinkLost
<1>36. CASE UNCHANGED vars
  BY <1>36 DEF vars
<1>37. QED
  BY <1>1, <1>2, <1>3, <1>4, <1>5, <1>6, <1>7, <1>8, <1>9, <1>10, <1>11,
     <1>12, <1>13, <1>14, <1>15, <1>16, <1>17, <1>18, <1>19, <1>20, <1>21,
     <1>22, <1>23, <1>24, <1>25, <1>26, <1>27, <1>28, <1>29, <1>30, <1>31,
     <1>32, <1>33, <1>34, <1>35, <1>36
  DEF Next, Enqueue, StopBody, ReadProceeds, SendProceeds

\* Every step leaves each task at one of its own labels.
LEMMA StepLabels == LabelsOK /\ [Next]_vars => LabelsOK'
<1> SUFFICES ASSUME LabelsOK, [Next]_vars PROVE LabelsOK'
  OBVIOUS
<1> USE TasksAssumption
<1> USE DEF LabelsOK, Tasks, StopTasks, CallerPcs, ReadPcs, SendPcs, StopPcs, Goto,
            connVars, queueVars, protoVars
<1>1. CASE Start
  BY <1>1 DEF Start
<1>2. CASE StartSendTask
  BY <1>2 DEF StartSendTask
<1>3. CASE StartReadTask
  BY <1>3 DEF StartReadTask
<1>4. CASE StartReadTaskFails
  BY <1>4 DEF StartReadTaskFails
<1>5. ASSUME NEW t \in Callers, EnqueueCheck(t) PROVE LabelsOK'
  BY <1>5 DEF EnqueueCheck
<1>6. ASSUME NEW t \in Callers, EnqueuePut(t) PROVE LabelsOK'
  BY <1>6 DEF EnqueuePut
<1>7. ASSUME NEW t \in Callers, EnqueueOnDeleted(t) PROVE LabelsOK'
  BY <1>7 DEF EnqueueOnDeleted
<1>8. ASSUME NEW t \in StopTasks, StopEnter(t) PROVE LabelsOK'
  BY <1>8 DEF StopEnter, AfterStop
<1>9. ASSUME NEW t \in StopTasks, StopProtocol(t) PROVE LabelsOK'
  BY <1>9 DEF StopProtocol
<1>10. ASSUME NEW t \in StopTasks, StopDescriptor(t) PROVE LabelsOK'
  BY <1>10 DEF StopDescriptor
<1>11. ASSUME NEW t \in StopTasks, StopPoison(t) PROVE LabelsOK'
  BY <1>11 DEF StopPoison
<1>12. ASSUME NEW t \in StopTasks, StopDeleteQueue(t) PROVE LabelsOK'
  BY <1>12 DEF StopDeleteQueue
<1>13. ASSUME NEW t \in StopTasks, StopUnlinkQueue(t) PROVE LabelsOK'
  BY <1>13 DEF StopUnlinkQueue
<1>14. ASSUME NEW t \in StopTasks, StopCallback(t) PROVE LabelsOK'
  BY <1>14 DEF StopCallback, AfterStop
<1>15. CASE ReadLoop
  BY <1>15 DEF ReadLoop
<1>16. CASE ReadNothing
  BY <1>16 DEF ReadNothing
<1>17. CASE ReadError
  BY <1>17 DEF ReadError
<1>18. CASE ReadData
  BY <1>18 DEF ReadData, EnterFrames
<1>19. CASE LineReceived
  BY <1>19 DEF LineReceived
<1>20. CASE GuardReceived
  BY <1>20 DEF GuardReceived
<1>21. CASE BadFrameReceived
  BY <1>21 DEF BadFrameReceived
<1>22. CASE DataFrameReceived
  BY <1>22 DEF DataFrameReceived
<1>23. CASE HandshakeReceived
  BY <1>23 DEF HandshakeReceived
<1>24. CASE ChunkDone
  BY <1>24 DEF ChunkDone
<1>25. CASE ReadExit
  BY <1>25 DEF ReadExit, EndOfLoop
<1>26. CASE ReadTaskEnds
  BY <1>26 DEF ReadTaskEnds
<1>27. CASE ReadWriteReturns
  BY <1>27 DEF ReadWriteReturns, EnterFrames
<1>28. CASE SendCheck
  BY <1>28 DEF SendCheck
<1>29. CASE SendReceive
  BY <1>29 DEF SendReceive
<1>30. CASE SendBegin
  BY <1>30 DEF SendBegin, SendDrops
<1>31. CASE SendTakesReady
  BY <1>31 DEF SendTakesReady
<1>32. CASE SendTimesOut
  BY <1>32 DEF SendTimesOut, SendDrops
<1>33. CASE SendTaskEnds
  BY <1>33 DEF SendTaskEnds
<1>34. CASE SendWriteReturns
  BY <1>34 DEF SendWriteReturns, SendDrops
<1>35. CASE LinkLost
  BY <1>35 DEF LinkLost
<1>36. CASE UNCHANGED vars
  BY <1>36 DEF vars
<1>37. QED
  BY <1>1, <1>2, <1>3, <1>4, <1>5, <1>6, <1>7, <1>8, <1>9, <1>10, <1>11,
     <1>12, <1>13, <1>14, <1>15, <1>16, <1>17, <1>18, <1>19, <1>20, <1>21,
     <1>22, <1>23, <1>24, <1>25, <1>26, <1>27, <1>28, <1>29, <1>30, <1>31,
     <1>32, <1>33, <1>34, <1>35, <1>36
  DEF Next, Enqueue, StopBody, ReadProceeds, SendProceeds

\* Every step keeps the handles, the counters and the queues in their types.
LEMMA StepData == DataOK /\ [Next]_vars => DataOK'
<1> SUFFICES ASSUME DataOK, [Next]_vars PROVE DataOK'
  OBVIOUS
<1> USE BoundsAssumption
<1> USE DEF DataOK, connVars, queueVars, protoVars
<1>1. CASE Start
  BY <1>1 DEF Start
<1>2. CASE StartSendTask
  BY <1>2 DEF StartSendTask
<1>3. CASE StartReadTask
  BY <1>3 DEF StartReadTask
<1>4. CASE StartReadTaskFails
  BY <1>4 DEF StartReadTaskFails
<1>5. ASSUME NEW t \in Callers, EnqueueCheck(t) PROVE DataOK'
  BY <1>5 DEF EnqueueCheck
<1>6. ASSUME NEW t \in Callers, EnqueuePut(t) PROVE DataOK'
  BY <1>6 DEF EnqueuePut
<1>7. ASSUME NEW t \in Callers, EnqueueOnDeleted(t) PROVE DataOK'
  BY <1>7 DEF EnqueueOnDeleted
<1>8. ASSUME NEW t \in StopTasks, StopEnter(t) PROVE DataOK'
  BY <1>8 DEF StopEnter
<1>9. ASSUME NEW t \in StopTasks, StopProtocol(t) PROVE DataOK'
  BY <1>9 DEF StopProtocol
<1>10. ASSUME NEW t \in StopTasks, StopDescriptor(t) PROVE DataOK'
  BY <1>10 DEF StopDescriptor, CloseDescriptor
<1>11. ASSUME NEW t \in StopTasks, StopPoison(t) PROVE DataOK'
  BY <1>11 DEF StopPoison, PillQueued, Poison
<1>12. ASSUME NEW t \in StopTasks, StopDeleteQueue(t) PROVE DataOK'
  BY <1>12 DEF StopDeleteQueue
<1>13. ASSUME NEW t \in StopTasks, StopUnlinkQueue(t) PROVE DataOK'
  BY <1>13 DEF StopUnlinkQueue
<1>14. ASSUME NEW t \in StopTasks, StopCallback(t) PROVE DataOK'
  BY <1>14 DEF StopCallback
<1>15. CASE ReadLoop
  BY <1>15 DEF ReadLoop
<1>16. CASE ReadNothing
  BY <1>16 DEF ReadNothing
<1>17. CASE ReadError
  BY <1>17 DEF ReadError
<1>18. CASE ReadData
  BY <1>18 DEF ReadData
<1>19. CASE LineReceived
  BY <1>19 DEF LineReceived
<1>20. CASE GuardReceived
  BY <1>20 DEF GuardReceived
<1>21. CASE BadFrameReceived
  BY <1>21 DEF BadFrameReceived
<1>22. CASE DataFrameReceived
  BY <1>22 DEF DataFrameReceived
<1>23. CASE HandshakeReceived
  BY <1>23 DEF HandshakeReceived
<1>24. CASE ChunkDone
  BY <1>24 DEF ChunkDone
<1>25. CASE ReadExit
  BY <1>25 DEF ReadExit, CloseDescriptor
<1>26. CASE ReadTaskEnds
  BY <1>26 DEF ReadTaskEnds
<1>27. CASE ReadWriteReturns
  BY <1>27 DEF ReadWriteReturns
<1>28. CASE SendCheck
  BY <1>28 DEF SendCheck
<1>29. CASE SendReceive
  BY <1>29 DEF SendReceive, Poison
<1>30. CASE SendBegin
  BY <1>30 DEF SendBegin, SendDrops, NoItem
<1>31. CASE SendTakesReady
  BY <1>31 DEF SendTakesReady
<1>32. CASE SendTimesOut
  BY <1>32 DEF SendTimesOut, SendDrops, NoItem
<1>33. CASE SendTaskEnds
  BY <1>33 DEF SendTaskEnds
<1>34. CASE SendWriteReturns
  <2>1. sent' \in Seq(Nat)
    <3>1. sent' = sent \/ sent' = Append(sent, held)
      BY <1>34 DEF SendWriteReturns
    <3>2. sent \in Seq(Nat) /\ held \in Nat
      OBVIOUS
    <3> HIDE DEF DataOK
    <3> QED
      BY <3>1, <3>2
  <2>2. held' = NoItem
    BY <1>34 DEF SendWriteReturns, SendDrops
  <2>3. /\ UNCHANGED <<startPc, fd, sock, sendQueue, queue>>
        /\ UNCHANGED <<chunk, accepted, closes, closeCbs>>
    BY <1>34 DEF SendWriteReturns
  <2> QED
    BY <2>1, <2>2, <2>3 DEF NoItem
<1>35. CASE LinkLost
  BY <1>35 DEF LinkLost
<1>36. CASE UNCHANGED vars
  BY <1>36 DEF vars
<1>37. QED
  BY <1>1, <1>2, <1>3, <1>4, <1>5, <1>6, <1>7, <1>8, <1>9, <1>10, <1>11,
     <1>12, <1>13, <1>14, <1>15, <1>16, <1>17, <1>18, <1>19, <1>20, <1>21,
     <1>22, <1>23, <1>24, <1>25, <1>26, <1>27, <1>28, <1>29, <1>30, <1>31,
     <1>32, <1>33, <1>34, <1>35, <1>36
  DEF Next, Enqueue, StopBody, ReadProceeds, SendProceeds

\* The variables keep their types, and the queue its capacity, whatever the
\* callers, the stoppers and the peer do.
THEOREM TypeCorrect == Spec => []TypeOK
<1>1. TypeOK /\ [Next]_vars => TypeOK'
  BY StepFlags, StepLabels, StepData DEF TypeOK
<1>2. QED
  BY InitTypeOK, <1>1, PTL DEF Spec

-----------------------------------------------------------------------------
(* The inductive invariant holds.                                          *)

\* start() has not begun: the invariant holds of the initial states.
LEMMA InitInductive == Init => Inductive
  BY TasksAssumption
  DEF Init, Inductive, Starting, OneStopper, Descriptor, QueueHandle, SendTaskFlag,
      Handshaking, QueueOutlivesSendTask, InStop, Tasks, StopTasks, StopPcs

\* Every step of every task preserves the invariant.
LEMMA StepInductive == TypeOK /\ Inductive /\ [Next]_vars => Inductive'
<1> SUFFICES ASSUME TypeOK, Inductive, [Next]_vars PROVE Inductive'
  OBVIOUS
<1> USE TasksAssumption
<1> USE DEF TypeOK, FlagsOK, LabelsOK, DataOK, Inductive, Starting, OneStopper, Descriptor,
            QueueHandle, SendTaskFlag, Handshaking, QueueOutlivesSendTask, InStop,
            Tasks, StopTasks, CallerPcs, ReadPcs, SendPcs, StopPcs, Goto,
            connVars, queueVars, protoVars
<1>1. CASE Start
  <2>1. Starting'
    BY <1>1 DEF Start
  <2>2. OneStopper'
    BY <1>1 DEF Start
  <2>3. Descriptor'
    BY <1>1 DEF Start
  <2>4. QueueHandle'
    BY <1>1 DEF Start
  <2>5. SendTaskFlag'
    BY <1>1 DEF Start
  <2>6. Handshaking'
    BY <1>1 DEF Start
  <2>7. QED
    BY <2>1, <2>2, <2>3, <2>4, <2>5, <2>6 DEF Inductive
<1>2. CASE StartSendTask
  BY <1>2 DEF StartSendTask
<1>3. CASE StartReadTask
  BY <1>3 DEF StartReadTask
<1>4. CASE StartReadTaskFails
  BY <1>4 DEF StartReadTaskFails
<1>5. ASSUME NEW t \in Callers, EnqueueCheck(t) PROVE Inductive'
  BY <1>5 DEF EnqueueCheck
<1>6. ASSUME NEW t \in Callers, EnqueuePut(t) PROVE Inductive'
  BY <1>6 DEF EnqueuePut
<1>7. ASSUME NEW t \in Callers, EnqueueOnDeleted(t) PROVE Inductive'
  BY <1>7 DEF EnqueueOnDeleted
<1>8. ASSUME NEW t \in StopTasks, StopEnter(t) PROVE Inductive'
  BY <1>8 DEF StopEnter, AfterStop, WinsExchange
<1>9. ASSUME NEW t \in StopTasks, StopProtocol(t) PROVE Inductive'
  BY <1>9 DEF StopProtocol
<1>10. ASSUME NEW t \in StopTasks, StopDescriptor(t) PROVE Inductive'
  BY <1>10 DEF StopDescriptor, CloseDescriptor
<1>11. ASSUME NEW t \in StopTasks, StopPoison(t) PROVE Inductive'
  BY <1>11 DEF StopPoison, Poison
<1>12. ASSUME NEW t \in StopTasks, StopDeleteQueue(t) PROVE Inductive'
  BY <1>12 DEF StopDeleteQueue, SendTaskHasLeft
<1>13. ASSUME NEW t \in StopTasks, StopUnlinkQueue(t) PROVE Inductive'
  BY <1>13 DEF StopUnlinkQueue
<1>14. ASSUME NEW t \in StopTasks, StopCallback(t) PROVE Inductive'
  BY <1>14 DEF StopCallback, AfterStop
<1>15. CASE ReadLoop
  BY <1>15 DEF ReadLoop
<1>16. CASE ReadNothing
  BY <1>16 DEF ReadNothing
<1>17. CASE ReadError
  BY <1>17 DEF ReadError
<1>18. CASE ReadData
  BY <1>18 DEF ReadData, EnterFrames
<1>19. CASE LineReceived
  BY <1>19 DEF LineReceived
<1>20. CASE GuardReceived
  BY <1>20 DEF GuardReceived
<1>21. CASE BadFrameReceived
  BY <1>21 DEF BadFrameReceived
<1>22. CASE DataFrameReceived
  BY <1>22 DEF DataFrameReceived
<1>23. CASE HandshakeReceived
  BY <1>23 DEF HandshakeReceived
<1>24. CASE ChunkDone
  BY <1>24 DEF ChunkDone
<1>25. CASE ReadExit
  BY <1>25 DEF ReadExit, CloseDescriptor, EndOfLoop
<1>26. CASE ReadTaskEnds
  BY <1>26 DEF ReadTaskEnds
<1>27. CASE ReadWriteReturns
  <2>1. Starting'
    BY <1>27 DEF ReadWriteReturns, EnterFrames
  <2>2. OneStopper'
    BY <1>27 DEF ReadWriteReturns, EnterFrames
  <2>3. Descriptor'
    BY <1>27 DEF ReadWriteReturns, EnterFrames
  <2>4. QueueHandle'
    BY <1>27 DEF ReadWriteReturns, EnterFrames
  <2>5. SendTaskFlag'
    BY <1>27 DEF ReadWriteReturns, EnterFrames
  <2>6. Handshaking'
    BY <1>27 DEF ReadWriteReturns, EnterFrames
  <2>7. QED
    BY <2>1, <2>2, <2>3, <2>4, <2>5, <2>6 DEF Inductive
<1>28. CASE SendCheck
  BY <1>28 DEF SendCheck
<1>29. CASE SendReceive
  BY <1>29 DEF SendReceive, Poison
<1>30. CASE SendBegin
  BY <1>30 DEF SendBegin, SendDrops
<1>31. CASE SendTakesReady
  BY <1>31 DEF SendTakesReady, TookReady
<1>32. CASE SendTimesOut
  BY <1>32 DEF SendTimesOut, SendDrops
<1>33. CASE SendTaskEnds
  BY <1>33 DEF SendTaskEnds
<1>34. CASE SendWriteReturns
  BY <1>34 DEF SendWriteReturns, SendDrops
<1>35. CASE LinkLost
  BY <1>35 DEF LinkLost
<1>36. CASE UNCHANGED vars
  BY <1>36 DEF vars
<1>37. QED
  BY <1>1, <1>2, <1>3, <1>4, <1>5, <1>6, <1>7, <1>8, <1>9, <1>10, <1>11,
     <1>12, <1>13, <1>14, <1>15, <1>16, <1>17, <1>18, <1>19, <1>20, <1>21,
     <1>22, <1>23, <1>24, <1>25, <1>26, <1>27, <1>28, <1>29, <1>30, <1>31,
     <1>32, <1>33, <1>34, <1>35, <1>36
  DEF Next, Enqueue, StopBody, ReadProceeds, SendProceeds

\* The inductive invariant is an invariant.
THEOREM InductiveHolds == Spec => []Inductive
<1>1. TypeOK /\ [Next]_vars => TypeOK'
  BY StepFlags, StepLabels, StepData DEF TypeOK
<1>2. QED
  BY InitTypeOK, <1>1, InitInductive, StepInductive, PTL DEF Spec

-----------------------------------------------------------------------------
(* The safety properties follow.                                           *)

\* stop() is executed by one task at a time; the descriptor is closed, and the
\* close callback called, at most once (fd_connection.cpp, stop()).
THEOREM TeardownOnceHolds == Spec => []TeardownOnce
<1>1. Inductive => TeardownOnce
  BY DEF Inductive, OneStopper, Descriptor, InStop, TeardownOnce
<1>2. QED
  BY InductiveHolds, <1>1, PTL

\* The send task never touches the queue after stop() has deleted it.
THEOREM QueueOutlivesSendTaskHolds == Spec => []QueueOutlivesSendTask
<1>1. Inductive => QueueOutlivesSendTask
  BY DEF Inductive, SendTaskFlag
<1>2. QED
  BY InductiveHolds, <1>1, PTL

\* When the application is told that the connection is closed, it is inert but
\* for the end of the read task.
THEOREM ClosedIsInertHolds == Spec => []ClosedIsInert
<1>1. Inductive => ClosedIsInert
  BY DEF Inductive, OneStopper, Descriptor, QueueHandle, SendTaskFlag,
         QueueOutlivesSendTask, ClosedIsInert
<1>2. QED
  BY InductiveHolds, <1>1, PTL

\* Nothing is sent before the handshake reply is written.
THEOREM SendsOnlyAfterHandshakeHolds == Spec => []SendsOnlyAfterHandshake
<1>1. Inductive => SendsOnlyAfterHandshake
  BY DEF Inductive, Handshaking, SendsOnlyAfterHandshake
<1>2. QED
  BY InductiveHolds, <1>1, PTL

-----------------------------------------------------------------------------
(* The order of the items.  An item gets its number when it is queued, so  *)
(* what was sent lies below what the send task holds, this below what the  *)
(* queue holds, and all of it at or below the last number.  The null item  *)
(* that stop() queues may stand anywhere between them.                     *)

Holding == {"item", "take", "write"}

ItemsInOrder ==
    /\ pc[Send] \in Holding <=> held # 0
    /\ held <= accepted
    /\ \A i \in DOMAIN queue : queue[i] <= accepted
    /\ \A i, j \in DOMAIN queue : i < j /\ queue[i] # 0 /\ queue[j] # 0 => queue[i] < queue[j]
    /\ \A j \in DOMAIN queue : held # 0 /\ queue[j] # 0 => held < queue[j]
    /\ \A i \in DOMAIN sent : sent[i] <= accepted
    /\ \A i, j \in DOMAIN sent : i < j => sent[i] < sent[j]
    /\ \A i \in DOMAIN sent, j \in DOMAIN queue : queue[j] # 0 => sent[i] < queue[j]
    /\ \A i \in DOMAIN sent : held # 0 => sent[i] < held

\* What a step does to the items: nothing, or it queues an item or the poison
\* pill, or the send task takes, drops or writes one.
ItemsStay ==
    /\ UNCHANGED <<queue, accepted, held, sent>>
    /\ pc'[Send] \in Holding <=> pc[Send] \in Holding
ItemQueued ==
    /\ sendQueue = "live" /\ Len(queue) < QueueLen
    /\ queue' = Append(queue, accepted + 1) /\ accepted' = accepted + 1
    /\ UNCHANGED <<sendQueue, held, sent>> /\ pc'[Send] = pc[Send]
PillIsQueued ==
    /\ queue' = Append(queue, 0) \/ queue' = queue
    /\ UNCHANGED <<sendQueue, accepted, held, sent>> /\ pc'[Send] = pc[Send]
ItemTaken ==
    /\ queue # <<>> /\ held' = Head(queue) /\ queue' = Tail(queue)
    /\ UNCHANGED <<sendQueue, accepted, sent>>
    /\ pc[Send] = "receive" /\ (pc'[Send] \in Holding <=> Head(queue) # 0)
ItemDropped ==
    /\ pc[Send] \in Holding /\ held' = 0 /\ pc'[Send] = "check"
    /\ UNCHANGED <<sendQueue, queue, accepted, sent>>
ItemWritten ==
    /\ pc[Send] = "write" /\ sent' = Append(sent, held)
    /\ held' = 0 /\ pc'[Send] = "check"
    /\ UNCHANGED <<sendQueue, queue, accepted>>

\* There are no other steps.
LEMMA StepItems ==
    ASSUME LabelsOK, Inductive, [Next]_vars
    PROVE  ItemsStay \/ ItemQueued \/ PillIsQueued \/ ItemTaken \/ ItemDropped \/ ItemWritten
<1> USE TasksAssumption
<1> USE DEF LabelsOK, ItemsStay, Holding, Goto, Tasks, StopTasks, queueVars
<1>1. CASE Start \/ StartSendTask \/ StartReadTask \/ StartReadTaskFails
  BY <1>1 DEF Start, StartSendTask, StartReadTask, StartReadTaskFails, Inductive, Starting
<1>2. ASSUME NEW t \in Callers, EnqueueCheck(t) \/ EnqueueOnDeleted(t) PROVE ItemsStay
  BY <1>2 DEF EnqueueCheck, EnqueueOnDeleted
<1>3. ASSUME NEW t \in Callers, EnqueuePut(t) PROVE ItemQueued
  BY <1>3 DEF EnqueuePut, ItemQueued
<1>4. ASSUME NEW t \in StopTasks,
             \/ StopEnter(t) \/ StopProtocol(t) \/ StopDescriptor(t) \/ StopDeleteQueue(t)
             \/ StopUnlinkQueue(t) \/ StopCallback(t)
      PROVE  ItemsStay
  BY <1>4
  DEF StopEnter, StopProtocol, StopDescriptor, StopDeleteQueue, StopUnlinkQueue, StopCallback
<1>5. ASSUME NEW t \in StopTasks, StopPoison(t) PROVE PillIsQueued
  BY <1>5 DEF StopPoison, PillQueued, Poison, PillIsQueued
<1>6. CASE ReadProceeds \/ ReadWriteReturns
  BY <1>6
  DEF ReadProceeds, ReadLoop, ReadNothing, ReadError, ReadData, LineReceived, GuardReceived,
      BadFrameReceived, DataFrameReceived, HandshakeReceived, ChunkDone, ReadExit,
      ReadTaskEnds, ReadWriteReturns
<1>7. CASE SendReceive
  BY <1>7 DEF SendReceive, Poison, ItemTaken
<1>8. CASE SendBegin \/ SendTimesOut
  BY <1>8 DEF SendBegin, SendTimesOut, SendDrops, NoItem, ItemDropped
<1>9. CASE SendWriteReturns
  BY <1>9 DEF SendWriteReturns, SendDrops, NoItem, ItemDropped, ItemWritten
<1>10. CASE SendCheck \/ SendTakesReady \/ SendTaskEnds
  BY <1>10 DEF SendCheck, SendTakesReady, SendTaskEnds
<1>11. CASE LinkLost
  BY <1>11 DEF LinkLost
<1>12. CASE UNCHANGED vars
  BY <1>12 DEF vars
<1> QED
  BY <1>1, <1>2, <1>3, <1>4, <1>5, <1>6, <1>7, <1>8, <1>9, <1>10, <1>11, <1>12
  DEF Next, Enqueue, StopBody, SendProceeds

\* What Append and Tail do to the places of a sequence of numbers.
LEMMA Places ==
    ASSUME NEW s \in Seq(Nat), NEW x \in Nat
    PROVE  /\ DOMAIN s = 1 .. Len(s) /\ Len(s) \in Nat
           /\ \A i \in DOMAIN s : s[i] \in Nat
           /\ \A i \in DOMAIN Append(s, x) :
                 \/ i \in DOMAIN s /\ Append(s, x)[i] = s[i]
                 \/ i = Len(s) + 1 /\ Append(s, x)[i] = x
           /\ s # <<>> =>
                 /\ 1 \in DOMAIN s /\ Head(s) = s[1]
                 /\ \A i \in DOMAIN Tail(s) : i + 1 \in DOMAIN s /\ Tail(s)[i] = s[i + 1]
                 /\ DOMAIN Tail(s) \subseteq Nat \ {0}
  OBVIOUS

\* A step keeps the order.
LEMMA StepItemsInOrder ==
    ASSUME TypeOK, Inductive, ItemsInOrder, [Next]_vars
    PROVE  ItemsInOrder'
<1>1. queue \in Seq(Nat) /\ sent \in Seq(Nat) /\ held \in Nat /\ accepted \in Nat
  BY DEF TypeOK, DataOK
<1>2. CASE ItemsStay
  BY <1>2 DEF ItemsStay, ItemsInOrder
<1>3. CASE ItemQueued
  BY <1>1, <1>3, SMTT(30) DEF ItemQueued, ItemsInOrder
<1>4. CASE PillIsQueued
  <2>1. CASE queue' = queue
    BY <1>4, <2>1 DEF PillIsQueued, ItemsInOrder
  <2>2. CASE queue' = Append(queue, 0)
    <3>1. UNCHANGED <<accepted, held, sent>> /\ pc'[Send] = pc[Send]
      BY <1>4 DEF PillIsQueued
    <3>2. /\ DOMAIN queue = 1 .. Len(queue) /\ Len(queue) \in Nat
          /\ \A i \in DOMAIN queue' :
                \/ i \in DOMAIN queue /\ queue'[i] = queue[i]
                \/ i = Len(queue) + 1 /\ queue'[i] = 0
      BY <1>1, <2>2, Places
    <3>3. \A i, j \in DOMAIN queue' :
              i < j /\ queue'[i] # 0 /\ queue'[j] # 0 => queue'[i] < queue'[j]
      BY <3>2 DEF ItemsInOrder
    <3>4. \A i \in DOMAIN queue' : queue'[i] <= accepted
      <4>1. accepted \in Nat /\ \A i \in DOMAIN queue : queue[i] <= accepted
        BY <1>1 DEF ItemsInOrder
      <4> QED
        BY <3>2, <4>1
    <3>5. /\ \A j \in DOMAIN queue' : held # 0 /\ queue'[j] # 0 => held < queue'[j]
          /\ \A i \in DOMAIN sent, j \in DOMAIN queue' :
                queue'[j] # 0 => sent[i] < queue'[j]
      BY <3>2 DEF ItemsInOrder
    <3> QED
      BY <3>1, <3>3, <3>4, <3>5 DEF ItemsInOrder
  <2> QED
    BY <1>4, <2>1, <2>2 DEF PillIsQueued
<1>5. CASE ItemTaken
  <2>1. /\ held' = Head(queue) /\ queue' = Tail(queue) /\ UNCHANGED <<accepted, sent>>
        /\ pc'[Send] \in Holding <=> Head(queue) # 0
    BY <1>5 DEF ItemTaken
  <2>2. /\ 1 \in DOMAIN queue /\ held' = queue[1]
        /\ \A i \in DOMAIN queue' : i \in Nat \ {0} /\ i + 1 \in DOMAIN queue
                                 /\ queue'[i] = queue[i + 1]
    BY <1>1, <1>5, <2>1, Places DEF ItemTaken
  <2>3. /\ \A i, j \in DOMAIN queue' :
              i < j /\ queue'[i] # 0 /\ queue'[j] # 0 => queue'[i] < queue'[j]
        /\ \A j \in DOMAIN queue' : held' # 0 /\ queue'[j] # 0 => held' < queue'[j]
    BY <2>2 DEF ItemsInOrder
  <2>4. held' <= accepted /\ \A i \in DOMAIN queue' : queue'[i] <= accepted
    BY <2>2 DEF ItemsInOrder
  <2>5. /\ \A i \in DOMAIN sent, j \in DOMAIN queue' : queue'[j] # 0 => sent[i] < queue'[j]
        /\ \A i \in DOMAIN sent : held' # 0 => sent[i] < held'
    BY <2>2 DEF ItemsInOrder
  <2>6. pc'[Send] \in Holding <=> held' # 0
    BY <2>1
  <2> QED
    BY <2>1, <2>3, <2>4, <2>5, <2>6 DEF ItemsInOrder
<1>6. CASE ItemDropped
  BY <1>1, <1>6 DEF ItemDropped, ItemsInOrder, Holding
<1>7. CASE ItemWritten
  <2>1. /\ sent' = Append(sent, held) /\ held' = 0 /\ UNCHANGED <<queue, accepted>>
        /\ pc'[Send] \notin Holding /\ held # 0
    BY <1>7 DEF ItemWritten, ItemsInOrder, Holding
  <2>2. /\ DOMAIN sent = 1 .. Len(sent) /\ Len(sent) \in Nat
        /\ \A i \in DOMAIN sent' :
              \/ i \in DOMAIN sent /\ sent'[i] = sent[i]
              \/ i = Len(sent) + 1 /\ sent'[i] = held
    BY <1>1, <2>1, Places
  <2>3. \A i, j \in DOMAIN sent' : i < j => sent'[i] < sent'[j]
    BY <2>1, <2>2 DEF ItemsInOrder
  <2>4. \A i \in DOMAIN sent' : sent'[i] <= accepted
    BY <2>2 DEF ItemsInOrder
  <2>5. \A i \in DOMAIN sent', j \in DOMAIN queue : queue[j] # 0 => sent'[i] < queue[j]
    BY <2>1, <2>2 DEF ItemsInOrder
  <2>6. held' <= accepted
    BY <1>1, <2>1
  <2> QED
    BY <2>1, <2>3, <2>4, <2>5, <2>6 DEF ItemsInOrder
<1> QED
  BY <1>2, <1>3, <1>4, <1>5, <1>6, <1>7, StepItems DEF TypeOK

\* The items stay in order in every behaviour.
LEMMA ItemsInOrderHolds == Spec => []ItemsInOrder
<1>1. Init => ItemsInOrder
  <2>1. Init => queue = <<>> /\ sent = <<>> /\ held = 0 /\ accepted = 0 /\ pc[Send] = "none"
    BY TasksAssumption DEF Init, NoItem, Tasks
  <2> QED
    BY <2>1 DEF ItemsInOrder, Holding
<1>2. TypeOK /\ Inductive /\ ItemsInOrder /\ [Next]_vars => ItemsInOrder'
  BY StepItemsInOrder
<1> QED
  BY <1>1, <1>2, TypeCorrect, InductiveHolds, PTL DEF Spec

-----------------------------------------------------------------------------
(* The refinement.  Queuing an item accepts it; the send task delivers or  *)
(* loses the oldest, which is the one it holds; the deletion of the queue  *)
(* shuts the channel; every other step stutters.                           *)

\* What a sequence of numbers holds after Append.
LEMMA AppendedToSet ==
    ASSUME NEW s \in Seq(Nat), NEW x \in Nat
    PROVE  {Append(s, x)[i] : i \in DOMAIN Append(s, x)} = {s[i] : i \in DOMAIN s} \cup {x}
<1>1. /\ DOMAIN s = 1 .. Len(s) /\ Len(s) \in Nat
      /\ DOMAIN Append(s, x) = 1 .. Len(s) + 1
      /\ \A i \in 1 .. Len(s) : Append(s, x)[i] = s[i]
      /\ Append(s, x)[Len(s) + 1] = x
  OBVIOUS
<1>2. Len(s) + 1 \in DOMAIN Append(s, x) /\ DOMAIN s \subseteq DOMAIN Append(s, x)
  BY <1>1
<1>3. \A i \in DOMAIN Append(s, x) : i \in DOMAIN s \/ i = Len(s) + 1
  BY <1>1
<1>4. \A i \in DOMAIN s : Append(s, x)[i] = s[i]
  BY <1>1
<1> QED
  BY <1>1, <1>2, <1>3, <1>4, Zenon

\* What a sequence of numbers holds is its head and what its tail holds.
LEMMA HeadAndTail ==
    ASSUME NEW s \in Seq(Nat), s # <<>>
    PROVE  {s[i] : i \in DOMAIN s} = {Tail(s)[i] : i \in DOMAIN Tail(s)} \cup {Head(s)}
<1>1. 1 \in DOMAIN s /\ Head(s) = s[1] /\ DOMAIN s \subseteq Nat \ {0}
  OBVIOUS
<1>2. \A i \in DOMAIN Tail(s) : i + 1 \in DOMAIN s /\ Tail(s)[i] = s[i + 1]
  OBVIOUS
<1>3. \A i \in DOMAIN s : i # 1 => i - 1 \in DOMAIN Tail(s) /\ Tail(s)[i - 1] = s[i]
  OBVIOUS
<1> DEFINE All == {s[i] : i \in DOMAIN s}
           Rest == {Tail(s)[i] : i \in DOMAIN Tail(s)}
<1>4. Rest \subseteq All /\ Head(s) \in All
  BY <1>1, <1>2
<1>5. \A i \in DOMAIN s : s[i] \in Rest \cup {Head(s)}
  <2> SUFFICES ASSUME NEW i \in DOMAIN s PROVE s[i] \in Rest \cup {Head(s)}
    OBVIOUS
  <2>1. CASE i = 1
    BY <1>1, <2>1
  <2>2. CASE i # 1
    BY <1>3, <2>2
  <2> QED
    BY <2>1, <2>2
<1> QED
  BY <1>4, <1>5

\* What is pending fits the channel: the queue, and the item that is held.
LEMMA PendingFits ==
    ASSUME TypeOK
    PROVE  Cardinality(Pending) \in Nat /\ Cardinality(Pending) <= Len(queue) + 1
<1> DEFINE Queued == {queue[i] : i \in DOMAIN queue}
<1>1. PICK n \in Nat : n = Len(queue) /\ DOMAIN queue = 1 .. n
  BY DEF TypeOK, DataOK
<1>2. IsFiniteSet(Queued) /\ Cardinality(Queued) <= n
  <2>1. [i \in 1 .. n |-> queue[i]] \in Surjection(1 .. n, Queued)
    BY <1>1 DEF Surjection
  <2>2. ExistsSurjection(1 .. n, Queued)
    BY <2>1 DEF ExistsSurjection
  <2> QED
    BY <2>2, FS_NatSurjection, FS_SurjCardinalityBound
<1>3. /\ IsFiniteSet(Queued \cup {held})
      /\ Cardinality(Queued \cup {held}) <= n + 1
  <2>1. Cardinality(Queued) \in Nat
    BY <1>2, FS_CardinalityType
  <2>2. /\ IsFiniteSet(Queued \cup {held})
        /\ \/ Cardinality(Queued \cup {held}) = Cardinality(Queued)
           \/ Cardinality(Queued \cup {held}) = Cardinality(Queued) + 1
    BY <1>2, FS_AddElement
  <2> QED
    BY <1>2, <2>1, <2>2
<1>4. Pending \in SUBSET (Queued \cup {held})
  BY DEF Pending
<1>5. /\ IsFiniteSet(Pending) /\ Cardinality(Pending) \in Nat
      /\ Cardinality(Pending) <= Cardinality(Queued \cup {held})
      /\ Cardinality(Queued \cup {held}) \in Nat
  BY <1>3, <1>4, FS_Subset, FS_CardinalityType
<1> QED
  BY <1>1, <1>3, <1>5

\* The queue is deleted once and for good, by a step that leaves the items alone.
LEMMA StepDeleted ==
    ASSUME TypeOK, Inductive, [Next]_vars
    PROVE  Deleted => Deleted'
<1> USE DEF Deleted, connVars, queueVars, Inductive, QueueHandle
<1>1. CASE Start
  BY <1>1 DEF Start
<1>2. ASSUME NEW t \in StopTasks, StopDeleteQueue(t) \/ StopUnlinkQueue(t) PROVE Deleted'
  BY <1>2 DEF StopDeleteQueue, StopUnlinkQueue
<1>3. CASE UNCHANGED sendQueue
  BY <1>3
<1>4. \/ UNCHANGED sendQueue \/ Start
      \/ \E t \in StopTasks : StopDeleteQueue(t) \/ StopUnlinkQueue(t)
  BY
  DEF Next, Enqueue, StopBody, ReadProceeds, SendProceeds, StartSendTask, StartReadTask,
      StartReadTaskFails, EnqueueCheck, EnqueuePut, EnqueueOnDeleted, StopEnter, StopProtocol,
      StopDescriptor, StopPoison, StopCallback, ReadLoop, ReadNothing, ReadError, ReadData,
      LineReceived, GuardReceived, BadFrameReceived, DataFrameReceived, HandshakeReceived,
      ChunkDone, ReadExit, ReadTaskEnds, ReadWriteReturns, SendCheck, SendReceive, SendBegin,
      SendTakesReady, SendTimesOut, SendTaskEnds, SendWriteReturns, LinkLost, vars
<1> QED
  BY <1>1, <1>2, <1>3, <1>4

\* The item that is held is the oldest one pending, as long as the queue lives.
LEMMA HeldIsOldest ==
    ASSUME TypeOK, Inductive, ItemsInOrder, pc[Send] \in Holding
    PROVE  /\ ~Deleted
           /\ Channel!Oldest(held)
           /\ queue' = queue /\ held' = 0 /\ sendQueue' = sendQueue =>
                  Pending' = Pending \ {held}
<1>1. ~Deleted
  BY DEF Inductive, SendTaskFlag, QueueOutlivesSendTask, Deleted, Holding
<1>2. held # 0 /\ held \in Nat /\ queue \in Seq(Nat)
  BY DEF ItemsInOrder, TypeOK, DataOK
<1>3. Pending = ({held} \cup {queue[i] : i \in DOMAIN queue}) \ {0}
  BY <1>1 DEF Pending, Poison, NoItem
<1>4. \A i \in DOMAIN queue : queue[i] # 0 => held < queue[i] /\ queue[i] \in Nat
  BY <1>2 DEF ItemsInOrder
<1>5. \A item \in Pending : held <= item
  <2> SUFFICES ASSUME NEW item \in Pending PROVE held <= item
    OBVIOUS
  <2>1. CASE item = held
    BY <1>2, <2>1
  <2>2. CASE \E i \in DOMAIN queue : item = queue[i] /\ queue[i] # 0
    BY <1>2, <1>4, <2>2
  <2> QED
    BY <1>3, <2>1, <2>2
<1>6. held \in Pending
  BY <1>2, <1>3
<1>7. ASSUME queue' = queue, held' = 0, sendQueue' = sendQueue
      PROVE  Pending' = Pending \ {held}
  <2>1. Pending' = ({0} \cup {queue[i] : i \in DOMAIN queue}) \ {0}
    BY <1>1, <1>7 DEF Pending, Poison, NoItem, Deleted
  <2>2. \A i \in DOMAIN queue : queue[i] # held
    BY <1>2, <1>4
  <2> QED
    BY <1>3, <2>1, <2>2
<1> QED
  BY <1>1, <1>5, <1>6, <1>7 DEF Channel!Oldest

\* Every step is a step of the channel, or a stutter.
LEMMA StepChannel ==
    ASSUME TypeOK, Inductive, ItemsInOrder, [Next]_vars
    PROVE  [Channel!Next]_(Channel!vars)
<1>1. queue \in Seq(Nat) /\ accepted \in Nat /\ held \in Nat /\ QueueLen \in Nat
  BY BoundsAssumption DEF TypeOK, DataOK
<1>2. CASE ItemsStay
  <2>1. UNCHANGED <<queue, accepted, held, sent>>
    BY <1>2 DEF ItemsStay
  <2>2. CASE Deleted' = Deleted
    <3>1. Pending' = Pending
      BY <2>1, <2>2 DEF Pending
    <3> QED
      BY <2>1, <2>2, <3>1 DEF Channel!vars
  <2>3. CASE ~Deleted /\ Deleted'
    <3>1. Pending' = {}
      BY <2>3 DEF Pending
    <3>2. Deleted' = TRUE
      BY <2>3 DEF Deleted
    <3> QED
      BY <2>1, <2>3, <3>1, <3>2 DEF Channel!Next, Channel!Shut
  <2> QED
    BY <2>2, <2>3, StepDeleted DEF Deleted
<1>3. CASE ItemQueued
  <2>1. /\ queue' = Append(queue, accepted + 1) /\ accepted' = accepted + 1
        /\ held' = held /\ sent' = sent /\ Deleted' = Deleted /\ ~Deleted
        /\ Len(queue) < QueueLen
    BY <1>3 DEF ItemQueued, Deleted
  <2>2. {queue'[i] : i \in DOMAIN queue'} =
            {queue[i] : i \in DOMAIN queue} \cup {accepted + 1}
    <3>1. PICK item \in Nat : item = accepted + 1
      BY <1>1
    <3>2. queue' = Append(queue, item) /\ queue \in Seq(Nat)
      BY <1>1, <2>1, <3>1
    <3>3. {queue'[i] : i \in DOMAIN queue'} = {queue[i] : i \in DOMAIN queue} \cup {item}
      BY <3>2, AppendedToSet, SMTT(20)
    <3> QED
      BY <3>1, <3>3
  <2>3. accepted + 1 # 0
    BY <1>1
  <2>4. Pending' = Pending \cup {accepted + 1}
    BY <2>1, <2>2, <2>3 DEF Pending, Poison, NoItem
  <2>5. Cardinality(Pending) < QueueLen + 1
    BY <1>1, <2>1, PendingFits
  <2> QED
    <3>0. Channel!Cardinality(Pending) = Cardinality(Pending)
      BY DEF Channel!Cardinality, Cardinality
    <3>1. Channel!Accept
      BY <2>1, <2>4, <2>5, <3>0 DEF Channel!Accept
    <3> QED
      BY <3>1 DEF Channel!Next
<1>4. CASE PillIsQueued
  <2>1. UNCHANGED <<sendQueue, accepted, held, sent>>
    BY <1>4 DEF PillIsQueued
  <2>2. Pending' = Pending
    <3>1. CASE queue' = queue
      BY <2>1, <3>1 DEF Pending, Deleted
    <3>2. CASE queue' = Append(queue, 0)
      <4>0. PICK pill \in Nat : pill = 0
        OBVIOUS
      <4>2. queue' = Append(queue, pill) /\ queue \in Seq(Nat)
        BY <1>1, <3>2, <4>0
      <4>3. {queue'[i] : i \in DOMAIN queue'} = {queue[i] : i \in DOMAIN queue} \cup {pill}
        BY <4>2, AppendedToSet, SMTT(20)
      <4>1. {queue'[i] : i \in DOMAIN queue'} = {queue[i] : i \in DOMAIN queue} \cup {0}
        BY <4>0, <4>3
      <4> QED
        BY <2>1, <4>1 DEF Pending, Deleted, Poison, NoItem
    <3> QED
      BY <1>4, <3>1, <3>2 DEF PillIsQueued
  <2> QED
    BY <2>1, <2>2 DEF Channel!vars, Deleted
<1>5. CASE ItemTaken
  <2>1. /\ queue # <<>> /\ held' = Head(queue) /\ queue' = Tail(queue)
        /\ UNCHANGED <<sendQueue, accepted, sent>> /\ held = 0
    BY <1>5 DEF ItemTaken, ItemsInOrder, Holding
  <2>2. {queue[i] : i \in DOMAIN queue} = {queue'[i] : i \in DOMAIN queue'} \cup {held'}
    <3>1. queue \in Seq(Nat) /\ queue # <<>>
      BY <1>1, <2>1
    <3> QED
      BY <2>1, <3>1, HeadAndTail
  <2>3. Pending' = Pending
    BY <2>1, <2>2 DEF Pending, Deleted, Poison, NoItem
  <2> QED
    BY <2>1, <2>3 DEF Channel!vars, Deleted
<1>6. CASE ItemDropped
  <2>1. pc[Send] \in Holding /\ held' = 0 /\ UNCHANGED <<sendQueue, queue, accepted, sent>>
    BY <1>6 DEF ItemDropped
  <2>2. Channel!Leaves(held) /\ held \in Pending
    BY <2>1, HeldIsOldest DEF Channel!Leaves, Channel!Oldest
  <2> QED
    BY <2>1, <2>2 DEF Channel!Next, Channel!Lose, Deleted
<1>7. CASE ItemWritten
  <2>1. /\ pc[Send] \in Holding /\ held' = 0 /\ sent' = Append(sent, held)
        /\ UNCHANGED <<sendQueue, queue, accepted>>
    BY <1>7 DEF ItemWritten, Holding
  <2>2. Channel!Leaves(held) /\ held \in Pending /\ ~Deleted
    BY <2>1, HeldIsOldest DEF Channel!Leaves, Channel!Oldest
  <2> QED
    BY <2>1, <2>2 DEF Channel!Next, Channel!Deliver, Deleted
<1> QED
  BY <1>2, <1>3, <1>4, <1>5, <1>6, <1>7, StepItems DEF TypeOK

\* Seen through enqueueSend() and the peer, one connection is a SendChannel of the
\* queue's capacity and one: every behaviour of the detailed model, with its
\* races, failures and teardown, is one of the abstract channel.
THEOREM ImplementsChannelHolds == Spec => ImplementsChannel
<1>1. Init => Channel!Init
  <2> SUFFICES ASSUME Init PROVE Channel!Init
    OBVIOUS
  <2>1. queue = <<>> /\ held = 0 /\ accepted = 0 /\ sent = <<>> /\ Deleted = FALSE
    BY DEF Init, NoItem, Deleted
  <2>2. Pending = {}
    BY <2>1 DEF Pending, Poison, NoItem
  <2> QED
    BY <2>1, <2>2 DEF Channel!Init
<1>2. TypeOK /\ Inductive /\ ItemsInOrder /\ [Next]_vars => [Channel!Next]_(Channel!vars)
  BY StepChannel
<1> QED
  BY <1>1, <1>2, TypeCorrect, InductiveHolds, ItemsInOrderHolds, PTL
  DEF Spec, ImplementsChannel, Channel!Spec

-----------------------------------------------------------------------------
(* The channel delivers in order: items get their numbers when they are    *)
(* accepted, so the invariant only has to say that what was delivered lies *)
(* below what is pending, and this below the next number.                  *)

ChannelInOrder ==
    /\ accepted \in Nat
    /\ Pending \subseteq 1 .. accepted
    /\ sent \in Seq(Nat)
    /\ \A i \in DOMAIN sent : sent[i] <= accepted
    /\ \A i \in DOMAIN sent, item \in Pending : sent[i] < item
    /\ Channel!Ordered

\* What Append does to the places of a sequence of numbers.
LEMMA AppendPlaces ==
    ASSUME NEW s \in Seq(Nat), NEW x \in Nat
    PROVE  /\ Append(s, x) \in Seq(Nat)
           /\ DOMAIN s = 1 .. Len(s) /\ Len(s) \in Nat
           /\ DOMAIN Append(s, x) = 1 .. Len(s) + 1
           /\ \A i \in 1 .. Len(s) : Append(s, x)[i] = s[i]
           /\ Append(s, x)[Len(s) + 1] = x
  OBVIOUS

\* An item that is above all those delivered may be delivered next.
LEMMA AppendOrdered ==
    ASSUME sent \in Seq(Nat), Channel!Ordered,
           NEW item \in Nat, \A i \in DOMAIN sent : sent[i] < item,
           sent' = Append(sent, item)
    PROVE  /\ sent' \in Seq(Nat)
           /\ Channel!Ordered'
           /\ \A i \in DOMAIN sent' : sent'[i] = item \/ (i \in DOMAIN sent /\ sent'[i] = sent[i])
<1> DEFINE new == Append(sent, item)
<1>1. /\ new \in Seq(Nat)
      /\ DOMAIN sent = 1 .. Len(sent) /\ Len(sent) \in Nat
      /\ DOMAIN new = 1 .. Len(sent) + 1
      /\ \A i \in 1 .. Len(sent) : new[i] = sent[i]
      /\ new[Len(sent) + 1] = item
  BY AppendPlaces
<1> HIDE DEF new
<1>2. \A i, j \in DOMAIN new : i < j => new[i] < new[j]
  <2> SUFFICES ASSUME NEW i \in 1 .. Len(sent) + 1, NEW j \in 1 .. Len(sent) + 1, i < j
               PROVE  new[i] < new[j]
    BY <1>1
  <2>1. i \in 1 .. Len(sent)
    BY <1>1
  <2>2. CASE j = Len(sent) + 1
    BY <1>1, <2>1, <2>2
  <2>3. CASE j \in 1 .. Len(sent)
    BY <1>1, <2>1, <2>3 DEF Channel!Ordered
  <2>4. j \in 1 .. Len(sent) \/ j = Len(sent) + 1
    <3> DEFINE n == Len(sent)
    <3>1. n \in Nat
      BY <1>1
    <3> HIDE DEF n
    <3>2. j \in 1 .. n + 1 => j \in 1 .. n \/ j = n + 1
      BY <3>1
    <3> QED
      BY <3>2 DEF n
  <2> QED
    BY <2>2, <2>3, <2>4
<1>3. sent' = new
  BY DEF new
<1> QED
  BY <1>1, <1>2, <1>3 DEF Channel!Ordered

\* The channel begins in order.
LEMMA InitChannelInOrder == Channel!Init => ChannelInOrder
  BY DEF Channel!Init, ChannelInOrder, Channel!Ordered

\* Every step of the channel keeps it in order.
LEMMA StepChannelInOrder == ChannelInOrder /\ [Channel!Next]_(Channel!vars) => ChannelInOrder'
<1> SUFFICES ASSUME ChannelInOrder, [Channel!Next]_(Channel!vars) PROVE ChannelInOrder'
  OBVIOUS
<1> USE DEF ChannelInOrder
<1>1. CASE Channel!Accept
  <2>1. accepted' = accepted + 1 /\ Pending' = Pending \cup {accepted + 1} /\ sent' = sent
    BY <1>1 DEF Channel!Accept
  <2>2. \A i \in DOMAIN sent : sent[i] \in Nat
    OBVIOUS
  <2>3. Pending' \subseteq 1 .. accepted'
    BY <2>1
  <2>4. /\ \A i \in DOMAIN sent : sent[i] <= accepted'
        /\ \A i \in DOMAIN sent, item \in Pending' : sent[i] < item
    BY <2>1, <2>2
  <2> QED
    BY <2>1, <2>3, <2>4 DEF Channel!Ordered
<1>2. CASE Channel!Deliver
  <2>1. PICK item \in Pending :
            Channel!Leaves(item) /\ sent' = Append(sent, item) /\ accepted' = accepted
    BY <1>2 DEF Channel!Deliver
  <2>2. item \in 1 .. accepted /\ Pending \subseteq Nat /\ \A i \in DOMAIN sent : sent[i] < item
    OBVIOUS
  <2>3. /\ sent' \in Seq(Nat) /\ Channel!Ordered'
        /\ \A i \in DOMAIN sent' : sent'[i] = item \/ (i \in DOMAIN sent /\ sent'[i] = sent[i])
    BY <2>1, <2>2, AppendOrdered
  <2>4. Pending' \subseteq Pending /\ \A other \in Pending' : item < other
    <3>1. Pending' = Pending \ {item} /\ \A other \in Pending : item <= other
      BY <2>1 DEF Channel!Leaves, Channel!Oldest
    <3> QED
      BY <2>2, <3>1
  <2>5. \A i \in DOMAIN sent' : sent'[i] <= accepted
    <3> SUFFICES ASSUME NEW i \in DOMAIN sent' PROVE sent'[i] <= accepted
      OBVIOUS
    <3>1. CASE sent'[i] = item
      BY <2>2, <3>1
    <3>2. CASE i \in DOMAIN sent /\ sent'[i] = sent[i]
      BY <3>2
    <3> QED
      BY <2>3, <3>1, <3>2
  <2>6. \A i \in DOMAIN sent', other \in Pending' : sent'[i] < other
    <3> SUFFICES ASSUME NEW i \in DOMAIN sent', NEW other \in Pending'
                 PROVE  sent'[i] < other
      OBVIOUS
    <3>1. CASE sent'[i] = item
      BY <2>4, <3>1
    <3>2. CASE i \in DOMAIN sent /\ sent'[i] = sent[i]
      BY <2>4, <3>2
    <3> QED
      BY <2>3, <3>1, <3>2
  <2> QED
    BY <2>1, <2>3, <2>4, <2>5, <2>6
<1>3. CASE Channel!Lose
  <2>1. Pending' \subseteq Pending /\ UNCHANGED <<accepted, sent>>
    BY <1>3 DEF Channel!Lose, Channel!Leaves
  <2> QED
    BY <2>1 DEF Channel!Ordered
<1>4. CASE Channel!Shut
  BY <1>4 DEF Channel!Shut, Channel!Ordered
<1>5. CASE UNCHANGED Channel!vars
  BY <1>5 DEF Channel!vars, Channel!Ordered
<1> QED
  BY <1>1, <1>2, <1>3, <1>4, <1>5 DEF Channel!Next

\* Items are delivered in the order they were accepted and none of them twice,
\* for any capacity: what enqueueSend() and the send task promise together.
THEOREM OrderedHolds == Channel!Spec => []Channel!Ordered
<1>1. ChannelInOrder => Channel!Ordered
  BY DEF ChannelInOrder
<1> QED
  BY <1>1, InitChannelInOrder, StepChannelInOrder, PTL DEF Channel!Spec

\* The peer gets items in the order in which enqueueSend() queued them, and none
\* twice, whatever times out, fails or stops, for any number of callers and any
\* length of the queue: every connection is such a channel.
THEOREM DeliveredInOrderHolds == Spec => []DeliveredInOrder
<1>1. Spec => Channel!Spec
  BY ImplementsChannelHolds DEF ImplementsChannel
<1>2. Channel!Ordered => DeliveredInOrder
  BY DEF DeliveredInOrder
<1> QED
  BY <1>1, <1>2, OrderedHolds, PTL

-----------------------------------------------------------------------------
(* The connection has a ConnectionLife.  Deleting the queue ends the       *)
(* teardown, the close callback announces it, and for the rest the life is *)
(* where start(), the read task and the stopper of the application are.    *)

\* The states of the life, by what stop() has done.
LEMMA LifeFlags ==
    Inductive =>
        /\ TornDown <=> sendQueue = "null"
        /\ CloseCalled <=> closeCbSent \/ startPc = "failed"
<1> SUFFICES ASSUME Inductive
             PROVE  /\ TornDown <=> sendQueue = "null"
                    /\ CloseCalled <=> closeCbSent \/ startPc = "failed"
  OBVIOUS
<1>1. TornDown <=> sendQueue = "null"
  BY DEF Inductive, Descriptor, SendTaskFlag, QueueOutlivesSendTask, TornDown
<1>2. closeCbs = IF closeCbSent \/ startPc = "failed" THEN 1 ELSE 0
  BY DEF Inductive, OneStopper
<1>3. CloseCalled <=> closeCbSent \/ startPc = "failed"
  BY <1>2 DEF CloseCalled
<1> QED
  BY <1>1, <1>3

\* Where the reader is does not change if its label and start() stay where they are.
LEMMA ReaderStays ==
    ASSUME pc'[Read] = pc[Read], startPc' = startPc, handshake' = handshake
    PROVE  LifeReader' = LifeReader
BY DEF LifeReader, StartedReader

\* The owner stays out of stop(), or where it is in it.
LEMMA OwnerStays ==
    ASSUME \A t \in Stoppers :
               \/ pc'[t] = pc[t]
               \/ pc[t] \notin StopPcs /\ pc'[t] \notin StopPcs
               \/ {pc[t], pc'[t]} \subseteq StopPcs \ {"callback"}
    PROVE  LifeOwner' = LifeOwner
<1>1. (\E t \in Stoppers : pc'[t] = "callback") <=> (\E t \in Stoppers : pc[t] = "callback")
  BY DEF StopPcs
<1>2. (\E t \in Stoppers : pc'[t] \in StopPcs) <=> (\E t \in Stoppers : pc[t] \in StopPcs)
  BY DEF StopPcs
<1> QED
  BY <1>1, <1>2 DEF LifeOwner

\* A reader that stays out of stop() stays where it is, until it ends.
LEMMA ReaderReads ==
    ASSUME startPc = "up", startPc' = "up", handshake' = handshake,
           pc[Read] \notin StopPcs \cup {"fin", "gone"},
           pc'[Read] \notin StopPcs \cup {"fin", "gone"}
    PROVE  LifeReader' = LifeReader
BY DEF LifeReader, StartedReader, StopPcs

\* And after a step.
LEMMA LifeFlagsAfter ==
    ASSUME Inductive'
    PROVE  /\ TornDown' <=> sendQueue' = "null"
           /\ CloseCalled' <=> closeCbSent' \/ startPc' = "failed"
<1>1. TornDown' <=> sendQueue' = "null"
  BY DEF Inductive, Descriptor, SendTaskFlag, QueueOutlivesSendTask, TornDown
<1>2. closeCbs' = IF closeCbSent' \/ startPc' = "failed" THEN 1 ELSE 0
  BY DEF Inductive, OneStopper
<1>3. CloseCalled' <=> closeCbSent' \/ startPc' = "failed"
  BY <1>2 DEF CloseCalled
<1> QED
  BY <1>1, <1>3

\* Each step of the connection is a step of its life, or none.
LEMMA StepLife ==
    ASSUME TypeOK, Inductive, Inductive', [Next]_vars
    PROVE  [Life!Next]_(Life!vars)
<1>1. /\ TornDown <=> sendQueue = "null"
      /\ CloseCalled <=> closeCbSent \/ startPc = "failed"
  BY LifeFlags
<1>2. /\ TornDown' <=> sendQueue' = "null"
      /\ CloseCalled' <=> closeCbSent' \/ startPc' = "failed"
  BY LifeFlagsAfter
<1>3. ASSUME LifeReader' = LifeReader, LifeOwner' = LifeOwner, running' = running,
             sendQueue' = "null" <=> sendQueue = "null",
             closeCbSent' \/ startPc' = "failed" <=> closeCbSent \/ startPc = "failed"
      PROVE  UNCHANGED Life!vars
  <2>1. TornDown' <=> TornDown
    BY <1>1, <1>2, <1>3
  <2>2. CloseCalled' <=> CloseCalled
    BY <1>1, <1>2, <1>3
  <2>3. TornDown' = TornDown
    BY <2>1
  <2>4. CloseCalled' = CloseCalled
    BY <2>2
  <2> QED
    BY <1>3, <2>3, <2>4, Zenon DEF Life!vars
<1>4. /\ DOMAIN pc = Tasks /\ Read \in Tasks /\ Send \in Tasks /\ Read # Send
      /\ \A t \in Callers : t \in Tasks /\ t # Read /\ t # Send
      /\ Stoppers \subseteq Callers /\ StopTasks = Stoppers \cup {Read}
  BY TasksAssumption DEF TypeOK, LabelsOK, Tasks, StopTasks
\* A step of a task that is not in stop(), and only sets its label.
<1>5. ASSUME NEW t \in Callers \cup {Send}, NEW label, Goto(t, label),
             t \in Stoppers =>
                 \/ pc[t] \notin StopPcs /\ label \notin StopPcs
                 \/ {pc[t], label} \subseteq StopPcs \ {"callback"},
             UNCHANGED <<running, startPc, handshake, closeCbSent>>,
             sendQueue' = "null" <=> sendQueue = "null"
      PROVE  UNCHANGED Life!vars
  <2>1. pc'[Read] = pc[Read] /\ \A s \in Tasks : pc'[s] = IF s = t THEN label ELSE pc[s]
    BY <1>4, <1>5 DEF Goto
  <2>2. LifeReader' = LifeReader
    BY <1>5, <2>1, ReaderStays
  <2>3. LifeOwner' = LifeOwner
    <3>1. \A s \in Stoppers :
              \/ pc'[s] = pc[s]
              \/ pc[s] \notin StopPcs /\ pc'[s] \notin StopPcs
              \/ {pc[s], pc'[s]} \subseteq StopPcs \ {"callback"}
      BY <1>4, <1>5, <2>1
    <3> QED
      BY <3>1, OwnerStays
  <2> QED
    BY <1>3, <1>5, <2>2, <2>3
\* A step of the read task moves nobody else.
<1>6. ASSUME NEW label, Goto(Read, label)
      PROVE  pc'[Read] = label /\ LifeOwner' = LifeOwner
  <2>1. pc'[Read] = label /\ \A s \in Stoppers : pc'[s] = pc[s]
    BY <1>4, <1>6 DEF Goto
  <2> QED
    BY <2>1, OwnerStays
<1>7. pc[Read] # "none" => startPc = "up"
  BY DEF Inductive, Starting
\* A step of the read task before the end of its loop.
<1>8. ASSUME NEW label, Goto(Read, label) \/ (label = pc[Read] /\ UNCHANGED pc),
             {pc[Read], label} \subseteq ReadPcs \ (StopPcs \cup {"none", "fin", "gone"}),
             UNCHANGED <<running, startPc, handshake, closeCbSent>>,
             sendQueue' = "null" <=> sendQueue = "null"
      PROVE  UNCHANGED Life!vars
  <2>1. pc'[Read] = label /\ LifeOwner' = LifeOwner
    <3>1. CASE Goto(Read, label)
      BY <1>6, <3>1
    <3>2. CASE label = pc[Read] /\ UNCHANGED pc
      BY <3>2, OwnerStays
    <3> QED
      BY <1>8, <3>1, <3>2
  <2>2. LifeReader' = LifeReader
    BY <1>7, <1>8, <2>1, ReaderReads
  <2> QED
    BY <1>3, <1>8, <2>1, <2>2
<1>9. CASE UNCHANGED vars
  <2>1. UNCHANGED <<pc, running, startPc, handshake, closeCbSent, sendQueue>>
    BY <1>9 DEF vars, connVars, queueVars, protoVars
  <2>2. LifeReader' = LifeReader /\ LifeOwner' = LifeOwner
    BY <2>1, ReaderStays, OwnerStays
  <2> QED
    BY <1>3, <2>1, <2>2
\* The application's tasks and the send task.
<1>10. ASSUME NEW t \in Callers, Enqueue(t) PROVE UNCHANGED Life!vars
  <2>1. /\ \/ Goto(t, "enqueue") /\ pc[t] = "idle"
           \/ Goto(t, "idle") /\ pc[t] = "enqueue"
           \/ UNCHANGED pc /\ pc[t] = "enqueue"
        /\ UNCHANGED <<running, startPc, handshake, closeCbSent, sendQueue>>
    BY <1>10 DEF Enqueue, EnqueueCheck, EnqueuePut, EnqueueOnDeleted, connVars, queueVars, protoVars
  <2>2. CASE UNCHANGED pc
    <3>1. LifeReader' = LifeReader /\ LifeOwner' = LifeOwner
      BY <2>1, <2>2, ReaderStays, OwnerStays
    <3> QED
      BY <1>3, <2>1, <3>1
  <2> QED
    BY <1>5, <2>1, <2>2 DEF StopPcs
<1>11. CASE SendProceeds \/ SendWriteReturns
  <2>1. /\ \E label \in SendPcs : Goto(Send, label)
        /\ UNCHANGED <<running, startPc, handshake, closeCbSent, sendQueue>>
    BY <1>11 DEF SendProceeds, SendCheck, SendReceive, SendBegin, SendTakesReady, SendTimesOut,
                 SendTaskEnds, SendWriteReturns, SendDrops, SendPcs, connVars, queueVars, protoVars
  <2> QED
    BY <1>4, <1>5, <2>1
\* start().
<1>12. CASE Start
  <2>1. LifeReader = "none" /\ LifeReader' = "starting"
    BY <1>12 DEF Start, LifeReader
  <2>3. LifeOwner' = LifeOwner
    BY <1>12, OwnerStays DEF Start
  <2>2. running' = TRUE /\ TornDown' = TornDown /\ CloseCalled' = CloseCalled
    <3>1. TornDown' <=> TornDown
      BY <1>1, <1>2, <1>12 DEF Start, Inductive, QueueHandle
    <3>2. CloseCalled' = CloseCalled
      BY <1>12 DEF Start, CloseCalled
    <3> QED
      BY <1>12, <3>1, <3>2 DEF Start
  <2> QED
    BY <2>1, <2>2, <2>3, Zenon DEF Life!Next, Life!Start
<1>13. CASE StartSendTask
  <2>1. LifeReader' = LifeReader /\ LifeOwner' = LifeOwner
    BY <1>4, <1>13, OwnerStays DEF StartSendTask, LifeReader, Goto
  <2> QED
    BY <1>3, <1>13, <2>1 DEF StartSendTask, queueVars
<1>14. CASE StartReadTask
  <2>1. LifeReader = "starting" /\ LifeReader' = "loop" /\ LifeOwner' = LifeOwner
    <3>1. pc'[Read] = "loop" /\ LifeOwner' = LifeOwner
      BY <1>6, <1>14 DEF StartReadTask
    <3>2. startPc = "read" /\ startPc' = "up" /\ handshake' = handshake /\ ~handshake
      BY <1>14 DEF StartReadTask, protoVars, Inductive, Starting
    <3> QED
      BY <3>1, <3>2 DEF LifeReader, StartedReader, StopPcs
  <2>2. running' = running /\ TornDown' = TornDown /\ CloseCalled' = CloseCalled
    <3>1. TornDown' <=> TornDown
      BY <1>1, <1>2, <1>14 DEF StartReadTask, queueVars
    <3> QED
      BY <1>14, <3>1 DEF StartReadTask, CloseCalled
  <2> QED
    BY <2>1, <2>2, Zenon DEF Life!Next, Life!StartReturns
<1>15. CASE StartReadTaskFails
  <2>1. LifeReader = "starting" /\ LifeReader' = "failed"
    BY <1>15 DEF StartReadTaskFails, LifeReader
  <2>3. LifeOwner' = LifeOwner
    BY <1>15, OwnerStays DEF StartReadTaskFails
  <2>2. running' = FALSE /\ TornDown' = TornDown /\ CloseCalled' = TRUE
    <3>1. TornDown' <=> TornDown
      BY <1>1, <1>2, <1>15 DEF StartReadTaskFails, queueVars
    <3>2. CloseCalled'
      BY <1>2, <1>15 DEF StartReadTaskFails
    <3> QED
      BY <1>15, <3>1, <3>2 DEF StartReadTaskFails
  <2> QED
    BY <2>1, <2>2, <2>3, Zenon DEF Life!Next, Life!StartFails
\* The read task.
<1>16. CASE ReadLoop \/ ReadNothing \/ ReadError \/ ReadData \/ LineReceived \/ BadFrameReceived
            \/ DataFrameReceived \/ ChunkDone \/ ReadWriteReturns \/ ReadExit \/ GuardReceived
  <2>1. \E label \in ReadPcs \ (StopPcs \cup {"none", "fin", "gone"}) :
            Goto(Read, label) \/ (label = pc[Read] /\ UNCHANGED pc)
    BY <1>16 DEF ReadLoop, ReadNothing, ReadError, ReadData, LineReceived, BadFrameReceived,
                 DataFrameReceived, ChunkDone, ReadWriteReturns, ReadExit, GuardReceived,
                 EnterFrames, EndOfLoop, ReadPcs, StopPcs
  <2>2. pc[Read] \in ReadPcs \ (StopPcs \cup {"none", "fin", "gone"})
    BY <1>16 DEF ReadLoop, ReadNothing, ReadError, ReadData, LineReceived, BadFrameReceived,
                 DataFrameReceived, ChunkDone, ReadWriteReturns, ReadExit, GuardReceived,
                 ReadPcs, StopPcs
  <2>3. /\ UNCHANGED <<running, startPc, closeCbSent>>
        /\ sendQueue' = "null" <=> sendQueue = "null"
    BY <1>16 DEF ReadLoop, ReadNothing, ReadError, ReadData, LineReceived, BadFrameReceived,
                 DataFrameReceived, ChunkDone, ReadWriteReturns, ReadExit, GuardReceived,
                 connVars, queueVars
  <2>4. handshake' = handshake
    <3>1. CASE GuardReceived
      BY <3>1 DEF GuardReceived, Inductive, Handshaking, TypeOK, FlagsOK
    <3>2. CASE ~GuardReceived
      BY <1>16, <3>2 DEF ReadLoop, ReadNothing, ReadError, ReadData, LineReceived, BadFrameReceived,
                 DataFrameReceived, ChunkDone, ReadWriteReturns, ReadExit, protoVars
    <3> QED
      BY <3>1, <3>2
  <2> QED
    BY <1>8, <2>1, <2>2, <2>3, <2>4
<1>17. CASE HandshakeReceived
  <2>1. /\ Goto(Read, "shake") /\ pc[Read] = "frames" /\ ~handshake /\ handshake'
        /\ UNCHANGED <<running, startPc, closeCbSent, sendQueue>>
    BY <1>17 DEF HandshakeReceived, connVars, queueVars
  <2>2. LifeReader = "loop" /\ LifeReader' = "open" /\ LifeOwner' = LifeOwner
    <3>1. pc'[Read] = "shake" /\ LifeOwner' = LifeOwner /\ startPc = "up"
      BY <1>6, <1>7, <2>1
    <3> QED
      BY <2>1, <3>1 DEF LifeReader, StartedReader, StopPcs
  <2>3. running' = running /\ TornDown' = TornDown /\ CloseCalled' = CloseCalled
    <3>1. TornDown' <=> TornDown
      BY <1>1, <1>2, <2>1
    <3>2. CloseCalled' <=> CloseCalled
      BY <1>1, <1>2, <2>1
    <3> QED
      BY <2>1, <3>1, <3>2
  <2> QED
    BY <2>2, <2>3, Zenon DEF Life!Next, Life!Ready
<1>18. CASE ReadTaskEnds
  <2>1. /\ Goto(Read, "gone") /\ pc[Read] = "fin"
        /\ UNCHANGED <<running, startPc, closeCbSent, sendQueue>>
    BY <1>18 DEF ReadTaskEnds, connVars, queueVars
  <2>2. LifeReader = "tail" /\ LifeReader' = "gone" /\ LifeOwner' = LifeOwner
    <3>1. pc'[Read] = "gone" /\ LifeOwner' = LifeOwner /\ startPc = "up"
      BY <1>6, <1>7, <2>1
    <3> QED
      BY <2>1, <3>1 DEF LifeReader, StartedReader, StopPcs
  <2>3. running' = running /\ TornDown' = TornDown /\ CloseCalled' = CloseCalled
    <3>1. TornDown' <=> TornDown
      BY <1>1, <1>2, <2>1
    <3>2. CloseCalled' <=> CloseCalled
      BY <1>1, <1>2, <2>1
    <3> QED
      BY <2>1, <3>1, <3>2
  <2> QED
    BY <2>2, <2>3, Zenon DEF Life!Next, Life!ReaderEnds, Life!ReaderGoes
<1>19. CASE LinkLost
  <2>1. UNCHANGED <<pc, running, startPc, handshake, closeCbSent, sendQueue>>
    BY <1>19 DEF LinkLost, queueVars, protoVars
  <2>2. LifeReader' = LifeReader /\ LifeOwner' = LifeOwner
    BY <2>1, ReaderStays, OwnerStays
  <2> QED
    BY <1>3, <2>1, <2>2
\* stop(), of the read task or of the application.
<1>20. ASSUME NEW t \in StopTasks, pc[t] \in StopPcs
       PROVE  /\ startPc = "up" /\ ~running /\ ~closeCbSent
              /\ \A s \in StopTasks : pc[s] \in StopPcs => s = t
              /\ sendQueue = "null" <=> pc[t] = "callback"
  <2>1. startPc = "up"
    BY <1>4, <1>20 DEF Inductive, Starting, StopPcs
  <2>2. ~running /\ ~closeCbSent /\ \A s \in StopTasks : pc[s] \in StopPcs => s = t
    BY <1>20 DEF Inductive, OneStopper, InStop
  <2>3. sendQueue = "null" <=> pc[t] = "callback"
    BY <1>20 DEF Inductive, QueueHandle, StopPcs
  <2> QED
    BY <2>1, <2>2, <2>3
\* A step in stop(): it moves the life of the reader, or that of the owner.
<1>21. ASSUME NEW t \in StopTasks, NEW label, Goto(t, label), NEW from, NEW to,
              startPc = "up", startPc' = "up", handshake' = handshake,
              \A s \in Stoppers : pc[s] \in StopPcs => s = t,
              t = Read => LifeReader = from /\ LifeReader' = to,
              t \in Stoppers =>
                  /\ from = IF pc[t] = "callback" THEN "announce" ELSE
                            IF pc[t] \in StopPcs THEN "tear" ELSE "idle"
                  /\ to = IF label = "callback" THEN "announce" ELSE
                          IF label \in StopPcs THEN "tear" ELSE "idle"
       PROVE  \/ t = Read /\ LifeReader = from /\ LifeReader' = to /\ LifeOwner' = LifeOwner
              \/ t \in Stoppers /\ LifeOwner = from /\ LifeOwner' = to /\ LifeReader' = LifeReader
  <2>1. CASE t = Read
    BY <1>6, <1>21, <2>1
  <2>2. CASE t \in Stoppers
    <3>1. pc'[Read] = pc[Read] /\ \A s \in Tasks : pc'[s] = IF s = t THEN label ELSE pc[s]
      BY <1>4, <1>21, <2>2 DEF Goto
    <3>2. LifeReader' = LifeReader
      BY <1>21, <3>1, ReaderStays
    <3>3. "callback" \in StopPcs
      BY DEF StopPcs
    <3>4. LifeOwner = from
      BY <1>21, <2>2, <3>3 DEF LifeOwner
    <3>5. \A s \in Stoppers : pc'[s] \in StopPcs => s = t
      BY <1>4, <1>21, <3>1
    <3>6. LifeOwner' = to
      BY <1>4, <1>21, <2>2, <3>1, <3>3, <3>5 DEF LifeOwner
    <3> QED
      BY <2>2, <3>2, <3>4, <3>6
  <2> QED
    BY <1>4, <2>1, <2>2
<1>22. ASSUME NEW t \in StopTasks, StopEnter(t) PROVE [Life!Next]_(Life!vars)
  <2>1. /\ Goto(t, IF WinsExchange THEN "proto" ELSE AfterStop(t)) /\ running' = FALSE
        /\ UNCHANGED <<startPc, handshake, closeCbSent, sendQueue>>
        /\ pc[t] \notin StopPcs /\ startPc = "up" /\ running \in BOOLEAN
    BY <1>7, <1>22 DEF StopEnter, queueVars, protoVars, StopPcs, TypeOK, FlagsOK
  <2>2. TornDown' = TornDown /\ CloseCalled' = CloseCalled
    <3>1. TornDown' <=> TornDown
      BY <1>1, <1>2, <2>1
    <3>2. CloseCalled' <=> CloseCalled
      BY <1>1, <1>2, <2>1
    <3>3. TornDown' = TornDown
      BY <3>1
    <3>4. CloseCalled' = CloseCalled
      BY <3>2
    <3> QED
      BY <3>3, <3>4
  <2>3. CASE t = Read
    <3>1. pc[Read] = "stop"
      BY <1>22, <2>3 DEF StopEnter
    <3>2. LifeReader \in {"loop", "open"}
      BY <2>1, <3>1 DEF LifeReader, StartedReader, StopPcs
    <3>3. /\ pc'[Read] = IF running THEN "proto" ELSE "fin"
          /\ LifeOwner' = LifeOwner
      BY <1>6, <2>1, <2>3 DEF WinsExchange, AfterStop
    <3>4. LifeReader' = IF running THEN "tear" ELSE "tail"
      BY <2>1, <3>3 DEF LifeReader, StartedReader, StopPcs
    <3> QED
      BY <2>1, <2>2, <3>2, <3>3, <3>4, Zenon DEF Life!Next, Life!ReaderStops
  <2>4. CASE t \in Stoppers /\ ~running
    <3>1. Goto(t, "idle")
      BY <1>4, <2>1, <2>4 DEF WinsExchange, AfterStop
    <3> QED
      BY <1>4, <1>5, <2>1, <2>4, <3>1 DEF StopPcs
  <2>5. CASE t \in Stoppers /\ running
    <3>1. Goto(t, "proto") /\ t # Read
      BY <1>4, <2>1, <2>5 DEF WinsExchange
    <3>2. \A s \in StopTasks : pc[s] \notin StopPcs
      BY <2>5 DEF Inductive, OneStopper, InStop
    <3>3. "proto" \in StopPcs /\ "proto" # "callback" /\ "callback" \in StopPcs
      BY DEF StopPcs
    <3>4. LifeOwner' = "tear" /\ LifeReader' = LifeReader
      BY <1>4, <1>21, <2>1, <2>5, <3>1, <3>2, <3>3
    <3>5. LifeReader \notin {"none", "starting", "failed"}
      BY <2>1 DEF LifeReader, StartedReader
    <3> QED
      BY <2>1, <2>2, <2>5, <3>4, <3>5, Zenon DEF Life!Next, Life!OwnerStops
  <2> QED
    BY <1>4, <2>3, <2>4, <2>5
\* Until the queue is deleted the teardown goes on.
<1>23. ASSUME NEW t \in StopTasks,
              StopProtocol(t) \/ StopDescriptor(t) \/ StopPoison(t) \/ StopDeleteQueue(t)
       PROVE  UNCHANGED Life!vars
  <2>1. /\ UNCHANGED <<running, startPc, handshake, closeCbSent>>
        /\ \E label \in StopPcs \ {"callback"} : Goto(t, label)
        /\ pc[t] \in StopPcs \ {"callback"}
    BY <1>23 DEF StopProtocol, StopDescriptor, StopPoison, StopDeleteQueue, connVars, protoVars, StopPcs
  <2>2. sendQueue' = "null" <=> sendQueue = "null"
    <3>1. sendQueue # "null"
      BY <1>20, <2>1
    <3> QED
      BY <1>23, <3>1 DEF StopProtocol, StopDescriptor, StopPoison, StopDeleteQueue, queueVars
  <2>3. CASE t \in Stoppers
    BY <1>4, <1>5, <2>1, <2>2, <2>3
  <2>4. CASE t = Read
    <3>1. PICK label \in StopPcs \ {"callback"} : Goto(Read, label)
      BY <2>1, <2>4
    <3>2. pc'[Read] = label /\ LifeOwner' = LifeOwner
      BY <1>6, <3>1
    <3>3. startPc = "up" /\ startPc' = "up"
      BY <1>20, <2>1
    <3>4. LifeReader = "tear" /\ LifeReader' = "tear"
      BY <2>1, <2>4, <3>2, <3>3 DEF LifeReader, StartedReader, StopPcs
    <3> QED
      BY <1>3, <2>1, <2>2, <3>2, <3>4
  <2> QED
    BY <1>4, <2>3, <2>4
<1>24. ASSUME NEW t \in StopTasks, StopUnlinkQueue(t) PROVE Life!TornDown
  <2>1. /\ Goto(t, "callback") /\ pc[t] = "unlink" /\ sendQueue' = "null"
        /\ UNCHANGED <<running, startPc, handshake, closeCbSent>>
    BY <1>24 DEF StopUnlinkQueue, connVars, protoVars
  <2>2. startPc = "up" /\ \A s \in StopTasks : pc[s] \in StopPcs => s = t
    BY <1>20, <2>1 DEF StopPcs
  <2>3. t = Read => LifeReader = "tear" /\ LifeReader' = "announce"
    <3>1. CASE t = Read
      <4>1. pc'[Read] = "callback"
        BY <1>6, <2>1, <3>1
      <4> QED
        BY <2>1, <2>2, <3>1, <4>1 DEF LifeReader, StartedReader, StopPcs
    <3> QED
      BY <3>1
  <2>4. "unlink" \in StopPcs /\ "callback" \in StopPcs /\ "unlink" # "callback"
    BY DEF StopPcs
  <2>5. \/ LifeReader = "tear" /\ LifeReader' = "announce" /\ LifeOwner' = LifeOwner
        \/ LifeOwner = "tear" /\ LifeOwner' = "announce" /\ LifeReader' = LifeReader
    BY <1>4, <1>21, <2>1, <2>2, <2>3, <2>4
  <2>6. TornDown' = TRUE /\ CloseCalled' = CloseCalled
    <3>1. TornDown'
      BY <1>1, <1>2, <2>1
    <3>2. CloseCalled' <=> CloseCalled
      BY <1>1, <1>2, <2>1
    <3>3. TornDown' = TRUE
      BY <3>1
    <3>4. CloseCalled' = CloseCalled
      BY <3>2
    <3> QED
      BY <3>3, <3>4
  <2> QED
    BY <2>1, <2>5, <2>6, Zenon DEF Life!TornDown, Life!ReaderGoes, Life!OwnerGoes
<1>25. ASSUME NEW t \in StopTasks, StopCallback(t) PROVE Life!Announced
  <2>1. /\ Goto(t, AfterStop(t)) /\ pc[t] = "callback" /\ closeCbSent' = TRUE
        /\ UNCHANGED <<running, startPc, handshake, sendQueue>>
    BY <1>25 DEF StopCallback, protoVars, queueVars
  <2>2. startPc = "up" /\ \A s \in StopTasks : pc[s] \in StopPcs => s = t
    BY <1>20, <2>1 DEF StopPcs
  <2>3. t = Read => LifeReader = "announce" /\ LifeReader' = "tail"
    <3>1. CASE t = Read
      <4>1. pc'[Read] = "fin"
        BY <1>6, <2>1, <3>1 DEF AfterStop
      <4> QED
        BY <2>1, <2>2, <3>1, <4>1 DEF LifeReader, StartedReader, StopPcs
    <3> QED
      BY <3>1
  <2>4. \/ LifeReader = "announce" /\ LifeReader' = "tail" /\ LifeOwner' = LifeOwner
        \/ LifeOwner = "announce" /\ LifeOwner' = "idle" /\ LifeReader' = LifeReader
    <3>1. CASE t = Read
      BY <1>6, <2>1, <2>3, <3>1
    <3>2. CASE t \in Stoppers
      <4>1. Goto(t, "idle") /\ "idle" \notin StopPcs /\ "idle" # "callback" /\ t # Read
        BY <1>4, <2>1, <3>2 DEF AfterStop, StopPcs
      <4> QED
        BY <1>4, <1>21, <2>1, <2>2, <3>2, <4>1
    <3> QED
      BY <1>4, <3>1, <3>2
  <2>5. TornDown' = TornDown /\ CloseCalled' = TRUE
    <3>1. TornDown' <=> TornDown
      BY <1>1, <1>2, <2>1
    <3>2. CloseCalled'
      BY <1>1, <1>2, <2>1
    <3>3. TornDown' = TornDown
      BY <3>1
    <3>4. CloseCalled' = TRUE
      BY <3>2
    <3> QED
      BY <3>3, <3>4
  <2> QED
    BY <2>1, <2>4, <2>5, Zenon DEF Life!Announced, Life!ReaderGoes, Life!OwnerGoes
<1> QED
  BY <1>9, <1>10, <1>11, <1>12, <1>13, <1>14, <1>15, <1>16, <1>17, <1>18, <1>19,
     <1>22, <1>23, <1>24, <1>25
  DEF Next, StopBody, ReadProceeds, Life!Next

\* Whatever the tasks of the application, the radio and the peer do, a connection
\* starts, ends and says so as its owner expects.
THEOREM HasLifeHolds == Spec => HasLife
<1>1. Init => Life!Init
  <2> SUFFICES ASSUME Init PROVE Life!Init
    OBVIOUS
  <2>1. LifeReader = "none" /\ running = FALSE
    BY DEF Init, LifeReader
  <2>2. LifeOwner = "idle"
    BY TasksAssumption DEF Init, LifeOwner, StopPcs, Tasks
  <2>3. ~TornDown /\ ~CloseCalled
    BY DEF Init, TornDown, CloseCalled
  <2> QED
    BY <2>1, <2>2, <2>3 DEF Life!Init
<1>2. TypeOK /\ Inductive /\ Inductive' /\ [Next]_vars => [Life!Next]_(Life!vars)
  BY StepLife
<1> QED
  BY <1>1, <1>2, TypeCorrect, InductiveHolds, PTL DEF Spec, HasLife, Life!Spec

\* Before the end nothing has happened, and who is in stop() comes to announce it.
LifeInv ==
    /\ Life!OneEnd
    /\ LifeOwner \in {"idle", "tear", "announce"}
    /\ LifeReader = "none" => ~running
    /\ LifeReader \in {"none", "starting"} => LifeOwner = "idle" /\ ~CloseCalled
    /\ LifeReader = "starting" => running
    /\ LifeReader = "failed" => CloseCalled
    /\ "announce" \in {LifeReader, LifeOwner} => TornDown
    /\ LifeReader \in {"loop", "open"} /\ ~running => CloseCalled \/ LifeOwner \in {"tear", "announce"}

\* What ConnectionLife promises holds of every life, so of that of a connection: one
\* end, torn down before it is announced.
THEOREM OneEndHolds == Life!Spec => []Life!OneEnd
<1>1. Life!Init => LifeInv
  BY DEF Life!Init, LifeInv, Life!OneEnd, Life!InStop
<1>2. LifeInv /\ [Life!Next]_(Life!vars) => LifeInv'
  <2> SUFFICES ASSUME LifeInv, [Life!Next]_(Life!vars) PROVE LifeInv'
    OBVIOUS
  <2> USE DEF LifeInv, Life!OneEnd, Life!InStop, Life!ReaderGoes, Life!OwnerGoes
  <2>1. CASE Life!Start
    BY <2>1 DEF Life!Start
  <2>2. CASE Life!StartReturns
    BY <2>2 DEF Life!StartReturns
  <2>3. CASE Life!StartFails
    BY <2>3 DEF Life!StartFails
  <2>4. CASE Life!Ready
    BY <2>4 DEF Life!Ready
  <2>5. CASE Life!ReaderStops
    BY <2>5 DEF Life!ReaderStops
  <2>6. CASE Life!OwnerStops
    BY <2>6 DEF Life!OwnerStops
  <2>7. CASE Life!TornDown
    BY <2>7 DEF Life!TornDown
  <2>8. CASE Life!Announced
    BY <2>8 DEF Life!Announced
  <2>9. CASE Life!ReaderEnds
    BY <2>9 DEF Life!ReaderEnds
  <2>10. CASE UNCHANGED Life!vars
    BY <2>10 DEF Life!vars
  <2> QED
    BY <2>1, <2>2, <2>3, <2>4, <2>5, <2>6, <2>7, <2>8, <2>9, <2>10 DEF Life!Next
<1>3. LifeInv => Life!OneEnd
  BY DEF LifeInv
<1> QED
  BY <1>1, <1>2, <1>3, PTL DEF Life!Spec

\* A connection ends once: torn down by one task at a time, and before it is announced.
THEOREM EndsOnceHolds == Spec => []Life!OneEnd
BY HasLifeHolds, OneEndHolds, PTL DEF HasLife
=============================================================================
