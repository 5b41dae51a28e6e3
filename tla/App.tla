---------------------------------- MODULE App ----------------------------------
(***************************************************************************)
(* The application (main/main.cpp, main/send_delayed.cpp): g_conn over     *)
(* several connections, the queue of commands, the delayed restarts, and   *)
(* the four tasks that meet there: appTask, the Bluetooth task that runs   *)
(* setupConnection(), the read task of each connection, whose callbacks    *)
(* post the commands, and the serial console.                              *)
(*                                                                         *)
(* A connection is what FdConnection shows of it: stop() lets one caller   *)
(* in, tears down, and then calls the close callback.  C++ gives g_conn no *)
(* protection at all, so a step is one access to it.  What the language    *)
(* leaves undefined (a null or a deleted object is used) ends a behaviour  *)
(* with a fault; a task left on a deleted object may also get away with it.*)
(***************************************************************************)
EXTENDS Naturals, Sequences, FiniteSets

CONSTANTS
    QueueLen,    \* capacity of appQueue, 16 in the code
    Memory,      \* TRUE: a task or a timer can always be created
    MaxConns,    \* bound: connections
    MaxData      \* bound: MaxData[patient] messages of clients

ASSUME BoundsAssumption ==
    /\ QueueLen \in Nat \ {0}
    /\ Memory \in BOOLEAN
    /\ MaxConns \in Nat
    /\ MaxData \in [BOOLEAN -> Nat]

VARIABLES
    patient,    \* clients connect only when nothing of the last link is left
    queue,      \* appQueue
    timers,     \* the delayed commands; equal delays, so they fire in order
    lost,       \* Cleanups and restarts that came to nothing: no room in
                \* appQueue, no timer, or refused by Bluetooth
    gconn,      \* g_conn, 0 for nullptr
    obj,        \* obj[c]: "none", "live" or "deleted"
    running,    \* running[c]: _running
    torn,       \* torn[c]: stop() has closed the descriptor, seen the send task
                \* leave and deleted its queue
    reader,     \* reader[c]: where the read task is
    sync,       \* parameterSync's connection_
    sensor,     \* the connection for whose send queue a sensor task waits with
                \* mu_ held, or 0
    stored,     \* stored[s]: version of the setting in the store
    inUse,      \* inUse[c]: version of the passphrase c was made with
    served,     \* version of the name the server was started with
    appPc,      \* where appTask is
    appThis,    \* the connection whose stop() or enqueueSend() it is in, or 0
    appThen,    \* where it goes after that call
    btPc,       \* where the Bluetooth task is
    consolePc,  \* where the serial console is
    data,       \* number of messages received
    fault       \* "none", or how the chip came to a fault

queueVars == <<queue, timers, lost, data>>
connVars == <<obj, running, torn, reader>>
setVars == <<stored, inUse, served>>
appVars == <<appPc, appThis, appThen>>
taskVars == <<btPc, consolePc>>
vars == <<patient, queueVars, gconn, connVars, sync, sensor, setVars, appVars, taskVars, fault>>

Conns == 1 .. MaxConns
Settings == {"pass", "name"}
Restart == [pass |-> "restart connection", name |-> "restart server"]
Awaited == {"cleanup", Restart["pass"], Restart["name"]}
Delaying == [pass |-> "delay pass", name |-> "delay name"]
Setting == [pass |-> "set pass", name |-> "set name", other |-> "set other"]

\* Read task: "starting" until it exists, "open" after the handshake, "tail"
\* from its close callback to the end of the trampoline.
InStop == {"tear", "announce"}
InSend == {"notice", "snapshot", "tell"}
ReadPcs == {"none", "starting", "failed", "loop", "hand", "open", "tail", "gone"} \cup InStop
AppPcs == {"idle", "delay pass", "delay name", "set pass", "set name", "set other",
           "delete", "null", "server"} \cup InStop \cup InSend
BtPcs == {"idle", "delete", "null", "new", "start", "create", "drop", "forget"}

Init ==
    /\ patient \in BOOLEAN
    /\ queue = <<>> /\ timers = <<>> /\ lost = {} /\ data = 0
    /\ gconn = 0 /\ sync = 0 /\ sensor = 0
    /\ obj = [c \in Conns |-> "none"]
    /\ running = [c \in Conns |-> FALSE]
    /\ torn = [c \in Conns |-> FALSE]
    /\ reader = [c \in Conns |-> "none"]
    /\ stored = [s \in Settings |-> 0]
    /\ inUse = [c \in Conns |-> 0]
    /\ served = 0
    /\ appPc = "idle" /\ appThis = 0 /\ appThen = "idle"
    /\ btPc = "idle" /\ consolePc = "idle"
    /\ fault = "none"

\* xQueueSend(appQueue, &cmd, 0)
RoomForOneMore == Len(queue) <= QueueLen
HasRoom == Len(queue) < QueueLen
Post(cmd) ==
    IF HasRoom
    THEN queue' = Append(queue, cmd) /\ UNCHANGED lost
    ELSE lost' = lost \cup ({cmd} \cap Awaited) /\ UNCHANGED queue

\* The close callback: removeConnection(), and a command.
SyncKept == sync
SyncRemoved == 0
CloseCallback(c) == sync' = SyncRemoved /\ Post("cleanup")

\* delete g_conn: nothing happens to nullptr, a second time is a fault.
Delete ==
    /\ obj' = IF gconn = 0 THEN obj ELSE [obj EXCEPT ![gconn] = "deleted"]
    /\ fault' = IF gconn # 0 /\ obj[gconn] = "deleted" THEN "deleted twice" ELSE fault

\* g_conn->...
Alive == gconn # 0 /\ obj[gconn] = "live"
Up(c) == c # 0 /\ obj[c] = "live" /\ running[c]
NoObject == IF gconn = 0 THEN "no connection" ELSE "a deleted connection"

-----------------------------------------------------------------------------
(* setupConnection(), run by the Bluetooth task for each new descriptor.   *)

Busy(c) == reader[c] \notin {"none", "failed", "gone"}
Settled ==
    /\ \A c \in Conns : ~Busy(c)
    /\ queue = <<>> /\ timers = <<>> /\ appPc = "idle"

BtStep(from, to) ==
    /\ btPc = from
    /\ btPc' = to
    /\ UNCHANGED <<timers, data, torn, stored, served, sensor, appVars, consolePc>>

NeverDeletes == "new"
DeletesOld == IF gconn # 0 THEN "delete" ELSE "new"

LinkOpens ==
    /\ BtStep("idle", DeletesOld)
    /\ \E c \in Conns : obj[c] = "none"
    /\ patient => Settled
    /\ UNCHANGED <<queue, lost, gconn, obj, running, reader, sync, inUse, fault>>

BtDeletes ==
    /\ BtStep("delete", "null") \/ BtStep("drop", "forget")
    /\ Delete
    /\ UNCHANGED <<queue, lost, gconn, running, reader, sync, inUse>>

BtNulls ==
    /\ BtStep("null", "new") \/ BtStep("forget", "idle")
    /\ gconn' = 0
    /\ UNCHANGED <<queue, lost, obj, running, reader, sync, inUse, fault>>

BtCreates ==
    /\ BtStep("new", "start")
    /\ \E c \in Conns :
        /\ \A d \in Conns : (obj[d] = "none") <=> (d >= c)
        /\ obj' = [obj EXCEPT ![c] = "live"]
        /\ gconn' = c
        /\ inUse' = [inUse EXCEPT ![c] = stored["pass"]]
    /\ UNCHANGED <<queue, lost, running, reader, sync, fault>>

\* g_conn->start(): _running is set first, the tasks come after the protocol
\* and its keys.
BtStarts ==
    /\ Alive
    /\ BtStep("start", "create")
    /\ running' = [running EXCEPT ![gconn] = TRUE]
    /\ reader' = [reader EXCEPT ![gconn] = "starting"]
    /\ UNCHANGED <<queue, lost, gconn, obj, sync, inUse, fault>>

BtStartsNothing ==
    /\ ~Alive
    /\ BtStep("start", "start")
    /\ fault' = NoObject
    /\ UNCHANGED <<queue, lost, gconn, obj, running, reader, sync, inUse>>

BtStarted ==
    /\ BtStep("create", "idle")
    /\ \E c \in Conns : reader[c] = "starting" /\ reader' = [reader EXCEPT ![c] = "loop"]
    /\ UNCHANGED <<queue, lost, gconn, obj, running, sync, inUse, fault>>

\* No memory for the read task; the send task is there already.
BtStartFails ==
    /\ ~Memory
    /\ BtStep("create", "drop")
    /\ \E c \in Conns :
        /\ reader[c] = "starting"
        /\ reader' = [reader EXCEPT ![c] = "failed"]
        /\ running' = [running EXCEPT ![c] = FALSE]
        /\ CloseCallback(c)
    /\ UNCHANGED <<gconn, obj, inUse, fault>>

SetupConnection ==
    \/ BtDeletes \/ BtNulls \/ BtCreates \/ BtStarts \/ BtStartsNothing
    \/ BtStarted \/ BtStartFails

-----------------------------------------------------------------------------
(* The read task of connection c and the callbacks it runs.                *)

ReadStep(c, from, to) ==
    /\ reader[c] = from
    /\ reader' = [reader EXCEPT ![c] = to]
    /\ UNCHANGED <<timers, gconn, obj, setVars, sensor, appVars, taskVars, fault>>

ReadHandshake(c) ==
    /\ ReadStep(c, "loop", "hand")
    /\ UNCHANGED <<queue, lost, data, running, torn, sync>>

\* The ready callback takes g_conn, whichever connection that is now.
ReadReady(c) ==
    /\ ReadStep(c, "hand", "open")
    /\ sync' = gconn
    /\ Post("send all")
    /\ UNCHANGED <<data, running, torn>>

\* A message that sets a setting, or one that the application need not act on.
ReadData(c) ==
    /\ ReadStep(c, "open", "open")
    /\ data < MaxData[patient]
    /\ data' = data + 1
    /\ \E cmd \in Settings \cup {"other"} : Post(cmd)
    /\ UNCHANGED <<running, torn, sync>>

\* The loop ends (the link is lost, or stop() has been called), then stop().
SkipsTeardown(c) == "announce"
ToTeardown(c) == IF running[c] THEN "tear" ELSE "tail"

ReadLeaves(c) ==
    /\ ReadStep(c, "loop", ToTeardown(c)) \/ ReadStep(c, "open", ToTeardown(c))
    /\ running' = [running EXCEPT ![c] = FALSE]
    /\ UNCHANGED <<queue, lost, data, torn, sync>>

ReadTears(c) ==
    /\ ReadStep(c, "tear", "announce")
    /\ torn' = [torn EXCEPT ![c] = TRUE]
    /\ UNCHANGED <<queue, lost, data, running, sync>>

ReadAnnounces(c) ==
    /\ ReadStep(c, "announce", "tail")
    /\ CloseCallback(c)
    /\ UNCHANGED <<data, running, torn>>

\* self->_task = nullptr
ReadEnds(c) ==
    /\ ReadStep(c, "tail", "gone")
    /\ UNCHANGED <<queue, lost, data, running, torn, sync>>

\* What the read task does without the client.
ReadProceeds(c) ==
    \/ ReadReady(c) \/ (~running[c] /\ ReadLeaves(c))
    \/ ReadTears(c) \/ ReadAnnounces(c) \/ ReadEnds(c)

-----------------------------------------------------------------------------
(* appTask.                                                                *)

AppFrame == UNCHANGED <<data, reader, inUse, taskVars>>

Take(cmds) ==
    /\ appPc = "idle"
    /\ queue # <<>>
    /\ Head(queue) \in cmds
    /\ queue' = Tail(queue)
    /\ UNCHANGED sensor
    /\ AppFrame

AppStep(from) ==
    /\ appPc = from
    /\ AppFrame
    /\ UNCHANGED running

Goto(to) == appPc' = to /\ UNCHANGED <<appThis, appThen>>
Enter(at, c, next) == appPc' = at /\ appThis' = c /\ appThen' = next
Leave == appPc' = appThen /\ appThis' = 0 /\ appThen' = "idle"

\* enqueueSend() of messages for c: it goes on at once, or waits for room in the
\* send queue of a connection that runs, without a time-out.
Sends(c, at, next) == Goto(next) \/ (Up(c) /\ Enter(at, c, next))

\* g_conn->stop(), up to its exchange of _running; in a connection that is
\* still starting there is no protocol to close.
StopForgotten == running
Stopped == [running EXCEPT ![gconn] = FALSE]
Stops(next) ==
    /\ Alive
    /\ running' = Stopped
    /\ IF running[gconn] THEN Enter("tear", gconn, next) ELSE Goto(next)
    /\ fault' = IF running[gconn] /\ reader[gconn] = "starting"
                THEN "stopped while starting" ELSE fault
StopsNothing == ~Alive /\ fault' = NoObject /\ UNCHANGED <<running, appVars>>

Keeps == "idle"
AfterCleanup == "delete"

DoCleanup ==
    /\ Take({"cleanup"})
    /\ \/ gconn = 0 /\ UNCHANGED <<running, appVars, fault>>
       \/ Stops(AfterCleanup)
       \/ gconn # 0 /\ StopsNothing
    /\ UNCHANGED <<timers, lost, gconn, obj, torn, sync, stored, served>>

DoRestart ==
    /\ \/ Take({"restart connection"}) /\ (Stops("idle") \/ StopsNothing)
       \/ Take({"restart server"}) /\ (Stops("server") \/ StopsNothing)
    /\ UNCHANGED <<timers, lost, gconn, obj, torn, sync, stored, served>>

\* The snapshot goes to parameterSync's connection, if there is one.
DoSendAll ==
    /\ Take({"send all"})
    /\ Sends(sync, "snapshot", "idle")
    /\ UNCHANGED <<timers, lost, gconn, obj, running, torn, sync, stored, served, fault>>

\* A message that is no request to set a parameter, or one for any other.
DoOther ==
    /\ Take({"other"})
    /\ Goto("idle") \/ Goto(Setting["other"])
    /\ UNCHANGED <<timers, lost, gconn, obj, running, torn, sync, stored, served, fault>>

\* The callback of handleSetParameter(): a message to g_conn, if there is one ...
DoAnnounce(s) ==
    /\ Take({s})
    /\ \/ (gconn = 0 \/ Alive) /\ Sends(gconn, "notice", Delaying[s]) /\ UNCHANGED fault
       \/ gconn # 0 /\ ~Alive /\ fault' = NoObject /\ UNCHANGED appVars
    /\ UNCHANGED <<timers, lost, gconn, obj, running, torn, sync, stored, served>>

\* ... and sendDelayed(): the command is lost if there is no timer for it.
SendDelayed(cmd) ==
    \/ timers' = Append(timers, cmd) /\ UNCHANGED lost
    \/ ~Memory /\ lost' = lost \cup {cmd} /\ UNCHANGED timers

DoDelay(s) ==
    /\ AppStep(Delaying[s])
    /\ SendDelayed(Restart[s])
    /\ Goto(Setting[s])
    /\ UNCHANGED <<queue, gconn, obj, torn, sync, sensor, stored, served, fault>>

\* setString(), under mu_: parameterSync's connection is told.
DoSet(s) ==
    /\ AppStep(Setting[s])
    /\ sensor = 0
    /\ stored' = [x \in Settings |-> IF x = s THEN stored[x] + 1 ELSE stored[x]]
    /\ Sends(sync, "tell", "idle")
    /\ UNCHANGED <<queue, timers, lost, gconn, obj, torn, sync, sensor, served, fault>>

\* There was room.  The snapshot's next message may have to wait again.
AppSent ==
    /\ \E at \in InSend : AppStep(at)
    /\ Leave \/ (appPc = "snapshot" /\ Up(sync) /\ Enter("snapshot", sync, "idle"))
    /\ UNCHANGED <<queue, timers, lost, gconn, obj, torn, sync, sensor, stored, served, fault>>

AppTears ==
    /\ AppStep("tear")
    /\ appPc' = "announce" /\ UNCHANGED <<appThis, appThen>>
    /\ torn' = [torn EXCEPT ![appThis] = TRUE]
    /\ UNCHANGED <<queue, timers, lost, gconn, obj, sync, sensor, stored, served, fault>>

AppAnnounces ==
    /\ AppStep("announce")
    /\ Leave
    /\ CloseCallback(appThis)
    /\ UNCHANGED <<timers, gconn, obj, torn, sensor, stored, served, fault>>

AppDeletes ==
    /\ AppStep("delete")
    /\ Goto("null")
    /\ Delete
    /\ UNCHANGED <<queue, timers, lost, gconn, torn, sync, sensor, stored, served>>

AppNulls ==
    /\ AppStep("null")
    /\ Goto("idle")
    /\ gconn' = 0
    /\ UNCHANGED <<queue, timers, lost, obj, torn, sync, sensor, stored, served, fault>>

\* bt.stop(); start_bt(); whose results nobody looks at.  It may fail, or be
\* refused while the last start is under way (BtSppServer).
OldName == served
NewName == stored["name"]

AppRestartsServer ==
    /\ AppStep("server")
    /\ Goto("idle")
    /\ \/ served' = NewName /\ UNCHANGED lost
       \/ lost' = lost \cup {Restart["name"]} /\ UNCHANGED served
    /\ UNCHANGED <<queue, timers, gconn, obj, torn, sync, sensor, stored, fault>>

\* What appTask does by itself; a wait for room in a send queue is not in its hands.
AppTask ==
    \/ DoCleanup \/ DoRestart \/ DoSendAll \/ DoOther
    \/ \E s \in Settings : DoAnnounce(s) \/ DoDelay(s)
    \/ \E s \in DOMAIN Setting : DoSet(s)
    \/ AppTears \/ AppAnnounces \/ AppDeletes \/ AppNulls \/ AppRestartsServer

-----------------------------------------------------------------------------
(* A sensor task that sets its parameter (the joystick, the uptime): it    *)
(* holds mu_ while it tells the client.                                    *)

SensorFrame == UNCHANGED <<queueVars, gconn, connVars, sync, setVars, appVars, taskVars, fault>>

SensorWaits ==
    /\ sensor = 0 /\ appPc # "tell"
    /\ Up(sync)
    /\ sensor' = sync
    /\ SensorFrame

SensorSent ==
    /\ sensor # 0
    /\ sensor' = 0
    /\ SensorFrame

-----------------------------------------------------------------------------
\* DelayedSendCallback()
TimerFires ==
    /\ timers # <<>>
    /\ timers' = Tail(timers)
    /\ Post(Head(timers))
    /\ UNCHANGED <<data, gconn, connVars, sync, sensor, setVars, appVars, taskVars, fault>>

\* The serial console: if (g_conn != nullptr) g_conn->sendLine(line).
Console ==
    /\ \/ consolePc = "idle" /\ gconn # 0 /\ consolePc' = "send" /\ UNCHANGED fault
       \/ consolePc = "send" /\ Alive /\ consolePc' = "idle" /\ UNCHANGED fault
       \/ consolePc = "send" /\ ~Alive /\ fault' = "console" /\ UNCHANGED consolePc
    /\ UNCHANGED <<queueVars, gconn, connVars, sync, sensor, setVars, appVars, btPc>>

\* A deleted object is touched: a connection, by its own read or send task, by a
\* task that tells parameterSync's client or by appTask in stop(); or a send queue,
\* by a task that waits for room in it.
StrayTouch ==
    /\ \E c \in Conns :
        \/ obj[c] = "deleted" /\ (Busy(c) \/ (reader[c] # "none" /\ ~torn[c]))
        \/ obj[c] = "deleted" /\ (sync = c \/ (appPc \in InStop /\ appThis = c))
        \/ torn[c] /\ (sensor = c \/ (appPc \in InSend /\ appThis = c))
    /\ fault' = "a deleted object"
    /\ UNCHANGED <<queueVars, gconn, connVars, sync, sensor, setVars, appVars, taskVars>>

Works == fault = "none" /\ UNCHANGED patient

Next ==
    /\ Works
    /\ \/ LinkOpens \/ SetupConnection
       \/ \E c \in Conns : ReadHandshake(c) \/ ReadData(c) \/ ReadLeaves(c) \/ ReadProceeds(c)
       \/ AppTask \/ AppSent
       \/ SensorWaits \/ SensorSent
       \/ TimerFires
       \/ Console
       \/ StrayTouch

Spec == Init /\ [][Next]_vars

\* FreeRTOS runs every ready task again, and one that waits for mu_ gets it if it is
\* free again and again.  Nothing is assumed of the clients, of the console, of a
\* task on a deleted object, or of one that waits for room in a send queue.
Fairness ==
    /\ WF_vars(Works /\ SetupConnection)
    /\ WF_vars(Works /\ AppTask)
    /\ SF_vars(Works /\ \E s \in DOMAIN Setting : DoSet(s))
    /\ WF_vars(Works /\ TimerFires)
    /\ \A c \in Conns : WF_vars(Works /\ ReadProceeds(c))

FairSpec == Spec /\ Fairness
-----------------------------------------------------------------------------
(* Properties.  A client that connects while the last connection is still  *)
(* being taken down breaks those that speak of patient clients: nothing in *)
(* the code makes it wait.                                                 *)

Commands == {"cleanup", "send all", "other", "pass", "name",
             "restart connection", "restart server"}

\* The state is well formed, and appQueue has no more commands than it has room for.
TypeOK ==
    /\ patient \in BOOLEAN
    /\ queue \in Seq(Commands) /\ Len(queue) <= QueueLen
    /\ timers \in Seq(Commands)
    /\ gconn \in {0} \cup Conns /\ sync \in {0} \cup Conns /\ sensor \in {0} \cup Conns
    /\ obj \in [Conns -> {"none", "live", "deleted"}]
    /\ running \in [Conns -> BOOLEAN]
    /\ torn \in [Conns -> BOOLEAN]
    /\ reader \in [Conns -> ReadPcs]
    /\ stored \in [Settings -> Nat]
    /\ inUse \in [Conns -> Nat]
    /\ appPc \in AppPcs /\ appThen \in AppPcs /\ appThis \in {0} \cup Conns
    /\ btPc \in BtPcs /\ consolePc \in {"idle", "send"}

\* The send task works on the connection's queue and protocol: whoever deletes a
\* connection, with its Cleanup handled or lost, the send task has left it, unless
\* start() failed half-way.  Only the read task can be left behind.
SendTaskGone == \A c \in Conns : patient /\ obj[c] = "deleted" => torn[c] \/ reader[c] = "failed"

\* The tasks that set parameters never send to a deleted connection: the close
\* callback comes before every deletion and after the ready callback.
SyncIsLive == patient /\ sync # 0 => obj[sync] = "live"

\* g_conn is the only owner: no connection is forgotten while it is alive, not
\* even one whose Cleanup found the queue full.
NoneForgotten == \A c \in Conns : patient /\ obj[c] = "live" => c = gconn

\* A connection that goes on with an old passphrase ("the connection will be
\* closed", the client was told) has its restart on the way, in a timer or in the
\* queue, unless the restart was lost.
Outdated(c) == running[c] /\ inUse[c] # stored["pass"]
OnItsWay(cmd) ==
    \/ \E i \in DOMAIN timers : timers[i] = cmd
    \/ \E i \in DOMAIN queue : queue[i] = cmd
OldPassphraseIsDoomed ==
    \A c \in Conns : patient /\ Outdated(c) => OnItsWay(Restart["pass"]) \/ Restart["pass"] \in lost

\* A send that waits for room in the queue of a connection that has ended: nobody
\* takes anything from that queue again, and its deletion wakes nobody.
CutOff ==
    \/ appPc \in InSend /\ ~Up(appThis)
    \/ sensor # 0 /\ ~Up(sensor)

\* A connection that has been torn down is deleted in the end, by its Cleanup or,
\* if that was lost, not before the next client comes.  The exception: appTask, or
\* a sensor task that holds mu_, is left for ever in a send that was cut off.
ClosedIsDeleted ==
    []<>(~CutOff) =>
        \A c \in Conns : patient /\ torn[c] ~> obj[c] = "deleted" \/ "cleanup" \in lost \/ fault # "none"

\* A client that reads what it is sent makes room in the send queue.
ClientsRead ==
    /\ WF_vars(Works /\ Up(appThis) /\ AppSent)
    /\ WF_vars(Works /\ Up(sensor) /\ SensorSent)

\* The server comes to bear the name that was set, if the clients read, no send is
\* left cut off, and the restart is neither lost nor refused.
NameIsServed ==
    ClientsRead /\ []<>(~CutOff) =>
        (stored["name"] # served ~>
            stored["name"] = served \/ Restart["name"] \in lost \/ fault # "none")

\* What a connection here has in common with FdConnection: both have a ConnectionLife
\* (AppProofs, FdConnectionProofs).
LifeReader(c) == IF reader[c] = "hand" THEN "loop" ELSE reader[c]
LifeOwner(c) == IF appThis = c /\ appPc \in InStop THEN appPc ELSE "idle"
CloseCalled(c) ==
    reader[c] = "failed" \/ (torn[c] /\ "announce" \notin {reader[c], LifeOwner(c)})
Life(c) == INSTANCE ConnectionLife WITH
    running <- running[c], reader <- LifeReader(c), owner <- LifeOwner(c),
    torn <- torn[c], announced <- CloseCalled(c)

\* What the client is told (main.cpp:148): the server restarts, reconnect.  A client
\* that leaves at once leaves appTask without a connection to stop.
LeavingIsSafe == patient => fault # "no connection"
=============================================================================
