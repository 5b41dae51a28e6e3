------------------------------- MODULE AppProofs -------------------------------
(***************************************************************************)
(* Theorems about App, for any number of connections and messages, any     *)
(* queue length, and memory running out or not: the types, and for clients *)
(* that come when nothing of the last link is left, who may delete a       *)
(* connection and when.  The invariant says that only the connection of    *)
(* g_conn runs, that one task at most is in its stop(), and that a Cleanup *)
(* is posted only when that has come to its end.  With it the connections  *)
(* are shown to be what FdConnection is, a ConnectionLife each.            *)
(***************************************************************************)
EXTENDS App, TLAPS

-----------------------------------------------------------------------------
(* CommandsIn.                                                                  *)

Queues ==
    /\ queue \in Seq(Commands) /\ Len(queue) <= QueueLen
    /\ timers \in Seq(Commands)

Shape ==
    /\ patient \in BOOLEAN
    /\ gconn \in {0} \cup Conns /\ sync \in {0} \cup Conns /\ sensor \in {0} \cup Conns
    /\ obj \in [Conns -> {"none", "live", "deleted"}]
    /\ running \in [Conns -> BOOLEAN]
    /\ torn \in [Conns -> BOOLEAN]
    /\ reader \in [Conns -> ReadPcs]
    /\ stored \in [Settings -> Nat]
    /\ inUse \in [Conns -> Nat]
    /\ appPc \in AppPcs /\ appThen \in AppPcs /\ appThis \in {0} \cup Conns
    /\ btPc \in BtPcs /\ consolePc \in {"idle", "send"}

-----------------------------------------------------------------------------
(* The invariant.                                                          *)

\* The commands in a sequence.
CommandsIn(s) == {s[n] : n \in DOMAIN s}

\* A connection that g_conn has left, or that has not come yet.
Over(c) ==
    /\ obj[c] # "live" /\ ~running[c]
    /\ reader[c] \in {"none", "failed", "open", "tail", "gone"}
    /\ obj[c] = "none" => reader[c] = "none" /\ ~torn[c]
    /\ obj[c] = "deleted" => torn[c] \/ reader[c] = "failed"

\* Its stop() has run to the end, or its start() failed.
Ended(c) ==
    /\ ~running[c]
    /\ reader[c] \in {"failed", "open", "tail", "gone"}
    /\ torn[c] \/ reader[c] = "failed"

\* Nothing is under way but for what g_conn's own tasks do.
Silent ==
    /\ queue = <<>> /\ timers = <<>> /\ appPc = "idle"
    /\ \A c \in Conns \ {gconn} : ~Busy(c)

\* The connections: only g_conn's runs, and who takes it down is the only one.
Owned ==
    /\ \A c \in Conns \ {gconn} : Over(c)
    /\ gconn # 0 =>
          /\ obj[gconn] # "none"
          /\ running[gconn] =>
                obj[gconn] = "live" /\ reader[gconn] \in {"starting", "loop", "hand", "open"}
          /\ torn[gconn] \/ running[gconn] \/ reader[gconn] \in {"none", "failed", "tear"} \/ appPc = "tear"
          /\ reader[gconn] \in {"starting", "loop", "hand"} =>
                Silent /\ running[gconn] /\ btPc = (IF reader[gconn] = "starting" THEN "create" ELSE "idle")
          /\ reader[gconn] = "none" => btPc = "start"

\* appTask in stop(), or in a send.
Stopping ==
    /\ appPc \in InSend => appThen \in {"idle", "delay pass", "delay name"}
    /\ appPc \in InStop =>
          /\ appThis = gconn /\ gconn # 0 /\ obj[gconn] = "live" /\ ~running[gconn]
          /\ reader[gconn] \in {"open", "tail", "gone"}
          /\ appPc = "announce" => torn[gconn]
          /\ appThen \in {"idle", "server", "delete"}

\* A connection is deleted, and a Cleanup under way, only when it has ended.
Deleting ==
    /\ appPc \in {"delete", "null"} \/ "cleanup" \in CommandsIn(queue) => gconn = 0 \/ Ended(gconn)
    /\ gconn # 0 /\ obj[gconn] = "deleted" => appPc = "null" \/ btPc \in {"null", "forget"}
    /\ appPc = "null" \/ btPc \in {"null", "forget"} => gconn = 0 \/ obj[gconn] = "deleted"
    /\ CommandsIn(timers) \subseteq {"restart connection", "restart server"}

\* setupConnection().
SettingUp ==
    /\ btPc \in {"delete", "null", "new", "start"} => Silent /\ (gconn = 0 \/ ~Busy(gconn))
    /\ btPc = "delete" => gconn # 0
    /\ btPc \in {"delete", "null"} => gconn = 0 \/ Ended(gconn)
    /\ btPc = "new" => gconn = 0
    /\ btPc = "start" => /\ gconn # 0 /\ obj[gconn] = "live" /\ reader[gconn] = "none"
                         /\ inUse[gconn] = stored["pass"]
    /\ btPc = "create" => gconn # 0 /\ reader[gconn] = "starting"
    /\ btPc \in {"drop", "forget"} => gconn = 0 \/ (reader[gconn] = "failed" /\ ~running[gconn])

\* parameterSync knows the connection from its handshake to its close callback.
Synced ==
    sync # 0 =>
        /\ sync = gconn /\ obj[gconn] = "live"
        /\ running[gconn] \/ reader[gconn] \in InStop \/ appPc \in InStop

\* A passphrase that is set, or about to be, has its restart on the way.
Doomed ==
    \/ "restart connection" \in CommandsIn(timers) \cup CommandsIn(queue) \cup lost
    \/ gconn = 0
    \/ ~running[gconn]
    \/ inUse[gconn] = stored["pass"] /\ appPc # "set pass"

Inv == Owned /\ Stopping /\ Deleting /\ SettingUp /\ Synced /\ Doomed

-----------------------------------------------------------------------------
(* Queues of commands.                                                     *)

\* A queue with one more command.
LEMMA Appended ==
    ASSUME NEW s \in Seq(Commands), NEW cmd \in Commands
    PROVE  /\ Append(s, cmd) \in Seq(Commands)
           /\ Len(s) \in Nat /\ Len(Append(s, cmd)) = Len(s) + 1
           /\ CommandsIn(Append(s, cmd)) = CommandsIn(s) \cup {cmd}
<1> DEFINE t == Append(s, cmd)
<1>1. /\ t \in Seq(Commands) /\ Len(s) \in Nat /\ Len(t) = Len(s) + 1
      /\ DOMAIN t = 1 .. Len(s) + 1 /\ DOMAIN s = 1 .. Len(s)
      /\ \A n \in 1 .. Len(s) : t[n] = s[n]
      /\ t[Len(s) + 1] = cmd
  OBVIOUS
<1> HIDE DEF t
<1>2. \A n \in DOMAIN t : n \in DOMAIN s \/ n = Len(s) + 1
  BY <1>1
<1>3. \A n \in DOMAIN s : n \in DOMAIN t /\ t[n] = s[n]
  BY <1>1
<1>4. Len(s) + 1 \in DOMAIN t
  BY <1>1
<1>5. CommandsIn(t) = CommandsIn(s) \cup {cmd}
  BY <1>1, <1>2, <1>3, <1>4 DEF CommandsIn
<1> QED
  BY <1>1, <1>5 DEF t

\* A queue without its head.
LEMMA Taken ==
    ASSUME NEW s \in Seq(Commands), s # <<>>
    PROVE  /\ Tail(s) \in Seq(Commands) /\ Head(s) \in Commands
           /\ Len(s) \in Nat /\ Len(Tail(s)) = Len(s) - 1
           /\ CommandsIn(s) = CommandsIn(Tail(s)) \cup {Head(s)}
<1> DEFINE t == Tail(s)
<1>1. /\ t \in Seq(Commands) /\ Len(s) \in Nat /\ Len(t) = Len(s) - 1
      /\ DOMAIN t = 1 .. Len(s) - 1 /\ DOMAIN s = 1 .. Len(s) /\ Len(s) # 0
      /\ \A n \in 1 .. Len(s) - 1 : t[n] = s[n + 1]
      /\ Head(s) = s[1] /\ Head(s) \in Commands
  OBVIOUS
<1> HIDE DEF t
<1>2. \A n \in DOMAIN t : n + 1 \in DOMAIN s /\ t[n] = s[n + 1]
  BY <1>1
<1>3. \A n \in DOMAIN s : n = 1 \/ (n - 1 \in DOMAIN t /\ t[n - 1] = s[n])
  BY <1>1
<1>4. 1 \in DOMAIN s
  BY <1>1
<1>5. CommandsIn(s) = CommandsIn(t) \cup {Head(s)}
  <2>1. CommandsIn(t) \subseteq CommandsIn(s)
    BY <1>2 DEF CommandsIn
  <2>2. Head(s) \in CommandsIn(s)
    BY <1>1, <1>4 DEF CommandsIn
  <2>3. \A n \in DOMAIN s : s[n] \in CommandsIn(t) \cup {Head(s)}
    BY <1>1, <1>3 DEF CommandsIn
  <2>4. CommandsIn(s) \subseteq CommandsIn(t) \cup {Head(s)}
    BY <2>3 DEF CommandsIn
  <2> QED
    BY <2>1, <2>2, <2>4
<1> QED
  BY <1>1, <1>5 DEF t

\* An empty queue holds nothing.
LEMMA NoCommands == CommandsIn(<<>>) = {} /\ <<>> \in Seq(Commands) /\ Len(<<>>) = 0
BY DEF CommandsIn

\* xQueueSend() leaves a queue within its capacity, and the command in it or lost.
LEMMA Posted ==
    ASSUME Queues, NEW cmd \in Commands, Post(cmd)
    PROVE  /\ queue' \in Seq(Commands) /\ Len(queue') <= QueueLen
           /\ CommandsIn(queue') \subseteq CommandsIn(queue) \cup {cmd}
           /\ CommandsIn(queue) \subseteq CommandsIn(queue') /\ lost \subseteq lost'
           /\ cmd \in Awaited => cmd \in CommandsIn(queue') \cup lost'
<1>1. CASE Len(queue) < QueueLen
  <2>1. queue' = Append(queue, cmd) /\ lost' = lost
    BY <1>1 DEF Post, HasRoom
  <2>2. /\ Append(queue, cmd) \in Seq(Commands) /\ Len(queue) \in Nat
        /\ Len(Append(queue, cmd)) = Len(queue) + 1
        /\ CommandsIn(Append(queue, cmd)) = CommandsIn(queue) \cup {cmd}
    BY Appended DEF Queues
  <2>3. Len(queue') <= QueueLen
    BY <1>1, <2>1, <2>2, BoundsAssumption
  <2> QED
    BY <2>1, <2>2, <2>3
<1>2. CASE ~(Len(queue) < QueueLen)
  BY <1>2 DEF Post, HasRoom, Queues
<1> QED
  BY <1>1, <1>2

-----------------------------------------------------------------------------
(* Every step preserves the types.                                         *)

\* What is posted is a command.
LEMMA KnownCommands ==
    /\ "cleanup" \in Commands /\ "send all" \in Commands /\ "other" \in Commands
    /\ Settings \subseteq Commands
    /\ Awaited = {"cleanup", "restart connection", "restart server"}
BY DEF Commands, Settings, Awaited, Restart

\* What the settings lead to.
LEMMA Named ==
    /\ Restart["pass"] = "restart connection" /\ Restart["name"] = "restart server"
    /\ Delaying["pass"] = "delay pass" /\ Delaying["name"] = "delay name"
    /\ Setting["pass"] = "set pass" /\ Setting["name"] = "set name" /\ Setting["other"] = "set other"
    /\ DOMAIN Setting = {"pass", "name", "other"}
BY DEF Restart, Delaying, Setting

\* The queue and the timers.
LEMMA StepQueues == Shape /\ Queues /\ [Next]_vars => Queues'
<1> SUFFICES ASSUME Shape, Queues, [Next]_vars PROVE Queues'
  OBVIOUS
<1>0. {"cleanup", "send all"} \cup Settings \cup {"other"} \subseteq Commands
  BY KnownCommands
<1>1. ASSUME NEW cmd \in Commands, Post(cmd), timers' = timers PROVE Queues'
  BY <1>1, Posted DEF Queues
<1>2. ASSUME UNCHANGED <<queue, timers>> PROVE Queues'
  BY <1>2 DEF Queues
<1>3. ASSUME queue # <<>>, queue' = Tail(queue) PROVE queue' \in Seq(Commands) /\ Len(queue') <= QueueLen
  <2>1. /\ queue' \in Seq(Commands) /\ Len(queue) \in Nat /\ Len(queue') = Len(queue) - 1
    BY <1>3, Taken DEF Queues
  <2> QED
    BY <2>1, BoundsAssumption DEF Queues
<1>4. CASE LinkOpens \/ BtDeletes \/ BtNulls \/ BtCreates \/ BtStarts \/ BtStartsNothing \/ BtStarted
  BY <1>2, <1>4 DEF LinkOpens, BtDeletes, BtNulls, BtCreates, BtStarts, BtStartsNothing,
                    BtStarted, BtStep
<1>5. CASE BtStartFails
  <2>1. PICK c \in Conns : CloseCallback(c)
    BY <1>5 DEF BtStartFails
  <2>2. timers' = timers
    BY <1>5 DEF BtStartFails, BtStep
  <2> QED
    BY <1>0, <1>1, <2>1, <2>2 DEF CloseCallback
<1>6. ASSUME NEW c \in Conns,
             ReadHandshake(c) \/ ReadLeaves(c) \/ ReadTears(c) \/ ReadEnds(c)
      PROVE  Queues'
  BY <1>2, <1>6 DEF ReadHandshake, ReadLeaves, ReadTears, ReadEnds, ReadStep
<1>7. ASSUME NEW c \in Conns, ReadReady(c) PROVE Queues'
  <2>1. Post("send all") /\ timers' = timers
    BY <1>7 DEF ReadReady, ReadStep
  <2> QED
    BY <1>0, <1>1, <2>1
<1>8. ASSUME NEW c \in Conns, ReadData(c) PROVE Queues'
  <2>1. PICK cmd \in Settings \cup {"other"} : Post(cmd)
    BY <1>8 DEF ReadData
  <2>2. timers' = timers /\ cmd \in Commands
    BY <1>0, <1>8 DEF ReadData, ReadStep
  <2> QED
    BY <1>1, <2>1, <2>2
<1>9. ASSUME NEW c \in Conns, ReadAnnounces(c) PROVE Queues'
  <2>1. Post("cleanup") /\ timers' = timers
    BY <1>9 DEF ReadAnnounces, ReadStep, CloseCallback
  <2> QED
    BY <1>0, <1>1, <2>1
<1>10. CASE DoCleanup \/ DoRestart \/ DoSendAll \/ DoOther \/ \E s \in Settings : DoAnnounce(s)
  <2>1. queue # <<>> /\ queue' = Tail(queue) /\ timers' = timers
    BY <1>10 DEF DoCleanup, DoRestart, DoSendAll, DoOther, DoAnnounce, Take
  <2> QED
    BY <1>3, <2>1 DEF Queues
<1>11. ASSUME NEW s \in Settings, DoDelay(s) PROVE Queues'
  <2>1. /\ queue' = queue
        /\ timers' = Append(timers, Restart[s]) \/ timers' = timers
    BY <1>11 DEF DoDelay, SendDelayed
  <2>2. Restart[s] \in Commands
    BY Named DEF Settings, Commands
  <2>3. timers' \in Seq(Commands)
    BY <2>1, <2>2, Appended DEF Queues
  <2> QED
    BY <2>1, <2>3 DEF Queues
<1>12. CASE AppSent \/ \E s \in DOMAIN Setting : DoSet(s)
  BY <1>2, <1>12 DEF AppSent, DoSet
<1>13. CASE AppTears \/ AppDeletes \/ AppNulls \/ AppRestartsServer
  BY <1>2, <1>13 DEF AppTears, AppDeletes, AppNulls, AppRestartsServer
<1>14. CASE AppAnnounces
  <2>1. Post("cleanup") /\ timers' = timers
    BY <1>14 DEF AppAnnounces, CloseCallback
  <2> QED
    BY <1>0, <1>1, <2>1
<1>15. CASE TimerFires
  <2>1. timers # <<>> /\ timers' = Tail(timers) /\ Post(Head(timers))
    BY <1>15 DEF TimerFires
  <2>2. Head(timers) \in Commands /\ timers' \in Seq(Commands)
    BY <2>1, Taken DEF Queues
  <2> QED
    BY <2>1, <2>2, Posted DEF Queues
<1>16. CASE SensorWaits \/ SensorSent \/ Console \/ StrayTouch \/ UNCHANGED vars
  BY <1>2, <1>16 DEF SensorWaits, SensorSent, SensorFrame, Console, StrayTouch, vars, queueVars
<1> QED
  BY <1>4, <1>5, <1>6, <1>7, <1>8, <1>9, <1>10, <1>11, <1>12, <1>13, <1>14, <1>15, <1>16
     DEF Next, SetupConnection, ReadProceeds, AppTask

\* Everything else.
LEMMA StepShape == Shape /\ [Next]_vars => Shape'
<1> SUFFICES ASSUME Shape, [Next]_vars PROVE Shape'
  OBVIOUS
<1>0. patient' = patient
  BY DEF Next, Works, vars
<1> USE <1>0 DEF Shape, connVars, setVars, appVars, taskVars
<1>1. CASE LinkOpens
  BY <1>1 DEF LinkOpens, BtStep, BtPcs, DeletesOld
<1>2. CASE BtDeletes
  BY <1>2 DEF BtDeletes, BtStep, BtPcs, Delete
<1>3. CASE BtNulls
  BY <1>3 DEF BtNulls, BtStep, BtPcs
<1>4. CASE BtCreates
  <2>1. stored["pass"] \in Nat
    BY DEF Settings
  <2> QED
    BY <1>4, <2>1 DEF BtCreates, BtStep, BtPcs
<1>5. CASE BtStarts
  BY <1>5 DEF BtStarts, BtStep, BtPcs, ReadPcs
<1>6. CASE BtStartsNothing
  BY <1>6 DEF BtStartsNothing, BtStep, BtPcs
<1>7. CASE BtStarted
  BY <1>7 DEF BtStarted, BtStep, BtPcs, ReadPcs
<1>8. CASE BtStartFails
  BY <1>8 DEF BtStartFails, BtStep, BtPcs, ReadPcs, CloseCallback, SyncRemoved
<1>9. ASSUME NEW c \in Conns, ReadHandshake(c) PROVE Shape'
  BY <1>9 DEF ReadHandshake, ReadStep, ReadPcs
<1>10. ASSUME NEW c \in Conns, ReadReady(c) PROVE Shape'
  BY <1>10 DEF ReadReady, ReadStep, ReadPcs
<1>11. ASSUME NEW c \in Conns, ReadData(c) PROVE Shape'
  BY <1>11 DEF ReadData, ReadStep, ReadPcs
<1>12. ASSUME NEW c \in Conns, ReadLeaves(c) PROVE Shape'
  BY <1>12 DEF ReadLeaves, ReadStep, ReadPcs, ToTeardown, InStop
<1>13. ASSUME NEW c \in Conns, ReadTears(c) PROVE Shape'
  BY <1>13 DEF ReadTears, ReadStep, ReadPcs, InStop
<1>14. ASSUME NEW c \in Conns, ReadAnnounces(c) PROVE Shape'
  BY <1>14 DEF ReadAnnounces, ReadStep, ReadPcs, CloseCallback, SyncRemoved
<1>15. ASSUME NEW c \in Conns, ReadEnds(c) PROVE Shape'
  BY <1>15 DEF ReadEnds, ReadStep, ReadPcs
<1>16. ASSUME NEW next \in AppPcs, Goto(next),
              UNCHANGED <<gconn, sync, sensor, obj, running, torn, reader, stored, inUse, taskVars>>
       PROVE  Shape'
  BY <1>16 DEF Goto
<1>17. ASSUME NEW c \in Conns, NEW at \in AppPcs, NEW next \in AppPcs, Enter(at, c, next),
              UNCHANGED <<gconn, sync, sensor, obj, torn, reader, stored, inUse, taskVars>>,
              running' \in [Conns -> BOOLEAN]
       PROVE  Shape'
  BY <1>17 DEF Enter
<1>18. ASSUME NEW next \in {"idle", "server", "delete"}, Stops(next),
              UNCHANGED <<gconn, sync, sensor, obj, torn, reader, stored, inUse, taskVars>>
       PROVE  Shape'
  <2>1. gconn \in Conns /\ running' \in [Conns -> BOOLEAN] /\ next \in AppPcs /\ "tear" \in AppPcs
    BY <1>18 DEF Stops, Stopped, Alive, AppPcs, InStop
  <2>2. CASE running[gconn]
    BY <1>17, <1>18, <2>1, <2>2 DEF Stops
  <2>3. CASE ~running[gconn]
    <3>1. Goto(next)
      BY <1>18, <2>3 DEF Stops
    <3> QED
      BY <1>18, <2>1, <3>1 DEF Goto
  <2> QED
    BY <2>2, <2>3
<1>19. CASE DoCleanup \/ DoRestart
  BY <1>18, <1>19 DEF DoCleanup, DoRestart, Take, AppFrame, AfterCleanup, StopsNothing
<1>20. ASSUME NEW c \in {0} \cup Conns, NEW at \in AppPcs, NEW next \in AppPcs,
              Sends(c, at, next),
              UNCHANGED <<gconn, sync, sensor, obj, running, torn, reader, stored, inUse, taskVars>>
       PROVE  Shape'
  BY <1>16, <1>17, <1>20 DEF Sends, Up
<1>21. CASE DoSendAll \/ DoOther
  <2>1. {"snapshot", "idle", "set other"} \subseteq AppPcs
    BY DEF AppPcs, InStop, InSend
  <2>2. CASE DoSendAll
    BY <1>20, <2>1, <2>2 DEF DoSendAll, Take, AppFrame
  <2>3. CASE DoOther
    BY <1>16, <2>1, <2>3, Named DEF DoOther, Take, AppFrame
  <2> QED
    BY <1>21, <2>2, <2>3
<1>22. ASSUME NEW s \in Settings, DoAnnounce(s) \/ DoDelay(s) PROVE Shape'
  <2>1. Delaying[s] \in AppPcs /\ Setting[s] \in AppPcs /\ "notice" \in AppPcs
    BY Named DEF Settings, AppPcs, InStop, InSend
  <2>2. CASE DoAnnounce(s)
    <3>1. UNCHANGED <<gconn, sync, sensor, obj, running, torn, reader, stored, inUse, taskVars>>
      BY <2>2 DEF DoAnnounce, Take, AppFrame
    <3>2. CASE Sends(gconn, "notice", Delaying[s])
      BY <1>20, <2>1, <3>1, <3>2
    <3>3. CASE UNCHANGED appVars
      BY <3>1, <3>3
    <3> QED
      BY <2>2, <3>2, <3>3 DEF DoAnnounce
  <2>3. CASE DoDelay(s)
    BY <1>16, <2>1, <2>3 DEF DoDelay, AppStep, AppFrame
  <2> QED
    BY <1>22, <2>2, <2>3
<1>23. ASSUME NEW s \in DOMAIN Setting, DoSet(s) PROVE Shape'
  <2>1. \A x \in Settings : stored[x] \in Nat /\ stored[x] + 1 \in Nat
    OBVIOUS
  <2>2. stored' \in [Settings -> Nat]
    BY <1>23, <2>1 DEF DoSet
  <2>3. UNCHANGED <<gconn, sync, sensor, obj, running, torn, reader, inUse, taskVars>>
    BY <1>23 DEF DoSet, AppStep, AppFrame
  <2>4. /\ appPc' \in {"idle", "tell"}
        /\ appThen' \in {appThen, "idle"} /\ appThis' \in {appThis, sync}
    BY <1>23 DEF DoSet, Sends, Goto, Enter
  <2>5. appPc' \in AppPcs /\ appThen' \in AppPcs
    BY <2>4 DEF AppPcs, InSend
  <2>6. appThis' \in {0} \cup Conns
    BY <2>4
  <2> QED
    BY <2>2, <2>3, <2>5, <2>6
<1>24. CASE AppSent \/ AppAnnounces
  <2>1. /\ UNCHANGED <<gconn, sensor, obj, running, torn, reader, stored, inUse, taskVars>>
        /\ sync' \in {sync, 0}
        /\ Leave \/ (Up(sync) /\ Enter("snapshot", sync, "idle"))
    BY <1>24 DEF AppSent, AppAnnounces, AppStep, AppFrame, CloseCallback, SyncRemoved
  <2>2. "snapshot" \in AppPcs /\ "idle" \in AppPcs
    BY DEF AppPcs, InSend
  <2>3. CASE Leave
    BY <2>1, <2>2, <2>3 DEF Leave
  <2>4. CASE Up(sync) /\ Enter("snapshot", sync, "idle")
    BY <2>1, <2>2, <2>4 DEF Enter
  <2> QED
    BY <2>1, <2>3, <2>4
<1>25. CASE AppTears
  <2>1. "announce" \in AppPcs
    BY DEF AppPcs, InStop
  <2>2. torn' \in [Conns -> BOOLEAN]
    BY <1>25 DEF AppTears
  <2> QED
    BY <1>25, <2>1, <2>2 DEF AppTears, AppStep, AppFrame
<1>26. CASE AppDeletes \/ AppNulls \/ AppRestartsServer
  <2>1. {"null", "idle"} \subseteq AppPcs
    BY DEF AppPcs, InStop
  <2>2. CASE AppDeletes
    <3>1. obj' \in [Conns -> {"none", "live", "deleted"}]
      BY <2>2 DEF AppDeletes, Delete
    <3> QED
      BY <2>1, <2>2, <3>1 DEF AppDeletes, AppStep, AppFrame, Goto
  <2>3. CASE AppNulls
    BY <2>1, <2>3 DEF AppNulls, AppStep, AppFrame, Goto
  <2>4. CASE AppRestartsServer
    BY <1>16, <2>1, <2>4 DEF AppRestartsServer, AppStep, AppFrame
  <2> QED
    BY <1>26, <2>2, <2>3, <2>4
<1>27. CASE TimerFires
  BY <1>27 DEF TimerFires
<1>28. CASE Console
  BY <1>28 DEF Console
<1>29. CASE StrayTouch
  BY <1>29 DEF StrayTouch
<1>30. CASE SensorWaits \/ SensorSent
  BY <1>30 DEF SensorWaits, SensorSent, SensorFrame
<1>31. CASE UNCHANGED vars
  BY <1>31 DEF vars
<1> QED
  BY <1>1, <1>2, <1>3, <1>4, <1>5, <1>6, <1>7, <1>8, <1>9, <1>10, <1>11, <1>12, <1>13,
     <1>14, <1>15, <1>19, <1>21, <1>22, <1>23, <1>24, <1>25,
     <1>26, <1>27, <1>28, <1>29, <1>30, <1>31
     DEF Next, SetupConnection, ReadProceeds, AppTask

\* The first state is well typed.
LEMMA InitTyped == Init => Shape /\ Queues
<1> SUFFICES ASSUME Init PROVE Shape /\ Queues
  OBVIOUS
<1>1. Queues
  BY NoCommands, BoundsAssumption DEF Init, Queues
<1>2. Shape
  BY DEF Init, Shape, ReadPcs, AppPcs, BtPcs, InStop
<1> QED
  BY <1>1, <1>2

\* All types are invariant together.
LEMMA Typed == Spec => [](Shape /\ Queues)
BY InitTyped, StepShape, StepQueues, PTL DEF Spec

\* The state is well formed and appQueue within its capacity, whatever the clients do.
THEOREM TypeCorrect == Spec => []TypeOK
<1>1. Shape /\ Queues => TypeOK
  BY DEF Shape, Queues, TypeOK
<1> QED
  BY Typed, <1>1, PTL

-----------------------------------------------------------------------------
(* Every step preserves the invariant, as long as clients are patient.     *)

\* 0 is not a connection.
LEMMA NoConn == 0 \notin Conns
BY DEF Conns

\* Steps that touch none of what the invariant is about.
LEMMA Untouched ==
    ASSUME Inv, UNCHANGED <<queue, timers, gconn, connVars, sync, stored, inUse, appVars, btPc>>,
           lost \subseteq lost'
    PROVE  Inv'
<1>0. UNCHANGED <<queue, timers, gconn, obj, running, torn, reader, sync, stored, inUse,
                  appPc, appThis, appThen, btPc>>
  BY DEF connVars, appVars
<1>1. Owned'
  BY <1>0 DEF Inv, Owned, Over, Silent, Busy
<1>2. Stopping'
  BY <1>0 DEF Inv, Stopping
<1>3. Deleting'
  BY <1>0 DEF Inv, Deleting, Ended
<1>4. SettingUp'
  BY <1>0 DEF Inv, SettingUp, Silent, Busy, Ended
<1>5. Synced'
  BY <1>0 DEF Inv, Synced
<1>6. Doomed'
  BY <1>0 DEF Inv, Doomed
<1> QED
  BY <1>1, <1>2, <1>3, <1>4, <1>5, <1>6 DEF Inv

\* The steps of setupConnection().
LEMMA StepSetup ==
    ASSUME Shape, Queues, Inv, patient, LinkOpens \/ SetupConnection
    PROVE  Inv'
<1> USE NoConn DEF Inv, Shape, connVars, appVars, InStop
<1>1. CASE LinkOpens
  <2>1. /\ Settled /\ btPc = "idle" /\ btPc' = (IF gconn # 0 THEN "delete" ELSE "new")
        /\ UNCHANGED <<queue, timers, lost, gconn, obj, running, torn, reader, sync, stored,
                       inUse, appPc, appThis, appThen>>
    BY <1>1 DEF LinkOpens, BtStep, DeletesOld
  <2>2. /\ queue = <<>> /\ timers = <<>> /\ appPc = "idle"
        /\ \A c \in Conns : reader[c] \in {"none", "failed", "gone"}
    BY <2>1 DEF Settled, Busy
  <2>3. Owned'
    BY <2>1, <2>2 DEF Owned, Over
  <2>4. Stopping' /\ Deleting'
    BY <2>1, <2>2 DEF Stopping, Deleting, Ended
  <2>5. gconn # 0 => Ended(gconn)
    BY <2>1, <2>2 DEF Owned, Ended
  <2>6. SettingUp'
    BY <2>1, <2>2, <2>5 DEF SettingUp, Silent, Busy, Ended
  <2>7. Synced' /\ Doomed'
    BY <2>1 DEF Synced, Doomed
  <2> QED
    BY <2>3, <2>4, <2>6, <2>7
<1>2. CASE BtDeletes
  <2>1. /\ \/ btPc = "delete" /\ btPc' = "null"
           \/ btPc = "drop" /\ btPc' = "forget"
        /\ obj' = (IF gconn = 0 THEN obj ELSE [obj EXCEPT ![gconn] = "deleted"])
        /\ UNCHANGED <<queue, timers, lost, gconn, running, torn, reader, sync, stored,
                       inUse, appPc, appThis, appThen>>
    BY <1>2 DEF BtDeletes, BtStep, Delete
  <2>2. gconn # 0 => Ended(gconn) /\ appPc \notin {"tear", "announce"}
    BY <2>1 DEF SettingUp, Owned, Stopping, Ended, Silent
  <2>3. \A c \in Conns \ {gconn} : obj'[c] = obj[c]
    BY <2>1
  <2>4. gconn # 0 => obj'[gconn] = "deleted"
    BY <2>1
  <2>5. Owned'
    BY <2>1, <2>2, <2>3, <2>4 DEF Owned, Over, Ended
  <2>6. Stopping' /\ Deleting'
    BY <2>1, <2>2, <2>4 DEF Stopping, Deleting, Ended
  <2>7. SettingUp'
    BY <2>1, <2>2, <2>3 DEF SettingUp, Silent, Busy, Ended
  <2>8. Synced' /\ Doomed'
    BY <2>1, <2>2 DEF Synced, Doomed, Ended
  <2> QED
    BY <2>5, <2>6, <2>7, <2>8
<1>3. CASE BtNulls
  <2>1. /\ \/ btPc = "null" /\ btPc' = "new"
           \/ btPc = "forget" /\ btPc' = "idle"
        /\ gconn' = 0
        /\ UNCHANGED <<queue, timers, lost, obj, running, torn, reader, sync, stored,
                       inUse, appPc, appThis, appThen>>
    BY <1>3 DEF BtNulls, BtStep
  <2>2. gconn # 0 => Ended(gconn) /\ obj[gconn] = "deleted" /\ appPc \notin {"tear", "announce"}
    BY <2>1 DEF SettingUp, Owned, Stopping, Deleting, Ended, Silent
  <2>3. \A c \in Conns : Over(c)
    BY <2>2 DEF Owned, Over, Ended
  <2>4. Owned'
    BY <2>1, <2>3 DEF Owned, Over
  <2>5. Stopping' /\ Deleting'
    BY <2>1, <2>2 DEF Stopping, Deleting
  <2>6. SettingUp'
    BY <2>1 DEF SettingUp, Silent, Busy
  <2>7. Synced' /\ Doomed'
    BY <2>1, <2>2 DEF Synced, Doomed, Ended
  <2> QED
    BY <2>4, <2>5, <2>6, <2>7
<1>4. CASE BtCreates
  <2>1. PICK c \in Conns :
            /\ obj[c] = "none" /\ obj' = [obj EXCEPT ![c] = "live"]
            /\ gconn' = c /\ inUse' = [inUse EXCEPT ![c] = stored["pass"]]
    <3>1. PICK c \in Conns :
            /\ \A d \in Conns : (obj[d] = "none") <=> (d >= c)
            /\ obj' = [obj EXCEPT ![c] = "live"]
            /\ gconn' = c /\ inUse' = [inUse EXCEPT ![c] = stored["pass"]]
      BY <1>4 DEF BtCreates
    <3>2. c >= c
      BY <3>1 DEF Conns
    <3>3. obj[c] = "none"
      BY <3>1, <3>2
    <3> QED
      BY <3>1, <3>3
  <2>2. /\ btPc = "new" /\ btPc' = "start"
        /\ UNCHANGED <<queue, timers, lost, running, torn, reader, sync, stored,
                       appPc, appThis, appThen>>
    BY <1>4 DEF BtCreates, BtStep
  <2>3. gconn = 0 /\ Silent
    BY <2>2 DEF SettingUp
  <2>4. /\ reader[c] = "none" /\ ~running[c] /\ ~torn[c]
        /\ \A d \in Conns : Over(d)
    BY <2>1, <2>3 DEF Owned, Over
  <2>5. obj'[c] = "live" /\ \A d \in Conns \ {c} : obj'[d] = obj[d]
    BY <2>1
  <2>6. Owned'
    BY <2>1, <2>2, <2>4, <2>5 DEF Owned, Over
  <2>7. Stopping' /\ Deleting'
    BY <2>1, <2>2, <2>3, <2>5, NoCommands DEF Stopping, Deleting, Silent
  <2>8. SettingUp'
    BY <2>1, <2>2, <2>3, <2>4, <2>5 DEF SettingUp, Silent, Busy
  <2>9. Synced' /\ Doomed'
    BY <2>1, <2>2, <2>3, <2>4 DEF Synced, Doomed
  <2> QED
    BY <2>6, <2>7, <2>8, <2>9
<1>5. CASE BtStarts
  <2>1. /\ btPc = "start" /\ btPc' = "create"
        /\ running' = [running EXCEPT ![gconn] = TRUE]
        /\ reader' = [reader EXCEPT ![gconn] = "starting"]
        /\ UNCHANGED <<queue, timers, lost, gconn, obj, torn, sync, stored,
                       inUse, appPc, appThis, appThen>>
    BY <1>5 DEF BtStarts, BtStep
  <2>2. /\ gconn \in Conns /\ obj[gconn] = "live" /\ Silent /\ inUse[gconn] = stored["pass"]
        /\ reader[gconn] = "none"
    BY <2>1 DEF SettingUp
  <2>3. /\ running'[gconn] /\ reader'[gconn] = "starting"
        /\ \A c \in Conns \ {gconn} : running'[c] = running[c] /\ reader'[c] = reader[c]
    BY <2>1, <2>2
  <2>4. Owned'
    BY <2>1, <2>2, <2>3 DEF Owned, Over, Silent, Busy
  <2>5. Stopping' /\ Deleting'
    BY <2>1, <2>2, NoCommands DEF Stopping, Deleting, Silent
  <2>6. SettingUp'
    BY <2>1, <2>2, <2>3 DEF SettingUp
  <2>7. Synced' /\ Doomed'
    BY <2>1, <2>2, <2>3 DEF Synced, Doomed, Silent
  <2> QED
    BY <2>4, <2>5, <2>6, <2>7
<1>6. CASE BtStartsNothing
  BY <1>6, Untouched DEF BtStartsNothing, BtStep
<1>7. CASE BtStarted
  <2>1. PICK c \in Conns : reader[c] = "starting" /\ reader' = [reader EXCEPT ![c] = "loop"]
    BY <1>7 DEF BtStarted
  <2>2. /\ btPc = "create" /\ btPc' = "idle"
        /\ UNCHANGED <<queue, timers, lost, gconn, obj, running, torn, sync, stored,
                       inUse, appPc, appThis, appThen>>
    BY <1>7 DEF BtStarted, BtStep
  <2>3. c = gconn /\ Silent
    BY <2>1 DEF Owned, Over
  <2>4. reader'[gconn] = "loop" /\ \A d \in Conns \ {gconn} : reader'[d] = reader[d]
    BY <2>1, <2>3
  <2>5. Owned'
    BY <2>1, <2>2, <2>3, <2>4 DEF Owned, Over, Silent, Busy
  <2>6. Stopping' /\ Deleting'
    BY <2>2, <2>3, NoCommands DEF Stopping, Deleting, Silent
  <2>7. SettingUp'
    BY <2>2 DEF SettingUp
  <2>8. Synced' /\ Doomed'
    BY <2>1, <2>2, <2>3, <2>4 DEF Synced, Doomed
  <2> QED
    BY <2>5, <2>6, <2>7, <2>8
<1>8. CASE BtStartFails
  <2>1. PICK c \in Conns :
            /\ reader[c] = "starting" /\ reader' = [reader EXCEPT ![c] = "failed"]
            /\ running' = [running EXCEPT ![c] = FALSE]
            /\ CloseCallback(c)
    BY <1>8 DEF BtStartFails
  <2>2. /\ btPc = "create" /\ btPc' = "drop"
        /\ UNCHANGED <<timers, gconn, obj, torn, stored, inUse, appPc, appThis, appThen>>
    BY <1>8 DEF BtStartFails, BtStep
  <2>3. c = gconn /\ Silent
    BY <2>1 DEF Owned, Over
  <2>4. sync' = 0
    BY <2>1 DEF CloseCallback, SyncRemoved
  <2>5. /\ reader'[gconn] = "failed" /\ ~running'[gconn]
        /\ \A d \in Conns \ {gconn} : reader'[d] = reader[d] /\ running'[d] = running[d]
    BY <2>1, <2>3
  <2>6. Owned'
    BY <2>1, <2>2, <2>3, <2>5 DEF Owned, Over
  <2>7. Stopping'
    BY <2>2, <2>3 DEF Stopping, Silent
  <2>8. Deleting'
    BY <2>2, <2>3, <2>5 DEF Deleting, Ended, Silent
  <2>9. SettingUp'
    BY <2>2, <2>5 DEF SettingUp
  <2>10. Synced' /\ Doomed'
    BY <2>1, <2>2, <2>3, <2>4, <2>5 DEF Synced, Doomed
  <2> QED
    BY <2>6, <2>7, <2>8, <2>9, <2>10
<1> QED
  BY <1>1, <1>2, <1>3, <1>4, <1>5, <1>6, <1>7, <1>8 DEF SetupConnection

\* A read task outside its start is g_conn's, and what it may be doing.
LEMMA OpeningIsOwn ==
    ASSUME Shape, Inv, NEW c \in Conns, reader[c] \in {"starting", "loop", "hand", "tear", "announce"}
    PROVE  c = gconn
BY DEF Inv, Owned, Over

\* Posting what is no Cleanup, when no connection is being opened.
LEMMA PostKeeps ==
    ASSUME Shape, Queues, Inv, NEW cmd \in Commands, cmd # "cleanup", Post(cmd),
           UNCHANGED <<timers, gconn, connVars, sync, stored, inUse, appVars, btPc>>,
           \E c \in Conns : reader[c] = "open"
    PROVE  Inv'
<1> USE DEF Inv, connVars, appVars
<1>1. /\ CommandsIn(queue') \subseteq CommandsIn(queue) \cup {cmd}
      /\ CommandsIn(queue) \subseteq CommandsIn(queue') /\ lost \subseteq lost'
  BY Posted
<1>2. PICK c \in Conns : reader[c] = "open"
  OBVIOUS
<1>3. Busy(c)
  BY <1>2 DEF Busy
<1>4. ~Silent \/ c = gconn
  BY <1>3 DEF Silent
<1>5. Owned'
  BY <1>2, <1>4 DEF Owned, Over
<1>6. Stopping'
  BY DEF Stopping
<1>7. Deleting'
  BY <1>1 DEF Deleting, Ended
<1>8. SettingUp'
  <2>1. btPc \notin {"delete", "null", "new", "start"}
    BY <1>2, <1>3, <1>4, NoConn DEF SettingUp
  <2> QED
    BY <2>1 DEF SettingUp
<1>9. Synced'
  BY DEF Synced
<1>10. Doomed'
  BY <1>1 DEF Doomed
<1> QED
  BY <1>5, <1>6, <1>7, <1>8, <1>9, <1>10

\* The steps of a read task.
LEMMA StepRead ==
    ASSUME Shape, Queues, Inv, patient, NEW c \in Conns,
           ReadHandshake(c) \/ ReadData(c) \/ ReadLeaves(c) \/ ReadProceeds(c)
    PROVE  Inv'
<1> USE NoConn DEF Inv, Shape, connVars, appVars, setVars, taskVars, InStop
<1>1. CASE ReadHandshake(c)
  <2>1. /\ reader[c] = "loop" /\ reader' = [reader EXCEPT ![c] = "hand"]
        /\ UNCHANGED <<queue, timers, lost, gconn, obj, running, torn, sync, stored,
                       inUse, appPc, appThis, appThen, btPc>>
    BY <1>1 DEF ReadHandshake, ReadStep
  <2>2. c = gconn /\ Silent /\ btPc = "idle"
    BY <2>1, OpeningIsOwn DEF Owned
  <2>3. reader'[gconn] = "hand" /\ \A d \in Conns \ {gconn} : reader'[d] = reader[d]
    BY <2>1, <2>2
  <2>4. Owned'
    BY <2>1, <2>2, <2>3 DEF Owned, Over, Silent, Busy
  <2>5. Stopping' /\ Deleting'
    BY <2>1, <2>2, NoCommands DEF Stopping, Deleting, Silent
  <2>6. SettingUp' /\ Synced' /\ Doomed'
    BY <2>1, <2>2, <2>3 DEF SettingUp, Synced, Doomed
  <2> QED
    BY <2>4, <2>5, <2>6
<1>2. CASE ReadReady(c)
  <2>1. /\ reader[c] = "hand" /\ reader' = [reader EXCEPT ![c] = "open"]
        /\ sync' = gconn /\ Post("send all")
        /\ UNCHANGED <<timers, gconn, obj, running, torn, stored,
                       inUse, appPc, appThis, appThen, btPc>>
    BY <1>2 DEF ReadReady, ReadStep
  <2>2. c = gconn /\ Silent /\ btPc = "idle" /\ running[gconn] /\ obj[gconn] = "live"
    BY <2>1, OpeningIsOwn DEF Owned
  <2>3. reader'[gconn] = "open" /\ \A d \in Conns \ {gconn} : reader'[d] = reader[d]
    BY <2>1, <2>2
  <2>4. CommandsIn(queue') \subseteq {"send all"} /\ lost \subseteq lost'
    BY <2>1, <2>2, KnownCommands, Posted, NoCommands, ZenonT(60) DEF Silent
  <2>5. Owned'
    BY <2>1, <2>2, <2>3 DEF Owned, Over
  <2>6. Stopping' /\ Deleting'
    BY <2>1, <2>2, <2>4 DEF Stopping, Deleting, Silent
  <2>7. SettingUp' /\ Synced'
    BY <2>1, <2>2 DEF SettingUp, Synced
  <2>8. Doomed'
    BY <2>1, <2>2, <2>4, NoCommands DEF Doomed, Silent
  <2> QED
    BY <2>5, <2>6, <2>7, <2>8
<1>3. CASE ReadData(c)
  <2>1. PICK cmd \in Settings \cup {"other"} : Post(cmd)
    BY <1>3 DEF ReadData
  <2>2. cmd \in Commands /\ cmd # "cleanup"
    BY DEF Settings, Commands
  <2>3. /\ reader[c] = "open" /\ reader' = reader
        /\ UNCHANGED <<timers, gconn, connVars, sync, stored, inUse, appVars, btPc>>
    BY <1>3 DEF ReadData, ReadStep
  <2> QED
    BY <2>1, <2>2, <2>3, PostKeeps
<1>4. CASE ReadLeaves(c)
  <2>1. /\ reader[c] \in {"loop", "open"}
        /\ reader' = [reader EXCEPT ![c] = IF running[c] THEN "tear" ELSE "tail"]
        /\ running' = [running EXCEPT ![c] = FALSE]
        /\ UNCHANGED <<queue, timers, lost, gconn, obj, torn, sync, stored,
                       inUse, appPc, appThis, appThen, btPc>>
    BY <1>4 DEF ReadLeaves, ReadStep, ToTeardown
  <2>2. /\ \A d \in Conns \ {c} : reader'[d] = reader[d] /\ running'[d] = running[d]
        /\ ~running'[c] /\ reader'[c] = (IF running[c] THEN "tear" ELSE "tail")
    BY <2>1
  <2>3. CASE running[c]
    <3>1. c = gconn /\ obj[gconn] = "live"
      BY <2>3 DEF Owned, Over
    <3>2. reader'[gconn] = "tear"
      BY <2>2, <2>3, <3>1
    <3>3. appPc \notin {"tear", "announce", "delete", "null"} /\ "cleanup" \notin CommandsIn(queue)
      BY <2>3, <3>1 DEF Stopping, Deleting, Ended
    <3>4. btPc \notin {"delete", "null", "new", "start", "create", "drop", "forget"}
      BY <2>1, <2>3, <3>1 DEF SettingUp, Busy
    <3>5. Owned'
      BY <2>1, <2>2, <3>1, <3>2 DEF Owned, Over
    <3>6. Stopping' /\ Deleting'
      BY <2>1, <3>1, <3>3, <3>4 DEF Stopping, Deleting
    <3>7. SettingUp' /\ Synced' /\ Doomed'
      BY <2>1, <2>2, <3>1, <3>2, <3>4 DEF SettingUp, Synced, Doomed
    <3> QED
      BY <3>5, <3>6, <3>7
  <2>4. CASE ~running[c]
    <3>1. reader[c] = "open" /\ reader'[c] = "tail"
      BY <2>1, <2>2, <2>4, OpeningIsOwn DEF Owned
    <3>2. running' = running /\ Busy(c)
      BY <2>1, <2>4, <3>1 DEF Busy
    <3>3. Owned'
      BY <2>1, <2>2, <3>1, <3>2 DEF Owned, Over, Silent, Busy
    <3>4. Stopping' /\ Deleting'
      BY <2>1, <2>2, <3>1, <3>2 DEF Stopping, Deleting, Ended
    <3>5. SettingUp'
      BY <2>1, <2>2, <3>1, <3>2 DEF SettingUp, Silent, Busy, Ended
    <3>6. Synced' /\ Doomed'
      BY <2>1, <2>2, <3>1, <3>2 DEF Synced, Doomed
    <3> QED
      BY <3>3, <3>4, <3>5, <3>6
  <2> QED
    BY <2>3, <2>4
<1>5. CASE ReadTears(c)
  <2>1. /\ reader[c] = "tear" /\ reader' = [reader EXCEPT ![c] = "announce"]
        /\ torn' = [torn EXCEPT ![c] = TRUE]
        /\ UNCHANGED <<queue, timers, lost, gconn, obj, running, sync, stored,
                       inUse, appPc, appThis, appThen, btPc>>
    BY <1>5 DEF ReadTears, ReadStep
  <2>2. c = gconn
    BY <2>1, OpeningIsOwn
  <2>3. /\ \A d \in Conns \ {gconn} : reader'[d] = reader[d] /\ torn'[d] = torn[d]
        /\ torn'[gconn] /\ reader'[gconn] = "announce"
    BY <2>1, <2>2
  <2>4. Owned'
    BY <2>1, <2>2, <2>3 DEF Owned, Over
  <2>5. Stopping' /\ Deleting'
    BY <2>1, <2>2, <2>3 DEF Stopping, Deleting, Ended
  <2>6. SettingUp' /\ Synced' /\ Doomed'
    BY <2>1, <2>2, <2>3 DEF SettingUp, Silent, Busy, Ended, Synced, Doomed
  <2> QED
    BY <2>4, <2>5, <2>6
<1>6. CASE ReadAnnounces(c)
  <2>1. /\ reader[c] = "announce" /\ reader' = [reader EXCEPT ![c] = "tail"]
        /\ sync' = 0 /\ Post("cleanup")
        /\ UNCHANGED <<timers, gconn, obj, running, torn, stored,
                       inUse, appPc, appThis, appThen, btPc>>
    BY <1>6 DEF ReadAnnounces, ReadStep, CloseCallback, SyncRemoved
  <2>2. c = gconn /\ torn[c] /\ ~running[c] /\ appPc \notin {"tear", "announce"}
    BY <2>1, OpeningIsOwn DEF Owned, Stopping
  <2>3. reader'[gconn] = "tail" /\ \A d \in Conns \ {gconn} : reader'[d] = reader[d]
    BY <2>1, <2>2
  <2>4. lost \subseteq lost' /\ CommandsIn(queue) \subseteq CommandsIn(queue')
    BY <2>1, KnownCommands, Posted
  <2>5. Owned'
    BY <2>1, <2>2, <2>3 DEF Owned, Over
  <2>6. Stopping' /\ Deleting'
    BY <2>1, <2>2, <2>3 DEF Stopping, Deleting, Ended
  <2>7. SettingUp'
    BY <2>1, <2>2, <2>3 DEF SettingUp, Busy, Ended
  <2>8. Synced' /\ Doomed'
    BY <2>1, <2>2, <2>4 DEF Synced, Doomed
  <2> QED
    BY <2>5, <2>6, <2>7, <2>8
<1>7. CASE ReadEnds(c)
  <2>1. /\ reader[c] = "tail" /\ reader' = [reader EXCEPT ![c] = "gone"]
        /\ UNCHANGED <<queue, timers, lost, gconn, obj, running, torn, sync, stored,
                       inUse, appPc, appThis, appThen, btPc>>
    BY <1>7 DEF ReadEnds, ReadStep
  <2>2. reader'[c] = "gone" /\ \A d \in Conns \ {c} : reader'[d] = reader[d]
    BY <2>1
  <2>3. Owned'
    BY <2>1, <2>2 DEF Owned, Over, Silent, Busy
  <2>4. Stopping' /\ Deleting'
    BY <2>1, <2>2 DEF Stopping, Deleting, Ended
  <2>5. SettingUp'
    BY <2>1, <2>2 DEF SettingUp, Silent, Busy, Ended
  <2>6. Synced' /\ Doomed'
    BY <2>1, <2>2 DEF Synced, Doomed
  <2> QED
    BY <2>3, <2>4, <2>5, <2>6
<1> QED
  BY <1>1, <1>2, <1>3, <1>4, <1>5, <1>6, <1>7 DEF ReadProceeds

\* appTask at work leaves no connection opening, and nobody setting one up.
LEMMA AppAtWork ==
    ASSUME Shape, Inv, appPc # "idle" \/ queue # <<>>
    PROVE  /\ btPc \notin {"delete", "null", "new", "start", "create"}
           /\ gconn # 0 => reader[gconn] \notin {"none", "starting", "loop", "hand"}
<1>1. ~Silent
  BY DEF Silent
<1> QED
  BY <1>1 DEF Inv, Owned, SettingUp

\* What is left of the queue after a command was taken from it.
LEMMA TakenCommands ==
    ASSUME Queues, queue # <<>>, queue' = Tail(queue)
    PROVE  /\ CommandsIn(queue') \subseteq CommandsIn(queue)
           /\ CommandsIn(queue) = CommandsIn(queue') \cup {Head(queue)}
           /\ Head(queue) \in Commands
BY Taken DEF Queues

\* stop(), called by appTask for a command other than Cleanup.
LEMMA StopKeeps ==
    ASSUME Shape, Queues, Inv, NEW next \in {"idle", "server"}, Stops(next),
           appPc = "idle", queue # <<>>, queue' = Tail(queue),
           UNCHANGED <<timers, lost, gconn, obj, torn, reader, sync, stored, inUse, btPc>>
    PROVE  Inv'
<1> USE NoConn DEF Inv, Shape, InStop, InSend
<1>1. /\ gconn \in Conns /\ obj[gconn] = "live"
      /\ running' = [running EXCEPT ![gconn] = FALSE]
      /\ appPc' = (IF running[gconn] THEN "tear" ELSE next)
      /\ running[gconn] => appThis' = gconn /\ appThen' = next
  BY DEF Stops, Stopped, Alive, Enter, Goto
<1>2. ~running'[gconn] /\ \A c \in Conns \ {gconn} : running'[c] = running[c]
  BY <1>1
<1>3. /\ btPc \notin {"delete", "null", "new", "start", "create"}
      /\ reader[gconn] \notin {"none", "starting", "loop", "hand"}
  BY <1>1, AppAtWork
<1>4. CommandsIn(queue') \subseteq CommandsIn(queue)
  BY TakenCommands
<1>5. running[gconn] => "cleanup" \notin CommandsIn(queue)
  BY <1>1 DEF Deleting, Ended
<1>6. Owned'
  BY <1>1, <1>2, <1>3 DEF Owned, Over
<1>7. Stopping'
  BY <1>1, <1>2, <1>3 DEF Stopping, Owned
<1>8. Deleting'
  BY <1>1, <1>2, <1>3, <1>4, <1>5 DEF Deleting, Ended
<1>9. SettingUp'
  BY <1>1, <1>2, <1>3 DEF SettingUp
<1>10. Synced'
  BY <1>1, <1>2 DEF Synced
<1>11. Doomed'
  BY <1>1, <1>2 DEF Doomed
<1> QED
  BY <1>6, <1>7, <1>8, <1>9, <1>10, <1>11

\* Where appTask is when it takes no connection down.
Elsewhere == AppPcs \ (InStop \cup {"delete", "null"})

\* appTask goes on: to or from a send, or at what touches no connection.
LEMMA GoesOn ==
    ASSUME Shape, Queues, Inv, appPc \in Elsewhere, appPc' \in Elsewhere,
           \/ queue # <<>> /\ queue' = Tail(queue) /\ Head(queue) # "restart connection"
           \/ appPc # "idle" /\ queue' = queue,
           CommandsIn(timers) \subseteq CommandsIn(timers'), lost \subseteq lost',
           CommandsIn(timers') \subseteq CommandsIn(timers) \cup {"restart connection", "restart server"},
           appPc' = "set pass" => "restart connection" \in CommandsIn(timers') \cup lost',
           appPc' \in InSend => appThen' \in {"idle", "delay pass", "delay name"},
           stored'["pass"] = stored["pass"] \/ appPc = "set pass",
           UNCHANGED <<gconn, obj, running, torn, reader, sync, inUse, btPc>>
    PROVE  Inv'
<1> USE NoConn DEF Inv, Shape, InStop
<1>1. appPc \notin {"tear", "announce", "delete", "null"} /\ appPc' \notin {"tear", "announce", "delete", "null"}
  BY DEF Elsewhere
<1>2. /\ CommandsIn(queue') \subseteq CommandsIn(queue)
      /\ "restart connection" \in CommandsIn(queue) => "restart connection" \in CommandsIn(queue')
  BY TakenCommands
<1>3. /\ btPc \notin {"delete", "null", "new", "start", "create"}
      /\ gconn # 0 => reader[gconn] \notin {"none", "starting", "loop", "hand"}
  BY AppAtWork
<1>4. Owned' /\ Stopping'
  BY <1>1, <1>3 DEF Owned, Over, Stopping
<1>5. Deleting'
  BY <1>1, <1>2 DEF Deleting, Ended
<1>6. SettingUp'
  BY <1>3 DEF SettingUp
<1>7. Synced'
  BY <1>1 DEF Synced
<1>8. Doomed'
  BY <1>2 DEF Doomed
<1> QED
  BY <1>4, <1>5, <1>6, <1>7, <1>8

\* The steps of appTask.
LEMMA StepApp ==
    ASSUME Shape, Queues, Inv, patient, AppTask \/ AppSent
    PROVE  Inv'
<1> USE NoConn DEF Inv, Shape, connVars, appVars, setVars, taskVars, InStop
<1>1. CASE DoCleanup
  <2>1. /\ appPc = "idle" /\ queue # <<>> /\ Head(queue) = "cleanup" /\ queue' = Tail(queue)
        /\ UNCHANGED <<timers, lost, gconn, obj, torn, reader, sync, stored, inUse, btPc>>
    BY <1>1 DEF DoCleanup, Take, AppFrame
  <2>2. /\ CommandsIn(queue') \subseteq CommandsIn(queue) /\ "cleanup" \in CommandsIn(queue)
        /\ CommandsIn(queue) = CommandsIn(queue') \cup {"cleanup"}
    BY <2>1, TakenCommands
  <2>3. gconn = 0 \/ Ended(gconn)
    BY <2>2 DEF Deleting
  <2>4. /\ btPc \notin {"delete", "null", "new", "start", "create"}
        /\ gconn # 0 => reader[gconn] \notin {"none", "starting", "loop", "hand"}
    BY <2>1, AppAtWork
  <2>5. /\ running' = running
        /\ \/ appPc' = appPc /\ appThis' = appThis /\ appThen' = appThen
           \/ appPc' = "delete" /\ appThis' = appThis /\ appThen' = appThen /\ gconn # 0
    <3>1. CASE gconn = 0 \/ StopsNothing
      BY <1>1, <3>1 DEF DoCleanup, Stops, Alive, StopsNothing
    <3>2. CASE gconn # 0 /\ Stops("delete")
      <4>1. /\ ~running[gconn] /\ gconn \in Conns /\ DOMAIN running = Conns
            /\ running' = Stopped
        BY <2>3, <3>2 DEF Ended, Stops
      <4>2. running[gconn] = FALSE
        BY <4>1
      <4>3. Stopped = running
        BY <4>1, <4>2 DEF Stopped
      <4>4. appPc' = "delete" /\ appThis' = appThis /\ appThen' = appThen
        BY <3>2, <4>1 DEF Stops, Goto
      <4> QED
        BY <3>2, <4>1, <4>3, <4>4
    <3> QED
      BY <1>1, <3>1, <3>2 DEF DoCleanup, AfterCleanup
  <2>6. Owned' /\ Stopping'
    BY <2>1, <2>4, <2>5 DEF Owned, Over, Stopping, InSend
  <2>7. Deleting'
    BY <2>1, <2>2, <2>3, <2>5 DEF Deleting, Ended
  <2>8. SettingUp' /\ Synced'
    BY <2>1, <2>4, <2>5 DEF SettingUp, Synced
  <2>9. Doomed'
    BY <2>1, <2>2, <2>5 DEF Doomed
  <2> QED
    BY <2>6, <2>7, <2>8, <2>9
<1>2. CASE DoRestart
  <2>1. /\ appPc = "idle" /\ queue # <<>> /\ queue' = Tail(queue)
        /\ UNCHANGED <<timers, lost, gconn, obj, torn, reader, sync, stored, inUse, btPc>>
        /\ (\E next \in {"idle", "server"} : Stops(next)) \/ StopsNothing
    BY <1>2 DEF DoRestart, Take, AppFrame
  <2>2. CASE \E next \in {"idle", "server"} : Stops(next)
    BY <2>1, <2>2, StopKeeps
  <2>3. CASE StopsNothing
    <3>1. UNCHANGED <<running, appPc, appThis, appThen>> /\ (gconn = 0 \/ ~running[gconn])
      BY <2>3 DEF StopsNothing, Alive, Owned
    <3>2. /\ btPc \notin {"delete", "null", "new", "start", "create"}
          /\ gconn # 0 => reader[gconn] \notin {"none", "starting", "loop", "hand"}
      BY <2>1, AppAtWork
    <3>3. CommandsIn(queue') \subseteq CommandsIn(queue)
      BY <2>1, TakenCommands
    <3>4. Owned' /\ Stopping' /\ Deleting'
      BY <2>1, <3>1, <3>2, <3>3 DEF Owned, Over, Stopping, Deleting, Ended
    <3>5. SettingUp' /\ Synced' /\ Doomed'
      BY <2>1, <3>1, <3>2 DEF SettingUp, Synced, Doomed
    <3> QED
      BY <3>4, <3>5
  <2> QED
    BY <2>1, <2>2, <2>3
<1>3. /\ Elsewhere = {"idle", "delay pass", "delay name", "set pass", "set name", "set other",
                       "server", "notice", "snapshot", "tell"}
      /\ InSend = {"notice", "snapshot", "tell"}
  BY DEF Elsewhere, AppPcs, InSend
<1>4. ASSUME NEW c, NEW at \in InSend, NEW next \in {"idle", "delay pass", "delay name"},
             Sends(c, at, next)
      PROVE  /\ appPc' \in {"notice", "snapshot", "tell", "idle", "delay pass", "delay name"}
             /\ appPc' \in InSend => appThen' \in {"idle", "delay pass", "delay name"}
  BY <1>3, <1>4 DEF Sends, Goto, Enter
<1>5. CASE DoSendAll \/ DoOther
  <2>1. /\ appPc = "idle" /\ queue # <<>> /\ queue' = Tail(queue) /\ Head(queue) \in {"send all", "other"}
        /\ UNCHANGED <<timers, lost, gconn, obj, running, torn, reader, sync, stored, inUse, btPc>>
    BY <1>5 DEF DoSendAll, DoOther, Take, AppFrame
  <2>2. /\ appPc' \in Elsewhere /\ appPc' # "set pass"
        /\ appPc' \in InSend => appThen' \in {"idle", "delay pass", "delay name"}
    <3>1. CASE DoSendAll
      BY <1>3, <1>4, <3>1 DEF DoSendAll
    <3>2. CASE DoOther
      BY <1>3, <3>2, Named DEF DoOther, Goto
    <3> QED
      BY <1>5, <3>1, <3>2
  <2>3. CommandsIn(timers') = CommandsIn(timers)
    BY <2>1 DEF CommandsIn
  <2> QED
    BY <1>3, <2>1, <2>2, <2>3, GoesOn
<1>6. ASSUME NEW s \in Settings, DoAnnounce(s) PROVE Inv'
  <2>1. /\ appPc = "idle" /\ queue # <<>> /\ queue' = Tail(queue) /\ Head(queue) = s
        /\ UNCHANGED <<timers, lost, gconn, obj, running, torn, reader, sync, stored, inUse, btPc>>
    BY <1>6 DEF DoAnnounce, Take, AppFrame
  <2>2. s \in {"pass", "name"} /\ Delaying[s] \in {"delay pass", "delay name"}
    BY Named DEF Settings
  <2>3. /\ appPc' \in Elsewhere /\ appPc' # "set pass"
        /\ appPc' \in InSend => appThen' \in {"idle", "delay pass", "delay name"}
    <3>1. CASE Sends(gconn, "notice", Delaying[s])
      <4>1. \/ appPc' = Delaying[s]
            \/ appPc' = "notice" /\ appThen' = Delaying[s]
        BY <3>1 DEF Sends, Goto, Enter
      <4> QED
        BY <1>3, <2>2, <4>1
    <3>2. CASE UNCHANGED appVars
      BY <1>3, <2>1, <3>2
    <3> QED
      BY <1>6, <3>1, <3>2 DEF DoAnnounce
  <2>4. CommandsIn(timers') = CommandsIn(timers)
    BY <2>1 DEF CommandsIn
  <2> QED
    BY <1>3, <2>1, <2>2, <2>3, <2>4, GoesOn
<1>7. ASSUME NEW s \in Settings, DoDelay(s) PROVE Inv'
  <2>1. /\ appPc = Delaying[s] /\ appPc' = Setting[s] /\ SendDelayed(Restart[s])
        /\ UNCHANGED <<queue, gconn, obj, running, torn, reader, sync, stored, inUse, btPc>>
    BY <1>7 DEF DoDelay, AppStep, AppFrame, Goto
  <2>2. s \in {"pass", "name"}
    BY DEF Settings
  <2>3. PICK cmd \in Commands : cmd = Restart[s]
    BY <2>2, Named DEF Commands
  <2>4. \/ timers' = Append(timers, cmd) /\ lost' = lost
        \/ timers' = timers /\ lost' = lost \cup {cmd}
    BY <2>1, <2>3 DEF SendDelayed
  <2>5. /\ CommandsIn(timers) \subseteq CommandsIn(timers') /\ lost \subseteq lost'
        /\ CommandsIn(timers') \subseteq CommandsIn(timers) \cup {cmd}
        /\ cmd \in CommandsIn(timers') \cup lost'
    <3>1. CommandsIn(Append(timers, cmd)) = CommandsIn(timers) \cup {cmd}
      BY Appended DEF Queues
    <3>2. CASE timers' = Append(timers, cmd) /\ lost' = lost
      <4>1. CommandsIn(timers') = CommandsIn(timers) \cup {cmd}
        BY <3>1, <3>2
      <4> QED
        BY <3>2, <4>1
    <3>3. CASE timers' = timers /\ lost' = lost \cup {cmd}
      <4>1. CommandsIn(timers') = CommandsIn(timers)
        BY <3>3 DEF CommandsIn
      <4> QED
        BY <3>3, <4>1
    <3> QED
      BY <2>4, <3>2, <3>3
  <2>6. CASE s = "pass"
    <3>1. cmd = "restart connection" /\ appPc = "delay pass" /\ appPc' = "set pass"
      BY <2>1, <2>3, <2>6, Named
    <3> QED
      BY <1>3, <2>1, <2>5, <3>1, GoesOn
  <2>7. CASE s = "name"
    <3>1. cmd = "restart server" /\ appPc = "delay name" /\ appPc' = "set name"
      BY <2>1, <2>3, <2>7, Named
    <3> QED
      BY <1>3, <2>1, <2>5, <3>1, GoesOn
  <2> QED
    BY <2>2, <2>6, <2>7
<1>8. ASSUME NEW s \in DOMAIN Setting, DoSet(s) PROVE Inv'
  <2>1. /\ appPc = Setting[s]
        /\ stored' = [x \in Settings |-> IF x = s THEN stored[x] + 1 ELSE stored[x]]
        /\ Sends(sync, "tell", "idle")
        /\ UNCHANGED <<queue, timers, lost, gconn, obj, running, torn, reader, sync, inUse, btPc>>
    BY <1>8 DEF DoSet, AppStep, AppFrame
  <2>2. s \in {"pass", "name", "other"} /\ "pass" \in Settings
    BY Named DEF Settings
  <2>3. s = "pass" => appPc = "set pass"
    BY <2>1, Named
  <2>4. s # "pass" => stored'["pass"] = stored["pass"]
    BY <2>1, <2>2
  <2>5. appPc \in {"set pass", "set name", "set other"}
    BY <2>1, <2>2, Named
  <2>6. /\ appPc' \in {"notice", "snapshot", "tell", "idle", "delay pass", "delay name"}
        /\ appPc' \in InSend => appThen' \in {"idle", "delay pass", "delay name"}
    BY <1>3, <1>4, <2>1
  <2>7. CommandsIn(timers') = CommandsIn(timers)
    BY <2>1 DEF CommandsIn
  <2> QED
    BY <1>3, <2>1, <2>3, <2>4, <2>5, <2>6, <2>7, GoesOn
<1>9. CASE AppSent
  <2>1. /\ appPc \in InSend
        /\ UNCHANGED <<queue, timers, lost, gconn, obj, running, torn, reader, sync, stored, inUse, btPc>>
        /\ Leave \/ Enter("snapshot", sync, "idle")
    BY <1>9 DEF AppSent, AppStep, AppFrame
  <2>2. appThen \in {"idle", "delay pass", "delay name"}
    BY <2>1 DEF Stopping
  <2>3. /\ appPc' \in {"snapshot", "idle", "delay pass", "delay name"}
        /\ appThen' = "idle"
    BY <2>1, <2>2 DEF Leave, Enter
  <2>4. CommandsIn(timers') = CommandsIn(timers)
    BY <2>1 DEF CommandsIn
  <2> QED
    BY <1>3, <2>1, <2>3, <2>4, GoesOn
<1>10. CASE AppTears
  <2>1. /\ appPc = "tear" /\ appPc' = "announce" /\ torn' = [torn EXCEPT ![appThis] = TRUE]
        /\ UNCHANGED <<queue, timers, lost, gconn, obj, running, reader, sync, stored,
                       inUse, btPc, appThis, appThen>>
    BY <1>10 DEF AppTears, AppStep, AppFrame, Goto
  <2>2. appThis = gconn /\ gconn \in Conns
    BY <2>1 DEF Stopping
  <2>3. torn'[gconn] /\ \A c \in Conns \ {gconn} : torn'[c] = torn[c]
    BY <2>1, <2>2
  <2>4. /\ btPc \notin {"delete", "null", "new", "start", "create"}
        /\ gconn # 0 => reader[gconn] \notin {"none", "starting", "loop", "hand"}
    BY <2>1, AppAtWork
  <2>5. Owned' /\ Stopping'
    BY <2>1, <2>2, <2>3, <2>4 DEF Owned, Over, Stopping, InSend
  <2>6. Deleting'
    BY <2>1, <2>2, <2>3 DEF Deleting, Ended
  <2>7. SettingUp' /\ Synced' /\ Doomed'
    BY <2>1, <2>4 DEF SettingUp, Synced, Doomed
  <2> QED
    BY <2>5, <2>6, <2>7
<1>11. CASE AppAnnounces
  <2>1. /\ appPc = "announce" /\ appPc' = appThen /\ sync' = 0 /\ Post("cleanup")
        /\ UNCHANGED <<timers, gconn, obj, running, torn, reader, stored,
                       inUse, btPc>>
    BY <1>11 DEF AppAnnounces, AppStep, AppFrame, CloseCallback, SyncRemoved, Leave
  <2>2. /\ appThis = gconn /\ gconn \in Conns /\ obj[gconn] = "live" /\ Ended(gconn)
        /\ appThen \in {"idle", "server", "delete"}
    BY <2>1 DEF Stopping, Ended
  <2>3. lost \subseteq lost' /\ CommandsIn(queue) \subseteq CommandsIn(queue')
    BY <2>1, <2>2, KnownCommands, Posted
  <2>4. /\ btPc \notin {"delete", "null", "new", "start", "create"}
        /\ gconn # 0 => reader[gconn] \notin {"none", "starting", "loop", "hand"}
    BY <2>1, AppAtWork
  <2>5. Owned' /\ Stopping'
    BY <2>1, <2>2, <2>4 DEF Owned, Over, Stopping, InSend
  <2>6. Deleting'
    BY <2>1, <2>2 DEF Deleting, Ended
  <2>7. SettingUp' /\ Synced'
    BY <2>1, <2>4 DEF SettingUp, Synced
  <2>8. Doomed'
    BY <2>1, <2>2, <2>3 DEF Doomed, Ended
  <2> QED
    BY <2>5, <2>6, <2>7, <2>8
<1>12. CASE AppDeletes
  <2>1. /\ appPc = "delete" /\ appPc' = "null"
        /\ obj' = (IF gconn = 0 THEN obj ELSE [obj EXCEPT ![gconn] = "deleted"])
        /\ UNCHANGED <<queue, timers, lost, gconn, running, torn, reader, sync, stored,
                       inUse, btPc, appThis, appThen>>
    BY <1>12 DEF AppDeletes, AppStep, AppFrame, Delete, Goto
  <2>2. gconn = 0 \/ Ended(gconn)
    BY <2>1 DEF Deleting
  <2>3. /\ btPc \notin {"delete", "null", "new", "start", "create"}
        /\ gconn # 0 => reader[gconn] \notin {"none", "starting", "loop", "hand"}
    BY <2>1, AppAtWork
  <2>4. (gconn # 0 => obj'[gconn] = "deleted") /\ \A c \in Conns \ {gconn} : obj'[c] = obj[c]
    BY <2>1
  <2>5. Owned' /\ Stopping'
    BY <2>1, <2>2, <2>3, <2>4 DEF Owned, Over, Stopping, InSend, Ended
  <2>6. Deleting'
    BY <2>1, <2>2, <2>4 DEF Deleting, Ended
  <2>7. SettingUp' /\ Synced' /\ Doomed'
    BY <2>1, <2>2, <2>3, <2>4 DEF SettingUp, Synced, Doomed, Ended
  <2> QED
    BY <2>5, <2>6, <2>7
<1>13. CASE AppNulls
  <2>1. /\ appPc = "null" /\ appPc' = "idle" /\ gconn' = 0
        /\ UNCHANGED <<queue, timers, lost, obj, running, torn, reader, sync, stored,
                       inUse, btPc, appThis, appThen>>
    BY <1>13 DEF AppNulls, AppStep, AppFrame, Goto
  <2>2. gconn = 0 \/ (Ended(gconn) /\ obj[gconn] = "deleted")
    BY <2>1 DEF Deleting
  <2>3. \A c \in Conns : Over(c)
    BY <2>2 DEF Owned, Over, Ended
  <2>4. btPc \notin {"delete", "null", "new", "start", "create"}
    BY <2>1, AppAtWork
  <2>5. Owned' /\ Stopping' /\ Deleting'
    BY <2>1, <2>3 DEF Owned, Over, Stopping, InSend, Deleting
  <2>6. SettingUp' /\ Synced' /\ Doomed'
    BY <2>1, <2>2, <2>4 DEF SettingUp, Synced, Doomed
  <2> QED
    BY <2>5, <2>6
<1>14. CASE AppRestartsServer
  <2>1. /\ appPc = "server" /\ appPc' = "idle" /\ lost \subseteq lost'
        /\ UNCHANGED <<queue, timers, gconn, obj, running, torn, reader, sync, stored, inUse, btPc>>
    BY <1>14 DEF AppRestartsServer, AppStep, AppFrame, Goto
  <2>2. CommandsIn(timers') = CommandsIn(timers)
    BY <2>1 DEF CommandsIn
  <2> QED
    BY <1>3, <2>1, <2>2, GoesOn
<1> QED
  BY <1>1, <1>2, <1>5, <1>6, <1>8, <1>10, <1>11, <1>12, <1>13, <1>14, <1>7, <1>9 DEF AppTask

\* A delayed command comes to the queue, or is lost.
LEMMA StepTimer ==
    ASSUME Shape, Queues, Inv, patient, TimerFires
    PROVE  Inv'
<1> USE NoConn DEF Inv, Shape, connVars, appVars, setVars, taskVars
<1>1. /\ timers # <<>> /\ timers' = Tail(timers) /\ Post(Head(timers))
      /\ UNCHANGED <<gconn, obj, running, torn, reader, sync, stored,
                     inUse, btPc, appPc, appThis, appThen>>
  BY DEF TimerFires
<1>2. Head(timers) \in Commands /\ CommandsIn(timers) = CommandsIn(timers') \cup {Head(timers)}
  BY <1>1, Taken DEF Queues
<1>3. /\ CommandsIn(queue') \subseteq CommandsIn(queue) \cup {Head(timers)}
      /\ CommandsIn(queue) \subseteq CommandsIn(queue') /\ lost \subseteq lost'
      /\ Head(timers) \in Awaited => Head(timers) \in CommandsIn(queue') \cup lost'
  BY <1>1, <1>2, Posted
<1>4. Head(timers) # "cleanup"
  BY <1>2 DEF Deleting
<1>5. ~Silent
  BY <1>1 DEF Silent
<1>6. Owned'
  BY <1>1, <1>5 DEF Owned, Over
<1>7. Stopping' /\ Synced'
  BY <1>1 DEF Stopping, Synced
<1>8. Deleting'
  BY <1>1, <1>2, <1>3, <1>4 DEF Deleting, Ended
<1>9. SettingUp'
  BY <1>1, <1>5 DEF SettingUp
<1>10. Doomed'
  <2>1. "restart connection" \in Awaited
    BY KnownCommands
  <2> QED
    BY <1>1, <1>2, <1>3, <2>1 DEF Doomed
<1> QED
  BY <1>6, <1>7, <1>8, <1>9, <1>10

\* Every step preserves the invariant.
LEMMA StepInv == Shape /\ Queues /\ (patient => Inv) /\ [Next]_vars => (patient' => Inv')
<1> SUFFICES ASSUME Shape, Queues, patient => Inv, [Next]_vars, patient' PROVE Inv'
  OBVIOUS
<1>1. patient' = patient
  BY DEF Next, Works, vars
<1>2. CASE LinkOpens \/ SetupConnection
  BY <1>1, <1>2, StepSetup
<1>3. ASSUME NEW c \in Conns,
             ReadHandshake(c) \/ ReadData(c) \/ ReadLeaves(c) \/ ReadProceeds(c)
      PROVE  Inv'
  BY <1>1, <1>3, StepRead
<1>4. CASE AppTask \/ AppSent
  BY <1>1, <1>4, StepApp
<1>5. CASE TimerFires
  BY <1>1, <1>5, StepTimer
<1>6. CASE SensorWaits \/ SensorSent \/ Console \/ StrayTouch \/ UNCHANGED vars
  <2>1. /\ UNCHANGED <<queue, timers, gconn, connVars, sync, stored, inUse, appVars, btPc>>
        /\ lost' = lost
    BY <1>6 DEF SensorWaits, SensorSent, SensorFrame, Console, StrayTouch, vars, queueVars, setVars, taskVars
  <2> QED
    BY <1>1, <2>1, Untouched
<1> QED
  BY <1>2, <1>3, <1>4, <1>5, <1>6 DEF Next

\* The invariant holds in every reachable state, for patient clients.
LEMMA Invariant == Spec => [](patient => Inv)
<1>1. Init => Inv
  <2> SUFFICES ASSUME Init PROVE Inv
    OBVIOUS
  <2>1. Owned /\ Stopping /\ Synced /\ Doomed
    BY DEF Init, Owned, Over, Stopping, InStop, InSend, Synced, Doomed
  <2>2. Deleting /\ SettingUp
    BY NoCommands DEF Init, Deleting, SettingUp
  <2> QED
    BY <2>1, <2>2 DEF Inv
<1> QED
  BY <1>1, StepInv, Typed, PTL DEF Spec

\* Whoever deletes a connection, the send task has left it, unless start() failed.
THEOREM SendTaskGoneHolds == Spec => []SendTaskGone
<1>1. Shape /\ (patient => Inv) => SendTaskGone
  <2> SUFFICES ASSUME Shape, patient, Inv, NEW c \in Conns, obj[c] = "deleted"
               PROVE  torn[c] \/ reader[c] = "failed"
    BY DEF SendTaskGone
  <2>1. CASE c # gconn
    BY <2>1 DEF Inv, Owned, Over
  <2>2. CASE c = gconn
    BY <2>2, NoConn DEF Inv, Deleting, SettingUp, Ended
  <2> QED
    BY <2>1, <2>2
<1> QED
  BY Typed, Invariant, <1>1, PTL

\* parameterSync never holds a deleted connection.
THEOREM SyncIsLiveHolds == Spec => []SyncIsLive
<1>1. (patient => Inv) => SyncIsLive
  BY DEF Inv, Synced, SyncIsLive
<1> QED
  BY Invariant, <1>1, PTL

\* A connection that lives is that of g_conn.
THEOREM NoneForgottenHolds == Spec => []NoneForgotten
<1>1. (patient => Inv) => NoneForgotten
  BY DEF Inv, Owned, Over, NoneForgotten
<1> QED
  BY Invariant, <1>1, PTL

\* A connection with an old passphrase has its restart on the way, or lost.
THEOREM OldPassphraseIsDoomedHolds == Spec => []OldPassphraseIsDoomed
<1>1. (patient => Inv) => OldPassphraseIsDoomed
  <2> SUFFICES ASSUME Inv, NEW c \in Conns, running[c], inUse[c] # stored["pass"]
               PROVE  OnItsWay("restart connection") \/ "restart connection" \in lost
    BY Named DEF OldPassphraseIsDoomed, Outdated
  <2>1. c = gconn
    BY DEF Inv, Owned, Over
  <2>2. "restart connection" \in CommandsIn(timers) \cup CommandsIn(queue) \cup lost
    BY <2>1, NoConn DEF Inv, Doomed
  <2> QED
    BY <2>2 DEF CommandsIn, OnItsWay
<1> QED
  BY Invariant, <1>1, PTL

-----------------------------------------------------------------------------
(* The connections as FdConnection has them.                               *)

\* Nothing is torn down before its end has begun.
Fresh(c) ==
    \/ running[c]
    \/ "tear" \in {LifeReader(c), LifeOwner(c)}
    \/ LifeReader(c) \in {"none", "starting"}
    => ~torn[c]

\* The close callback has been called before and after a step, or neither.
LEMMA SameFlag ==
    ASSUME NEW c \in Conns, CloseCalled(c)' <=> CloseCalled(c)
    PROVE  CloseCalled(c)' = CloseCalled(c)
BY DEF CloseCalled

\* What of the state is behind the life of a connection.
LEMMA Lives ==
    ASSUME Shape, Shape', NEW c \in Conns,
           reader'[c] = reader[c], running'[c] = running[c], torn'[c] = torn[c],
           LifeOwner(c)' = LifeOwner(c)
    PROVE  UNCHANGED Life(c)!vars
<1>1. LifeReader(c)' = LifeReader(c)
  BY DEF LifeReader
<1>2. CloseCalled(c)' <=> CloseCalled(c)
  BY DEF CloseCalled
<1>3. CloseCalled(c)' = CloseCalled(c)
  BY <1>2, SameFlag
<1> QED
  BY <1>1, <1>3, Zenon DEF Life!vars

\* appTask comes to no stop(), leaves none, or is in that of another connection.
LEMMA OwnerStays ==
    ASSUME NEW c \in Conns,
           \/ UNCHANGED <<appPc, appThis>>
           \/ appPc \notin InStop /\ appPc' \notin InStop
           \/ appThis # c /\ appThis' # c
    PROVE  LifeOwner(c)' = LifeOwner(c)
BY DEF LifeOwner

\* setupConnection() starts a connection, or touches none.
LEMMA SetupLife ==
    ASSUME Shape, Shape', Inv, patient, NEW c \in Conns, Fresh(c), LinkOpens \/ SetupConnection
    PROVE  [Life(c)!Next]_(Life(c)!vars)
<1> USE DEF Shape, connVars, appVars
<1>1. LifeOwner(c)' = LifeOwner(c)
  <2>1. UNCHANGED <<appPc, appThis>>
    BY DEF LinkOpens, SetupConnection, BtDeletes, BtNulls, BtCreates, BtStarts,
           BtStartsNothing, BtStarted, BtStartFails, BtStep
  <2> QED
    BY <2>1, OwnerStays
<1>2. UNCHANGED torn
  BY DEF LinkOpens, SetupConnection, BtDeletes, BtNulls, BtCreates, BtStarts,
         BtStartsNothing, BtStarted, BtStartFails, BtStep
<1>3. CASE reader'[c] = reader[c] /\ running'[c] = running[c]
  BY <1>1, <1>2, <1>3, Lives
<1>4. CASE LinkOpens \/ BtDeletes \/ BtNulls \/ BtCreates \/ BtStartsNothing
  BY <1>3, <1>4 DEF LinkOpens, BtDeletes, BtNulls, BtCreates, BtStartsNothing
<1>5. CASE BtStarts
  <2>1. /\ btPc = "start" /\ gconn \in Conns /\ reader[gconn] = "none"
        /\ running' = [running EXCEPT ![gconn] = TRUE]
        /\ reader' = [reader EXCEPT ![gconn] = "starting"]
    BY <1>5, NoConn DEF BtStarts, BtStep, Inv, SettingUp
  <2>2. CASE c # gconn
    BY <1>3, <2>1, <2>2
  <2>3. CASE c = gconn
    <3>1. LifeReader(c) = "none" /\ LifeReader(c)' = "starting" /\ running'[c] = TRUE
      BY <2>1, <2>3 DEF LifeReader
    <3>2. ~CloseCalled(c) /\ ~CloseCalled(c)'
      BY <1>2, <2>1, <2>3 DEF CloseCalled, Fresh, LifeReader
    <3>3. CloseCalled(c)' = CloseCalled(c)
      BY <3>2, SameFlag
    <3> QED
      BY <1>1, <1>2, <3>1, <3>3, Zenon DEF Life!Next, Life!Start
  <2> QED
    BY <2>2, <2>3
<1>6. CASE BtStarted
  <2>1. PICK d \in Conns : reader[d] = "starting" /\ reader' = [reader EXCEPT ![d] = "loop"]
    BY <1>6 DEF BtStarted
  <2>2. running' = running
    BY <1>6 DEF BtStarted
  <2>3. CASE c # d
    BY <1>3, <2>1, <2>2, <2>3
  <2>4. CASE c = d
    <3>1. LifeReader(c) = "starting" /\ LifeReader(c)' = "loop"
      BY <2>1, <2>4 DEF LifeReader
    <3>2. ~CloseCalled(c) /\ ~CloseCalled(c)'
      BY <1>2, <2>1, <2>4 DEF CloseCalled, Fresh, LifeReader
    <3>3. CloseCalled(c)' = CloseCalled(c)
      BY <3>2, SameFlag
    <3> QED
      BY <1>1, <1>2, <2>2, <3>1, <3>3, Zenon DEF Life!Next, Life!StartReturns
  <2> QED
    BY <2>3, <2>4
<1>7. CASE BtStartFails
  <2>1. PICK d \in Conns : /\ reader[d] = "starting" /\ reader' = [reader EXCEPT ![d] = "failed"]
                           /\ running' = [running EXCEPT ![d] = FALSE]
    BY <1>7 DEF BtStartFails
  <2>2. CASE c # d
    BY <1>3, <2>1, <2>2
  <2>3. CASE c = d
    <3>1. LifeReader(c) = "starting" /\ LifeReader(c)' = "failed" /\ running'[c] = FALSE
      BY <2>1, <2>3 DEF LifeReader
    <3>2. CloseCalled(c)' = TRUE
      BY <2>1, <2>3 DEF CloseCalled
    <3> QED
      BY <1>1, <1>2, <3>1, <3>2, Zenon DEF Life!Next, Life!StartFails
  <2> QED
    BY <2>2, <2>3
<1> QED
  BY <1>4, <1>5, <1>6, <1>7 DEF SetupConnection

\* The read task of a connection goes through its life.
LEMMA ReadLife ==
    ASSUME Shape, Shape', Inv, patient, NEW c \in Conns, Fresh(c), NEW d \in Conns,
           ReadHandshake(d) \/ ReadData(d) \/ ReadLeaves(d) \/ ReadProceeds(d)
    PROVE  [Life(c)!Next]_(Life(c)!vars)
<1> USE DEF Shape, connVars, appVars
<1>1. LifeOwner(c)' = LifeOwner(c)
  <2>1. UNCHANGED <<appPc, appThis>>
    BY DEF ReadHandshake, ReadData, ReadLeaves, ReadProceeds, ReadReady, ReadTears,
           ReadAnnounces, ReadEnds, ReadStep
  <2> QED
    BY <2>1, OwnerStays
<1>2. CASE c # d
  <2>1. /\ \E to : reader' = [reader EXCEPT ![d] = to]
        /\ running' \in {running, [running EXCEPT ![d] = FALSE]}
        /\ torn' \in {torn, [torn EXCEPT ![d] = TRUE]}
    <3>1. CASE ReadHandshake(d) \/ ReadData(d) \/ ReadEnds(d)
      BY <3>1 DEF ReadHandshake, ReadData, ReadEnds, ReadStep
    <3>2. CASE ReadReady(d) \/ ReadAnnounces(d)
      BY <3>2 DEF ReadReady, ReadAnnounces, ReadStep
    <3>3. CASE ReadLeaves(d)
      BY <3>3 DEF ReadLeaves, ReadStep
    <3>4. CASE ReadTears(d)
      BY <3>4 DEF ReadTears, ReadStep
    <3> QED
      BY <3>1, <3>2, <3>3, <3>4 DEF ReadProceeds
  <2>2. reader'[c] = reader[c]
    BY <1>2, <2>1
  <2>3. running'[c] = running[c]
    BY <1>2, <2>1
  <2>4. torn'[c] = torn[c]
    BY <1>2, <2>1
  <2> QED
    BY <1>1, <2>2, <2>3, <2>4, Lives
<1>3. CASE c = d /\ (ReadHandshake(c) \/ ReadData(c))
  <2>1. LifeReader(c)' = LifeReader(c) /\ UNCHANGED <<running, torn>>
    BY <1>3 DEF ReadHandshake, ReadData, ReadStep, LifeReader
  <2>2. CloseCalled(c)' <=> CloseCalled(c)
    BY <1>1, <1>3 DEF ReadHandshake, ReadData, ReadStep, CloseCalled
  <2>3. CloseCalled(c)' = CloseCalled(c)
    BY <2>2, SameFlag
  <2> QED
    BY <1>1, <2>1, <2>3, Zenon DEF Life!vars
<1>4. CASE c = d /\ ReadReady(c)
  <2>1. LifeReader(c) = "loop" /\ LifeReader(c)' = "open" /\ UNCHANGED <<running, torn>>
    BY <1>4 DEF ReadReady, ReadStep, LifeReader
  <2>2. CloseCalled(c)' <=> CloseCalled(c)
    BY <1>1, <1>4 DEF ReadReady, ReadStep, CloseCalled
  <2>3. CloseCalled(c)' = CloseCalled(c)
    BY <2>2, SameFlag
  <2> QED
    BY <1>1, <2>1, <2>3, Zenon DEF Life!Next, Life!Ready
<1>5. CASE c = d /\ ReadLeaves(c)
  <2>1. /\ reader[c] \in {"loop", "open"} /\ running'[c] = FALSE /\ torn' = torn
        /\ reader'[c] = IF running[c] THEN "tear" ELSE "tail"
    BY <1>5 DEF ReadLeaves, ReadStep, ToTeardown
  <2>2. LifeReader(c) \in {"loop", "open"} /\ LifeReader(c)' = IF running[c] THEN "tear" ELSE "tail"
    BY <2>1 DEF LifeReader
  <2>3. CloseCalled(c)' <=> CloseCalled(c)
    BY <1>1, <2>1 DEF CloseCalled
  <2>4. CloseCalled(c)' = CloseCalled(c)
    BY <2>3, SameFlag
  <2> QED
    BY <1>1, <2>1, <2>2, <2>4, Zenon DEF Life!Next, Life!ReaderStops
<1>6. CASE c = d /\ ReadTears(c)
  <2>1. /\ reader[c] = "tear" /\ reader'[c] = "announce"
        /\ running' = running /\ torn'[c] = TRUE
    BY <1>6 DEF ReadTears, ReadStep
  <2>2. LifeReader(c) = "tear" /\ LifeReader(c)' = "announce"
    BY <2>1 DEF LifeReader
  <2>3. ~CloseCalled(c) /\ ~CloseCalled(c)'
    BY <2>1 DEF CloseCalled, Fresh, LifeReader
  <2>4. CloseCalled(c)' = CloseCalled(c)
    BY <2>3, SameFlag
  <2> QED
    BY <1>1, <2>1, <2>2, <2>4, Zenon DEF Life!Next, Life!TornDown, Life!ReaderGoes
<1>7. CASE c = d /\ ReadAnnounces(c)
  <2>1. /\ reader[c] = "announce" /\ reader'[c] = "tail"
        /\ running' = running /\ torn' = torn
    BY <1>7 DEF ReadAnnounces, ReadStep
  <2>2. LifeReader(c) = "announce" /\ LifeReader(c)' = "tail"
    BY <2>1 DEF LifeReader
  <2>3. c = gconn /\ appPc \notin InStop
    BY <2>1, NoConn DEF Inv, Owned, Over, Stopping
  <2>4. torn[c] /\ LifeOwner(c) = "idle"
    BY <2>1, <2>3, NoConn DEF Inv, Owned, LifeOwner, InStop
  <2>5. CloseCalled(c)' = TRUE
    BY <1>1, <2>1, <2>4 DEF CloseCalled
  <2> QED
    BY <1>1, <2>1, <2>2, <2>5, Zenon DEF Life!Next, Life!Announced, Life!ReaderGoes
<1>8. CASE c = d /\ ReadEnds(c)
  <2>1. LifeReader(c) = "tail" /\ LifeReader(c)' = "gone" /\ UNCHANGED <<running, torn>>
    BY <1>8 DEF ReadEnds, ReadStep, LifeReader
  <2>2. CloseCalled(c)' <=> CloseCalled(c)
    BY <1>1, <1>8 DEF ReadEnds, ReadStep, CloseCalled
  <2>3. CloseCalled(c)' = CloseCalled(c)
    BY <2>2, SameFlag
  <2> QED
    BY <1>1, <2>1, <2>3, Zenon DEF Life!Next, Life!ReaderEnds, Life!ReaderGoes
<1> QED
  BY <1>2, <1>3, <1>4, <1>5, <1>6, <1>7, <1>8 DEF ReadProceeds
\* appTask's g_conn->stop(), as far as it comes at once.
LEMMA StopsLife ==
    ASSUME Shape, Shape', Inv, patient, NEW c \in Conns, Fresh(c),
           appPc = "idle", queue # <<>>, NEW next \in {"idle", "server", "delete"}, Stops(next),
           UNCHANGED <<torn, reader>>
    PROVE  [Life(c)!Next]_(Life(c)!vars)
<1> USE DEF Shape, InStop
<1>1. /\ gconn \in Conns /\ running' = [running EXCEPT ![gconn] = FALSE]
      /\ appPc' = (IF running[gconn] THEN "tear" ELSE next)
      /\ running[gconn] => appThis' = gconn
  BY NoConn DEF Stops, Alive, Stopped, Enter, Goto
<1>2. CASE c # gconn
  <2>1. LifeOwner(c)' = LifeOwner(c)
    BY <1>1, <1>2 DEF LifeOwner
  <2> QED
    BY <1>1, <1>2, <2>1, Lives
<1>3. CASE c = gconn /\ ~running[c]
  <2>1. LifeOwner(c)' = LifeOwner(c)
    BY <1>1, <1>3, OwnerStays
  <2> QED
    BY <1>1, <1>3, <2>1, Lives
<1>4. CASE c = gconn /\ running[c]
  <2>1. reader[c] = "open"
    BY <1>4, AppAtWork, NoConn DEF Inv, Owned
  <2>2. LifeReader(c) = "open" /\ LifeReader(c)' = LifeReader(c)
    BY <2>1 DEF LifeReader
  <2>3. LifeOwner(c)' = "tear" /\ running'[c] = FALSE /\ torn' = torn
    BY <1>1, <1>4 DEF LifeOwner
  <2>4. CloseCalled(c)' <=> CloseCalled(c)
    BY <1>4, <2>1, <2>3 DEF CloseCalled, Fresh, LifeReader
  <2>5. CloseCalled(c)' = CloseCalled(c)
    BY <2>4, SameFlag
  <2> QED
    BY <1>4, <2>2, <2>3, <2>5, Zenon DEF Life!Next, Life!OwnerStops
<1> QED
  BY <1>2, <1>3, <1>4

\* appTask takes a connection down, or is at something else.
LEMMA AppLife ==
    ASSUME Shape, Shape', Inv, patient, NEW c \in Conns, Fresh(c), AppTask \/ AppSent
    PROVE  [Life(c)!Next]_(Life(c)!vars)
<1> USE DEF Shape
<1>1. reader' = reader
  BY DEF AppTask, AppSent, DoCleanup, DoRestart, DoSendAll, DoOther, DoAnnounce, DoDelay, DoSet,
         AppTears, AppAnnounces, AppDeletes, AppNulls, AppRestartsServer, Take, AppStep, AppFrame
<1>2. ASSUME UNCHANGED <<running, torn>>,
             \/ UNCHANGED <<appPc, appThis>>
             \/ appPc \notin InStop /\ appPc' \notin InStop
             \/ appThis # c /\ appThis' # c
      PROVE  UNCHANGED Life(c)!vars
  BY <1>1, <1>2, OwnerStays, Lives
<1>3. CASE DoCleanup \/ DoRestart
  <2>1. /\ appPc = "idle" /\ queue # <<>> /\ torn' = torn
        /\ \/ \E next \in {"idle", "server", "delete"} : Stops(next)
           \/ UNCHANGED <<running, appVars>>
    BY <1>3 DEF DoCleanup, DoRestart, Take, StopsNothing, AfterCleanup
  <2>2. CASE \E next \in {"idle", "server", "delete"} : Stops(next)
    BY <1>1, <2>1, <2>2, StopsLife
  <2>3. CASE UNCHANGED <<running, appVars>>
    BY <1>2, <2>1, <2>3 DEF appVars
  <2> QED
    BY <2>1, <2>2, <2>3
<1>4. CASE DoSendAll \/ DoOther \/ \E s \in DOMAIN Setting : DoSet(s)
  <2>1. /\ UNCHANGED <<running, torn>>
        /\ appPc \in {"idle", "set pass", "set name", "set other"}
        /\ appPc' \in {"snapshot", "tell", "idle", "set other"}
    <3>1. CASE DoSendAll
      BY <3>1 DEF DoSendAll, Take, Sends, Goto, Enter
    <3>2. CASE DoOther
      BY <3>2, Named DEF DoOther, Take, Goto
    <3>3. ASSUME NEW s \in DOMAIN Setting, DoSet(s)
          PROVE  /\ UNCHANGED <<running, torn>>
                 /\ appPc = Setting[s]
                 /\ appPc' \in {"tell", "idle"}
      BY <3>3 DEF DoSet, AppStep, Sends, Goto, Enter
    <3>4. \A s \in DOMAIN Setting : Setting[s] \in {"set pass", "set name", "set other"}
      BY Named
    <3> QED
      BY <1>4, <3>1, <3>2, <3>3, <3>4
  <2> QED
    BY <1>2, <2>1 DEF InStop
<1>5. ASSUME NEW s \in Settings, DoAnnounce(s) \/ DoDelay(s) PROVE UNCHANGED Life(c)!vars
  <2>1. /\ Delaying[s] \in {"delay pass", "delay name"}
        /\ Setting[s] \in {"set pass", "set name"}
    BY Named DEF Settings
  <2>2. UNCHANGED <<running, torn>>
    BY <1>5 DEF DoAnnounce, DoDelay, AppStep
  <2>3. CASE DoAnnounce(s)
    <3>1. appPc = "idle" /\ appPc' \in {"idle", "notice", Delaying[s]}
      BY <2>3 DEF DoAnnounce, Take, Sends, Goto, Enter, appVars
    <3> QED
      BY <1>2, <2>1, <2>2, <3>1 DEF InStop
  <2>4. CASE DoDelay(s)
    <3>1. appPc = Delaying[s] /\ appPc' = Setting[s]
      BY <2>4 DEF DoDelay, AppStep, Goto
    <3> QED
      BY <1>2, <2>1, <2>2, <3>1 DEF InStop
  <2> QED
    BY <1>5, <2>3, <2>4
<1>6. CASE AppSent
  <2>1. /\ UNCHANGED <<running, torn>> /\ appPc \in InSend
        /\ appPc' \in {appThen, "snapshot"}
    BY <1>6 DEF AppSent, AppStep, Leave, Enter
  <2>2. appThen \in {"idle", "delay pass", "delay name"}
    BY <2>1 DEF Inv, Stopping
  <2> QED
    BY <1>2, <2>1, <2>2 DEF InStop, InSend
<1>7. CASE AppDeletes \/ AppNulls \/ AppRestartsServer
  <2>1. /\ UNCHANGED <<running, torn>> /\ appPc \in {"delete", "null", "server"}
        /\ appPc' \in {"null", "idle"}
    BY <1>7 DEF AppDeletes, AppNulls, AppRestartsServer, AppStep, Goto
  <2> QED
    BY <1>2, <2>1 DEF InStop
<1>8. CASE (AppTears \/ AppAnnounces) /\ appThis # c
  <2>1. running' = running /\ appThis' \in {appThis, 0} /\ torn'[c] = torn[c]
    BY <1>8 DEF AppTears, AppAnnounces, AppStep, Leave
  <2>2. LifeOwner(c)' = LifeOwner(c)
    BY <1>8, <2>1, NoConn, OwnerStays
  <2> QED
    BY <1>1, <2>1, <2>2, Lives
<1>9. CASE AppTears /\ appThis = c
  <2>1. /\ appPc = "tear" /\ appPc' = "announce" /\ appThis' = c
        /\ torn'[c] = TRUE /\ running' = running
    BY <1>9 DEF AppTears, AppStep
  <2>2. LifeReader(c)' = LifeReader(c)
    BY <1>1 DEF LifeReader
  <2>3. LifeOwner(c) = "tear" /\ LifeOwner(c)' = "announce"
    BY <1>9, <2>1 DEF LifeOwner, InStop
  <2>4. reader[c] # "failed"
    BY <1>9, <2>1 DEF Inv, Stopping, InStop
  <2>5. ~CloseCalled(c) /\ ~CloseCalled(c)'
    BY <1>1, <2>3, <2>4 DEF CloseCalled, Fresh, LifeReader
  <2>6. CloseCalled(c)' = CloseCalled(c)
    BY <2>5, SameFlag
  <2> QED
    BY <2>1, <2>2, <2>3, <2>6, Zenon DEF Life!Next, Life!TornDown, Life!OwnerGoes
<1>10. CASE AppAnnounces /\ appThis = c
  <2>1. /\ appPc = "announce" /\ appPc' = appThen /\ UNCHANGED <<running, torn>>
    BY <1>10 DEF AppAnnounces, AppStep, Leave
  <2>2. /\ appThen \notin InStop /\ torn[c] /\ reader[c] # "announce"
    BY <1>10, <2>1 DEF Inv, Stopping, InStop
  <2>3. LifeReader(c)' = LifeReader(c)
    BY <1>1 DEF LifeReader
  <2>4. LifeOwner(c) = "announce" /\ LifeOwner(c)' = "idle"
    BY <1>10, <2>1, <2>2 DEF LifeOwner, InStop
  <2>5. CloseCalled(c)' = TRUE
    BY <1>1, <2>1, <2>2, <2>4 DEF CloseCalled
  <2> QED
    BY <2>1, <2>3, <2>4, <2>5, Zenon DEF Life!Next, Life!Announced, Life!OwnerGoes
<1> QED
  BY <1>3, <1>4, <1>7, <1>8, <1>9, <1>10, <1>5, <1>6 DEF AppTask

\* Every step is one of the connection's life, or none.
LEMMA StepLife ==
    ASSUME Shape, Shape', Inv, patient, NEW c \in Conns, Fresh(c), [Next]_vars
    PROVE  [Life(c)!Next]_(Life(c)!vars)
<1>1. CASE LinkOpens \/ SetupConnection
  BY <1>1, SetupLife
<1>2. ASSUME NEW d \in Conns,
             ReadHandshake(d) \/ ReadData(d) \/ ReadLeaves(d) \/ ReadProceeds(d)
      PROVE  [Life(c)!Next]_(Life(c)!vars)
  BY <1>2, ReadLife
<1>3. CASE AppTask \/ AppSent
  BY <1>3, AppLife
<1>4. CASE SensorWaits \/ SensorSent \/ TimerFires \/ Console \/ StrayTouch \/ UNCHANGED vars
  <2>1. UNCHANGED <<running, torn, reader, appPc, appThis>>
    BY <1>4 DEF SensorWaits, SensorSent, SensorFrame, TimerFires, Console, StrayTouch, vars, connVars, appVars
  <2> QED
    BY <2>1, OwnerStays, Lives
<1> QED
  BY <1>1, <1>2, <1>3, <1>4 DEF Next

\* The invariant promises what ConnectionLife does.
LEMMA EndsOnce ==
    ASSUME Shape, Inv, NEW c \in Conns, Fresh(c)
    PROVE  /\ Life(c)!OneEnd
           /\ LifeOwner(c) \in InStop => LifeReader(c) \notin {"none", "starting"}
<1> USE NoConn DEF Shape
<1>1. /\ LifeReader(c) = IF reader[c] = "hand" THEN "loop" ELSE reader[c]
      /\ LifeOwner(c) \in InStop => c = gconn /\ appPc = LifeOwner(c)
      /\ LifeOwner(c) \in InStop \cup {"idle"}
      /\ appPc \in InStop /\ c = gconn => LifeOwner(c) = appPc
  BY DEF LifeReader, LifeOwner, Inv, Stopping, InStop
<1>2. running[c] => reader[c] \in {"starting", "loop", "hand", "open"} /\ ~torn[c] /\ appPc \notin InStop
  <2>1. ASSUME running[c] PROVE c = gconn
    BY <2>1 DEF Inv, Owned, Over
  <2> QED
    BY <2>1 DEF Inv, Owned, Stopping, Fresh
<1>3. ~(LifeReader(c) \in InStop /\ LifeOwner(c) \in InStop)
  BY <1>1 DEF Inv, Stopping, InStop
<1>4. LifeReader(c) \in InStop \/ LifeOwner(c) \in InStop => ~running[c] /\ ~CloseCalled(c)
  <2>1. LifeOwner(c) \in InStop => reader[c] # "failed"
    BY <1>1 DEF Inv, Stopping
  <2> QED
    BY <1>1, <1>2, <2>1 DEF InStop, CloseCalled, Fresh
<1>5. CloseCalled(c) => ~running[c] /\ (torn[c] \/ LifeReader(c) = "failed")
  BY <1>1, <1>2 DEF CloseCalled
<1>6. LifeReader(c) \in {"tail", "gone"} => ~running[c] /\ (CloseCalled(c) \/ LifeOwner(c) \in InStop)
  <2> SUFFICES ASSUME reader[c] \in {"tail", "gone"}, LifeOwner(c) \notin InStop
               PROVE  ~running[c] /\ CloseCalled(c)
    BY <1>1, <1>2
  <2>1. torn[c]
    <3>1. CASE c = gconn
      BY <1>1, <1>2, <3>1 DEF Inv, Owned, InStop
    <3>2. CASE c # gconn
      BY <3>2 DEF Inv, Owned, Over
    <3> QED
      BY <3>1, <3>2
  <2> QED
    BY <1>1, <1>2, <2>1 DEF CloseCalled, InStop
<1>7. LifeOwner(c) \in InStop => LifeReader(c) \notin {"none", "starting"}
  BY <1>1 DEF Inv, Stopping
<1> QED
  BY <1>3, <1>4, <1>5, <1>6, <1>7 DEF Life!OneEnd, Life!InStop, InStop

\* Once torn down, a connection stays as it is: nothing starts it again.
LEMMA StepFresh ==
    ASSUME NEW c \in Conns, Fresh(c), Life(c)!OneEnd, [Life(c)!Next]_(Life(c)!vars),
           LifeOwner(c) \in InStop => LifeReader(c) \notin {"none", "starting"}
    PROVE  Fresh(c)'
<1> USE DEF Fresh, InStop, Life!OneEnd, Life!InStop, Life!ReaderGoes, Life!OwnerGoes
<1>1. CASE Life(c)!Start
  BY <1>1 DEF Life!Start
<1>2. CASE Life(c)!StartReturns
  BY <1>2 DEF Life!StartReturns
<1>3. CASE Life(c)!StartFails
  BY <1>3 DEF Life!StartFails
<1>4. CASE Life(c)!Ready
  BY <1>4 DEF Life!Ready
<1>5. CASE Life(c)!ReaderStops
  BY <1>5 DEF Life!ReaderStops
<1>6. CASE Life(c)!OwnerStops
  BY <1>6 DEF Life!OwnerStops
<1>7. CASE Life(c)!TornDown
  BY <1>7 DEF Life!TornDown
<1>8. CASE Life(c)!Announced
  BY <1>8 DEF Life!Announced
<1>9. CASE Life(c)!ReaderEnds
  BY <1>9 DEF Life!ReaderEnds
<1>10. CASE UNCHANGED Life(c)!vars
  BY <1>10 DEF Life!vars
<1> QED
  BY <1>1, <1>2, <1>3, <1>4, <1>5, <1>6, <1>7, <1>8, <1>9, <1>10 DEF Life!Next

\* What the two lemmas need holds in every reachable state, for patient clients.
LEMMA FreshHolds == ASSUME NEW c \in Conns PROVE Spec => [](patient => Fresh(c))
<1>1. Init => Fresh(c)
  BY DEF Init, Fresh
<1>2. /\ Shape /\ Shape' /\ (patient => Inv) /\ (patient => Fresh(c)) /\ [Next]_vars
      => (patient' => Fresh(c)')
  <2> SUFFICES ASSUME Shape, Shape', patient => Inv, patient => Fresh(c), [Next]_vars, patient'
               PROVE  Fresh(c)'
    OBVIOUS
  <2>1. patient
    BY DEF Next, Works, vars
  <2> QED
    BY <2>1, EndsOnce, StepLife, StepFresh
<1> QED
  BY <1>1, <1>2, Typed, Invariant, PTL DEF Spec

\* A connection of a patient client lives as FdConnection says, start() to close
\* callback: this application keeps to what it takes, and calls stop() only for a
\* connection that is there and has been started.
THEOREM LivesHold == ASSUME NEW c \in Conns PROVE Spec => (patient => Life(c)!Spec)
<1>1. Init => Life(c)!Init
  <2> SUFFICES ASSUME Init PROVE Life(c)!Init
    OBVIOUS
  <2>1. LifeReader(c) = "none" /\ LifeOwner(c) = "idle" /\ running[c] = FALSE /\ torn[c] = FALSE
    BY DEF Init, LifeReader, LifeOwner, InStop
  <2>2. CloseCalled(c) = FALSE
    BY DEF Init, CloseCalled
  <2> QED
    BY <2>1, <2>2, Zenon DEF Life!Init
<1>2. patient /\ [Next]_vars => patient'
  BY DEF Next, Works, vars
<1>3. /\ Shape /\ Shape' /\ (patient => Inv) /\ (patient => Fresh(c)) /\ patient /\ [Next]_vars
      => [Life(c)!Next]_(Life(c)!vars)
  BY StepLife
<1>4. Spec => [](patient => Fresh(c))
  BY FreshHolds
<1>5. Life(c)!Init /\ [][Life(c)!Next]_(Life(c)!vars) => Life(c)!Spec
  BY PTL DEF Life!Spec
<1> QED
  BY <1>1, <1>2, <1>3, <1>4, <1>5, Typed, Invariant, PTL DEF Spec

\* It ends once, torn down before its Cleanup is posted, whoever calls stop().
THEOREM LivesEndOnceHolds == ASSUME NEW c \in Conns PROVE Spec => [](patient => Life(c)!OneEnd)
<1>1. Shape /\ (patient => Inv) /\ (patient => Fresh(c)) => (patient => Life(c)!OneEnd)
  BY EndsOnce
<1>2. Spec => [](patient => Fresh(c))
  BY FreshHolds
<1> QED
  BY <1>1, <1>2, Typed, Invariant, PTL
===============================================================================
