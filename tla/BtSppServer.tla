------------------------------ MODULE BtSppServer ------------------------------
(***************************************************************************)
(* The Bluetooth server (main/bt_spp_server.cpp) with start_bt() and the   *)
(* restart of main/main.cpp.  start() makes a row of calls to the stack,   *)
(* whose answers come as events that spp_cb() handles in the stack's task: *)
(* INIT, VFS_REGISTER and START bring the server up, SRV_OPEN and CLOSE    *)
(* are the life of a link.  The members are shared without a lock.         *)
(*                                                                         *)
(* A name is its version, a descriptor the number of its link.  One phone  *)
(* is assumed, which opens a link when its last one is closed.  Pairing,   *)
(* PINs and addresses are left out.                                        *)
(***************************************************************************)
EXTENDS Naturals, Sequences

CONSTANTS
    StackFails,    \* TRUE: a call to the stack or an event may report an error
    MaxRestarts,   \* bound: restarts
    MaxLinks       \* bound: links

ASSUME BoundsAssumption ==
    /\ StackFails \in BOOLEAN
    /\ MaxRestarts \in Nat
    /\ MaxLinks \in Nat

VARIABLES
    spaced,    \* restarts come only when the server is up
    pc,        \* the task that calls stop() and start_bt()
    name,      \* version of the name that the member `name` was set to
    alive,     \* the string it points into still exists
    level,     \* how many of start()'s calls hold: Up means all of them
    failed,    \* an error was reported: nothing is tried again
    events,    \* events the stack has not delivered
    cbPc,      \* where spp_cb() is
    started,   \* started_
    served,    \* name of the server that esp_spp_start_srv() started, 0 for none
    shown,     \* name the device shows to a scan, 0 for none
    links,     \* number of links so far
    up,        \* the link that is up, 0 for none
    open,      \* open descriptors
    holds,     \* descriptors that a FdConnection has to close
    gfd        \* g_fd, 0 for -1

startVars == <<pc, name, alive, level>>
serverVars == <<started, served, shown>>
linkVars == <<links, up, open, holds, gfd>>
vars == <<spaced, startVars, failed, events, cbPc, serverVars, linkVars>>

Up == 5
Link == 1 .. MaxLinks
Versions == 1 .. MaxRestarts + 1
Garbage == MaxRestarts + 2       \* what may be read where a name was
Event(type, ok) == [type |-> type, ok |-> ok, link |-> 0]
LinkEvent(type, link) == [type |-> type, ok |-> TRUE, link |-> link]
Outcomes == IF StackFails THEN BOOLEAN ELSE {TRUE}

Init ==
    /\ spaced \in BOOLEAN
    /\ pc = "start" /\ name = 0 /\ alive = FALSE /\ level = 0
    /\ failed = FALSE /\ events = <<>> /\ cbPc = "idle"
    /\ started = FALSE /\ served = 0 /\ shown = 0
    /\ links = 0 /\ up = 0 /\ open = {} /\ holds = {} /\ gfd = 0

-----------------------------------------------------------------------------
(* appTask (app_main, the first time).                                     *)

\* RestartServer: bt.stop() takes everything down, if started_ is set.
StartedKept == started
StartedCleared == FALSE
EventsLeft == events
EventsGone == <<>>

StopStack ==
    IF started
    THEN /\ level' = 0 /\ started' = StartedCleared /\ served' = 0
         /\ events' = EventsGone /\ up' = 0 /\ open' = {} /\ holds' = {}
    ELSE UNCHANGED <<level, started, served, events, up, open, holds>>

Restart ==
    /\ pc = "idle"
    /\ name <= MaxRestarts
    /\ spaced => started
    /\ pc' = "start"
    /\ StopStack
    /\ UNCHANGED <<name, alive, failed, cbPc, shown, links, gfd>>

\* start(): the name first; the controller refuses to be initialised twice.
Start ==
    /\ pc = "start"
    /\ pc' = "return"
    /\ name' = name + 1
    /\ alive' = TRUE
    /\ IF level # 0
       THEN UNCHANGED <<level, failed, events>>
       ELSE \/ /\ level' = Up
               /\ \E ok \in Outcomes : events' = Append(events, Event("init", ok))
               /\ UNCHANGED failed
            \/ /\ StackFails
               /\ level' \in 0 .. Up - 1
               /\ failed' = TRUE
               /\ UNCHANGED events
    /\ UNCHANGED <<cbPc, serverVars, linkVars>>

\* start_bt() returns, and the string with the name is gone.
StringLives == alive
StringDies == FALSE

StartReturns ==
    /\ pc = "return"
    /\ pc' = "idle"
    /\ alive' = StringDies
    /\ UNCHANGED <<name, level, failed, events, cbPc, serverVars, linkVars>>

-----------------------------------------------------------------------------
(* spp_cb(), in the task of the stack.                                     *)

Handle(type) ==
    /\ cbPc = "idle"
    /\ events # <<>>
    /\ Head(events).type = type

Answers(type) == \E ok \in Outcomes : events' = Append(Tail(events), Event(type, ok))

\* An event of the start-up: on success goes on, else only logs.
OnInit ==
    /\ Handle("init")
    /\ IF Head(events).ok
       THEN Answers("vfs register") /\ UNCHANGED failed
       ELSE events' = Tail(events) /\ failed' = TRUE
    /\ UNCHANGED <<startVars, cbPc, serverVars, linkVars>>

\* A pointer to a dead string may still show what was there.
FirstName == {1}
Name == IF alive THEN {name} ELSE {name, Garbage}

OnVfsRegister ==
    /\ Handle("vfs register")
    /\ IF Head(events).ok
       THEN \/ Answers("start") /\ served' \in Name /\ cbPc' = "started" /\ UNCHANGED failed
            \/ /\ StackFails
               /\ events' = Tail(events) /\ failed' = TRUE
               /\ UNCHANGED <<served, cbPc>>
       ELSE events' = Tail(events) /\ failed' = TRUE /\ UNCHANGED <<served, cbPc>>
    /\ UNCHANGED <<startVars, started, shown, linkVars>>

\* started_ = (ret == ESP_OK), after esp_spp_start_srv() has returned.
OnVfsRegisterDone ==
    /\ cbPc = "started"
    /\ cbPc' = "idle"
    /\ started' = TRUE
    /\ UNCHANGED <<startVars, failed, events, served, shown, linkVars>>

OnStart ==
    /\ Handle("start")
    /\ events' = Tail(events)
    /\ IF Head(events).ok
       THEN shown' \in Name /\ UNCHANGED failed
       ELSE failed' = TRUE /\ UNCHANGED shown
    /\ UNCHANGED <<startVars, cbPc, started, served, linkVars>>

\* The descriptor is remembered, and setupConnection() makes a connection for it,
\* which does not close it if it cannot be started.
OnSrvOpen ==
    /\ Handle("srv open")
    /\ events' = Tail(events)
    /\ LET fd == Head(events).link IN
        /\ open' = open \cup {fd}
        /\ gfd' = fd
        /\ holds' \in {holds \cup {fd}, holds}
    /\ UNCHANGED <<startVars, failed, cbPc, serverVars, links, up>>

CloseForgotten == open
CloseRemembered == open \ {gfd}

OnClose ==
    /\ Handle("close")
    /\ events' = Tail(events)
    /\ open' = CloseRemembered
    /\ gfd' = 0
    /\ UNCHANGED <<startVars, failed, cbPc, serverVars, links, up, holds>>

SppCb ==
    OnInit \/ OnVfsRegister \/ OnVfsRegisterDone \/ OnStart \/ OnSrvOpen \/ OnClose

-----------------------------------------------------------------------------
(* The phone, and the connection's own close().                            *)

PhoneConnects ==
    /\ served # 0 /\ shown # 0
    /\ up = 0
    /\ links < MaxLinks
    /\ links' = links + 1
    /\ up' = links + 1
    /\ events' = Append(events, LinkEvent("srv open", links + 1))
    /\ UNCHANGED <<startVars, failed, cbPc, serverVars, open, holds, gfd>>

LinkEnds == up' = 0 /\ events' = Append(events, LinkEvent("close", up))

PhoneLeaves ==
    /\ up # 0
    /\ LinkEnds
    /\ UNCHANGED <<startVars, failed, cbPc, serverVars, links, open, holds, gfd>>

ConnectionCloses ==
    /\ \E fd \in holds :
        /\ holds' = holds \ {fd}
        /\ open' = open \ {fd}
        /\ IF up = fd THEN LinkEnds ELSE UNCHANGED <<up, events>>
    /\ UNCHANGED <<startVars, failed, cbPc, serverVars, links, gfd>>

Next ==
    /\ UNCHANGED spaced
    /\ \/ Restart \/ Start \/ StartReturns
       \/ SppCb
       \/ PhoneConnects \/ PhoneLeaves \/ ConnectionCloses

Spec == Init /\ [][Next]_vars

\* The stack delivers its events, and start_bt() runs to its end.
FairSpec ==
    /\ Spec
    /\ WF_vars(UNCHANGED spaced /\ SppCb)
    /\ WF_vars(UNCHANGED spaced /\ (Start \/ StartReturns))
-----------------------------------------------------------------------------
(* Properties.                                                             *)

\* The state is well formed, and no event comes from a stack that is down.
TypeOK ==
    /\ pc \in {"idle", "start", "return"}
    /\ name \in {0} \cup Versions /\ level \in 0 .. Up
    /\ {spaced, alive, failed, started} \subseteq BOOLEAN
    /\ cbPc \in {"idle", "started"}
    /\ {served, shown} \subseteq 0 .. Garbage
    /\ level < Up => events = <<>>
    /\ links \in 0 .. MaxLinks /\ {up, gfd} \subseteq {0} \cup Link
    /\ open \subseteq Link /\ holds \subseteq Link

\* stop() relies on started_: it is set only when the whole stack is up, whatever
\* fails in start() or in a callback, so stop() never takes down half a stack.
StartedIsUp == started => level = Up

\* The descriptor of a link that has ended is closed, by the server if there was no
\* connection to close it.
NoLeak == events = <<>> /\ up = 0 /\ holds = {} => open = {}

\* The server that was started last is the one a scan shows, unless the stack failed,
\* the next restart comes, or the string with the name was read after its end.  A
\* restart that comes before the last one has brought the server up is lost: stop()
\* does nothing yet, and the controller refuses start().
LastNameIsShown ==
    \A v \in Versions :
        spaced /\ name = v ~> shown \in {v, Garbage} \/ name # v \/ failed

\* The name "is displayed in the results of a scan" (parameter_store.cpp:214), so it
\* is never read from a string that is no more.
ScanShowsName == shown # Garbage
=============================================================================
