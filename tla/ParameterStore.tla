--------------------------- MODULE ParameterStore ---------------------------
(***************************************************************************)
(* The parameter store (main/parameter_store.cpp), the ParameterSync that  *)
(* reports its changes to the client (main/parameter_sync.cpp), and the    *)
(* tasks that set parameters: appTask on behalf of the client, and the     *)
(* sensor tasks (joystick, uptime).                                        *)
(*                                                                         *)
(* setValue_() holds the mutex mu_ while it writes the value, writes it to *)
(* NVS, commits, and runs every callback; the last callback blocks on the  *)
(* connection's send queue.  The getters, and so the snapshot that a new   *)
(* client is sent, take no lock.  The chip may reset between any two steps *)
(* (power, panic, the abort() on an unknown id): RAM is lost, NVS is not.  *)
(*                                                                         *)
(* A value carries the number of the change that made it, so that "newer"  *)
(* can be said.  Every parameter is an integer here: what a string or a    *)
(* Boolean does differently is only its normalisation (Clamp).  A request  *)
(* that cannot be decoded, or has the wrong type, changes nothing and is   *)
(* left out.                                                               *)
(***************************************************************************)
EXTENDS Integers, Sequences, FiniteSets

CONSTANTS
    Params,      \* identifiers; the map is walked in the order of numbers
    Editable,    \* those with meta.editable, which NVS holds
    Watched,     \* those a task watches with onChange() (the LED's)
    App,         \* appTask
    Sensors,     \* the tasks that set parameters on their own
    Sets,        \* Sets[t]: the parameters that task t sets
    Lo, Hi,      \* Lo[p], Hi[p]: minValue and maxValue
    Default,     \* Default[p]: the value setupDefaults() gives
    Inputs,      \* the values the tasks may try to set
    QueueLen,    \* capacity of the connection's send queue
    NvsFails,    \* TRUE iff NVS calls may fail (their results are ignored)
    Nobody,      \* no task
    MaxChanges,  \* bound: no request starts once this many changes were made
    MaxBacklog   \* bound: no client connects with this much snapshot unsent

Tasks == {App} \cup Sensors

ASSUME ParamsAssumption ==
    /\ Params \subseteq Nat /\ IsFiniteSet(Params)
    /\ Editable \subseteq Params
    /\ Watched \subseteq Params
    /\ Lo \in [Params -> Int]
    /\ Hi \in [Params -> Int]
    /\ \A p \in Params : Lo[p] <= Hi[p]
    /\ Default \in [Params -> Int]
    /\ \A p \in Params : Default[p] \in Lo[p]..Hi[p]
    /\ Inputs \subseteq Int

\* The sensor tasks set only what the client is not meant to edit.
ASSUME TasksAssumption ==
    /\ App \notin Sensors
    /\ Nobody \notin Tasks
    /\ Sets \in [Tasks -> SUBSET Params]
    /\ \A t \in Sensors : Sets[t] \cap Editable = {}

ASSUME BoundsAssumption ==
    /\ QueueLen \in Nat \ {0}
    /\ NvsFails \in BOOLEAN
    /\ MaxChanges \in Nat
    /\ MaxBacklog \in Nat

VARIABLES
    phase,      \* "reset", "load" (values read, not committed), "run"
    value,      \* params_[p].value: [v |-> the value, n |-> the change's number]
    changes,    \* number of changes made since the chip was first flashed
    observed,   \* observed[p]: what the watcher of p holds, a partial function
    registered, \* the parameters whose watcher is in perId_
    staged,     \* what NVS would hold after nvs_commit(), a partial function
    flash,      \* what NVS is sure to hold after a reset
    mu,         \* the task that holds mu_, or Nobody
    pc,         \* where each task is
    arg,        \* arg[t]: the parameter and value that t sets or sends
    snapshot,   \* what sendAllParameters*() has left to send
    connected,  \* connection_ is not null
    queue,      \* the messages in the connection's send queue
    told,       \* told[p]: the value the client was told last
    promised    \* promised[p]: the newest change any client is told of

storeVars == <<value, changes>>
watchVars == <<observed, registered>>
nvsVars == <<staged, flash>>
clientVars == <<connected, queue, told, promised>>
vars == <<phase, storeVars, watchVars, nvsVars, mu, pc, arg, snapshot, clientVars>>

Stamped == [v : Int, n : Int]
Info == [v |-> 0, n |-> -2]       \* what a ParameterInfo message says of the value
Untold == [v |-> 0, n |-> -1]
NoArg == [id |-> 0, val |-> Untold]

Goto(t, label) == pc' = [pc EXCEPT ![t] = label]
Newer(m, n) == IF m > n THEN m ELSE n
With(f, p, x) == [q \in DOMAIN f \cup {p} |-> IF q = p THEN x ELSE f[q]]

Init ==
    /\ phase = "reset"
    /\ value = [p \in Params |-> [v |-> Default[p], n |-> 0]]
    /\ changes = 0
    /\ observed = <<>>
    /\ registered = {}
    /\ staged = <<>>
    /\ flash = <<>>
    /\ mu = Nobody
    /\ pc = [t \in Tasks |-> "idle"]
    /\ arg = [t \in Tasks |-> NoArg]
    /\ snapshot = <<>>
    /\ connected = FALSE
    /\ queue = <<>>
    /\ told = [p \in Params |-> Untold]
    /\ promised = [p \in Params |-> 0]

-----------------------------------------------------------------------------
(* Start and reset.                                                        *)

\* setupDefaults() and the loop of loadFromNvs(): an editable parameter comes
\* from NVS; one that cannot be read keeps its default, which is written there.
Load ==
    /\ phase = "reset"
    /\ phase' = "load"
    /\ \E readable \in SUBSET DOMAIN flash, written \in SUBSET Editable :
           /\ readable \cap written = {}
           /\ NvsFails \/ (readable = DOMAIN flash /\ readable \cup written = Editable)
           /\ value' = [p \in Params |->
                  IF p \in readable THEN flash[p] ELSE [v |-> Default[p], n |-> 0]]
           /\ staged' = [p \in DOMAIN staged \cup written |->
                  IF p \in written THEN value'[p] ELSE staged[p]]
    /\ UNCHANGED <<changes, watchVars, flash, mu, pc, arg, snapshot, clientVars>>

\* nvs_commit(): its result is not looked at either.
Commits ==
    \/ flash' = staged
    \/ NvsFails /\ UNCHANGED flash

LoadCommit ==
    /\ phase = "load"
    /\ phase' = "run"
    /\ Commits
    /\ UNCHANGED <<storeVars, watchVars, staged, mu, pc, arg, snapshot, clientVars>>

\* What was set but not committed may or may not be in NVS afterwards.
Reset ==
    /\ phase' = "reset"
    /\ flash' \in {flash, staged}
    /\ staged' = flash'
    /\ observed' = <<>>
    /\ registered' = {}
    /\ mu' = Nobody
    /\ pc' = [t \in Tasks |-> "idle"]
    /\ arg' = [t \in Tasks |-> NoArg]
    /\ snapshot' = <<>>
    /\ connected' = FALSE
    /\ queue' = <<>>
    /\ told' = [p \in Params |-> Untold]
    /\ UNCHANGED <<storeVars, promised>>

-----------------------------------------------------------------------------
(* onChange(), called by a task that starts (LedBlinkTask::start).         *)

\* First the watcher is called with the value, without the lock ...
OnChangeCalls(p) ==
    /\ phase = "run"
    /\ p \in Watched \ DOMAIN observed
    /\ observed' = With(observed, p, value[p])
    /\ UNCHANGED <<phase, storeVars, registered, nvsVars, mu, pc, arg, snapshot, clientVars>>

\* ... and then, with the lock, it is entered in perId_.
OnChangeRegisters(p) ==
    /\ p \in DOMAIN observed \ registered
    /\ mu = Nobody
    /\ registered' = registered \cup {p}
    /\ UNCHANGED <<phase, storeVars, observed, nvsVars, mu, pc, arg, snapshot, clientVars>>

-----------------------------------------------------------------------------
(* setValue_(), called by appTask and by the sensor tasks.                 *)

\* The messages of a snapshot: the descriptions, then the values.
Half == Cardinality(Params)
Ids == [i \in 1..Half |-> CHOOSE p \in Params : Cardinality({q \in Params : q < p}) = i - 1]
Plan == [i \in 1..2 * Half |->
            IF i <= Half THEN [id |-> Ids[i], info |-> TRUE]
                         ELSE [id |-> Ids[i - Half], info |-> FALSE]]

\* appTask takes its next command when it has finished the last one.
BetweenCommands(t) == t = App => Len(snapshot) % (2 * Half) = 0

Request(t) ==
    /\ phase = "run"
    /\ pc[t] = "idle"
    /\ BetweenCommands(t)
    /\ changes < MaxChanges
    /\ \E p \in Sets[t], i \in Inputs :
           arg' = [arg EXCEPT ![t] = [id |-> p, val |-> [v |-> i, n |-> 0]]]
    /\ Goto(t, "lock")
    /\ UNCHANGED <<phase, storeVars, watchVars, nvsVars, mu, snapshot, clientVars>>

NoClamp(p, i) == i
Clamp(p, i) == IF i < Lo[p] THEN Lo[p] ELSE IF i > Hi[p] THEN Hi[p] ELSE i

\* The lock is taken and the value written; one that does not change anything
\* ends the call.
SetValue(t) ==
    LET p == arg[t].id
        v == Clamp(p, arg[t].val.v)
    IN  /\ pc[t] = "lock"
        /\ mu = Nobody
        /\ IF value[p].v = v
           THEN Goto(t, "idle") /\ UNCHANGED <<storeVars, mu>>
           ELSE /\ mu' = t
                /\ changes' = changes + 1
                /\ value' = [value EXCEPT ![p] = [v |-> v, n |-> changes + 1]]
                /\ Goto(t, IF p \in Editable THEN "nvs" ELSE "fire")
        /\ UNCHANGED <<phase, watchVars, nvsVars, arg, snapshot, clientVars>>

\* nvs_set_*(): its result is not looked at.
NvsSet(t) ==
    /\ pc[t] = "nvs"
    /\ \/ staged' = With(staged, arg[t].id, value[arg[t].id])
       \/ NvsFails /\ UNCHANGED staged
    /\ Goto(t, "commit")
    /\ UNCHANGED <<phase, storeVars, watchVars, flash, mu, arg, snapshot, clientVars>>

CommitForgotten(t) ==
    /\ pc[t] = "commit"
    /\ Goto(t, "fire")
    /\ UNCHANGED <<phase, storeVars, watchVars, nvsVars, mu, arg, snapshot, clientVars>>

NvsCommit(t) ==
    /\ pc[t] = "commit"
    /\ Commits
    /\ Goto(t, "fire")
    /\ UNCHANGED <<phase, storeVars, watchVars, staged, mu, arg, snapshot, clientVars>>

\* What the callbacks are given: not what was asked for.
AsRequested(t) == arg[t].val
AsStored(t) == value[arg[t].id]

\* fireCallbacks_(): the watcher of the parameter, then sendParameterValue(),
\* which reads the value again and sends it if there is a connection.
Fire(t) ==
    LET p == arg[t].id
    IN  /\ pc[t] = "fire"
        /\ observed' = IF p \in registered THEN With(observed, p, AsStored(t)) ELSE observed
        /\ arg' = [arg EXCEPT ![t].val = AsStored(t)]
        /\ Goto(t, IF connected THEN "put" ELSE "idle")
        /\ mu' = IF connected THEN t ELSE Nobody
        /\ UNCHANGED <<phase, storeVars, registered, nvsVars, snapshot, clientVars>>

\* enqueueSend() blocks while the queue is full.
RoomForOneMore == Len(queue) <= QueueLen
HasRoom == Len(queue) < QueueLen

Enqueue(t) ==
    /\ connected
    /\ HasRoom
    /\ queue' = Append(queue, arg[t])
    /\ promised' = [promised EXCEPT ![arg[t].id] = Newer(arg[t].val.n, @)]
    /\ UNCHANGED <<connected, told>>

\* The end of setValue_(): the lock_guard's destructor.
KeepsLock == mu' = mu
Release == mu' = Nobody

Put(t) ==
    /\ pc[t] = "put"
    /\ Enqueue(t)
    /\ Release
    /\ Goto(t, "idle")
    /\ UNCHANGED <<phase, storeVars, watchVars, nvsVars, arg, snapshot>>

\* The connection ended under the call and took the message with it.  The call may
\* return; but stop() deletes the queue and wakes nobody who waits for room in it
\* (FdConnection's EnqueueOnDeleted), so it may also stay here, and keep mu_.
PutLost(t) ==
    /\ pc[t] = "put lost"
    /\ Release
    /\ Goto(t, "idle")
    /\ UNCHANGED <<phase, storeVars, watchVars, nvsVars, arg, snapshot, clientVars>>

SetSteps(t) ==
    SetValue(t) \/ NvsSet(t) \/ NvsCommit(t) \/ Fire(t) \/ Put(t) \/ PutLost(t)

-----------------------------------------------------------------------------
(* The snapshot: sendAllParametersInfo(), sendAllParameters().             *)

\* get() and the encoding: no lock is taken.
SnapshotEncode ==
    LET item == Head(snapshot)
    IN  /\ phase = "run"
        /\ pc[App] = "idle"
        /\ snapshot # <<>>
        /\ snapshot' = Tail(snapshot)
        /\ arg' = [arg EXCEPT ![App] =
                      [id |-> item.id, val |-> IF item.info THEN Info ELSE value[item.id]]]
        /\ Goto(App, IF connected THEN "send" ELSE "idle")
        /\ UNCHANGED <<phase, storeVars, watchVars, nvsVars, mu, clientVars>>

SnapshotPut ==
    /\ pc[App] = "send"
    /\ Enqueue(App)
    /\ Goto(App, "idle")
    /\ UNCHANGED <<phase, storeVars, watchVars, nvsVars, mu, arg, snapshot>>

SnapshotPutLost ==
    /\ pc[App] = "send lost"
    /\ Goto(App, "idle")
    /\ UNCHANGED <<phase, storeVars, watchVars, nvsVars, mu, arg, snapshot, clientVars>>

SnapshotSteps == SnapshotEncode \/ SnapshotPut \/ SnapshotPutLost

-----------------------------------------------------------------------------
(* The client and its connection.                                          *)

\* The ready callback: setConnection(), and the SendAllParameters command,
\* which is lost if the application's queue is full.
Connect ==
    /\ phase = "run"
    /\ ~connected
    /\ Len(snapshot) <= MaxBacklog
    /\ connected' = TRUE
    /\ snapshot' \in {snapshot, snapshot \o Plan}
    /\ UNCHANGED <<phase, storeVars, watchVars, nvsVars, mu, pc, arg, queue, told, promised>>

\* removeConnection(), and the queue goes with the connection.
Disconnect ==
    /\ connected
    /\ connected' = FALSE
    /\ queue' = <<>>
    /\ told' = [p \in Params |-> Untold]
    /\ pc' = [t \in Tasks |-> CASE pc[t] = "put" -> "put lost"
                                [] pc[t] = "send" -> "send lost"
                                [] OTHER -> pc[t]]
    /\ UNCHANGED <<phase, storeVars, watchVars, nvsVars, mu, arg, snapshot, promised>>

\* The send task writes the oldest message and the client reads it.
Deliver ==
    LET m == Head(queue)
    IN  /\ queue # <<>>
        /\ queue' = Tail(queue)
        /\ told' = IF m.val = Info THEN told ELSE [told EXCEPT ![m.id] = m.val]
        /\ UNCHANGED <<phase, storeVars, watchVars, nvsVars, mu, pc, arg, snapshot,
                       connected, promised>>

Next ==
    \/ Load \/ LoadCommit \/ Reset
    \/ \E p \in Watched : OnChangeCalls(p) \/ OnChangeRegisters(p)
    \/ \E t \in Tasks : Request(t) \/ SetSteps(t)
    \/ SnapshotSteps
    \/ Connect \/ Disconnect \/ Deliver

Spec == Init /\ [][Next]_vars

(***************************************************************************)
(* Fairness: FreeRTOS runs every ready task again and wakes the waiters of *)
(* a mutex by priority, then in order (all these tasks have priority 5),   *)
(* hence the strong fairness of a task that waits for mu_ or for room in   *)
(* the queue.  FairSpec assumes a client that reads what it is sent.  No   *)
(* call comes back from a connection that ended under it (PutLost,         *)
(* SnapshotPutLost), no task has to ask for anything, no client has to     *)
(* come, and no reset has to happen.                                       *)
(***************************************************************************)
Fairness ==
    /\ WF_vars(Load \/ LoadCommit)
    /\ \A t \in Tasks :
           /\ SF_vars(SetValue(t))
           /\ WF_vars(NvsSet(t) \/ NvsCommit(t) \/ Fire(t))
           /\ SF_vars(Put(t))
    /\ WF_vars(Deliver)

FairSpec == Spec /\ Fairness
-----------------------------------------------------------------------------
(* Properties.                                                             *)

\* The variables keep their types; NVS holds editable parameters only.
TypeOK ==
    /\ phase \in {"reset", "load", "run"}
    /\ value \in [Params -> Stamped]
    /\ changes \in Nat
    /\ DOMAIN observed \subseteq Watched
    /\ registered \subseteq DOMAIN observed
    /\ DOMAIN staged \subseteq Editable
    /\ DOMAIN flash \subseteq Editable
    /\ mu \in Tasks \cup {Nobody}
    /\ pc \in [Tasks -> {"idle", "lock", "nvs", "commit", "fire", "put", "put lost",
                         "send", "send lost"}]
    /\ \A t \in Sensors : pc[t] \notin {"send", "send lost"}
    /\ \A t \in Tasks : arg[t] = NoArg \/ arg[t] \in [id : Params, val : Stamped]
    /\ Len(queue) <= QueueLen
    /\ \A i \in DOMAIN queue : queue[i] \in [id : Params, val : Stamped]
    /\ connected \in BOOLEAN
    /\ told \in [Params -> Stamped]
    /\ promised \in [Params -> Nat]

\* Whatever clients and sensors ask for, at whatever moment the chip resets, and
\* although loadFromNvs() does not look at the bounds again, every value the
\* store holds or will load is within the parameter's bounds.
InRange ==
    /\ \A p \in Params : value[p].v \in Lo[p]..Hi[p]
    /\ \A p \in DOMAIN staged : staged[p].v \in Lo[p]..Hi[p]
    /\ \A p \in DOMAIN flash : flash[p].v \in Lo[p]..Hi[p]

\* An editable value that was queued for a client, as a change or in a snapshot,
\* is committed: a reset at any later moment brings back that value or a newer
\* one.  (Only while NVS works: its errors are ignored.)
NeverForgets ==
    \A p \in Editable :
        promised[p] > 0 => p \in DOMAIN flash /\ flash[p].n >= promised[p]

\* When nothing is under way, what the client was told last of a parameter is
\* what the store holds, provided only appTask sets it.
Quiet ==
    /\ phase = "run"
    /\ connected
    /\ queue = <<>>
    /\ snapshot = <<>>
    /\ \A t \in Tasks : pc[t] \in {"idle", "lock"}
OnlyAppSets(p) == \A t \in Sensors : p \notin Sets[t]
ClientUpToDate ==
    Quiet => \A p \in Params : OnlyAppSets(p) => told[p] \in {Untold, value[p]}

\* The same of a parameter that a sensor task sets, the joystick's position: the
\* snapshot is encoded without the lock, a change can be queued before it, and
\* the client is left with the older value.
ClientSeesSensors ==
    Quiet => \A p \in Params : ~OnlyAppSets(p) => told[p] \in {Untold, value[p]}

\* A watcher that is registered holds the parameter's value whenever no setter is
\* at work: the LED blinks as often as the parameter says.
WatchersFollow ==
    mu = Nobody => \A p \in registered : observed[p] = value[p]

\* A task that sets a parameter is in a send whose connection has ended.
CutOff == \E t \in Tasks : pc[t] = "put lost"

\* A request to set a parameter comes back, although the mutex is held across NVS
\* and a blocking send, as long as the client reads (or a reset ends it all) and
\* no setter is left for ever in a send whose connection ended under it: that one
\* keeps mu_, and nothing in the code gets it back.
SetCompletes == []<>(~CutOff) => \A t \in Tasks : pc[t] = "lock" ~> pc[t] = "idle"
=============================================================================
