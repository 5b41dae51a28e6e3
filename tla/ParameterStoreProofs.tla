-------------------------- MODULE ParameterStoreProofs --------------------------
(***************************************************************************)
(* Theorems about ParameterStore, for any parameters, tasks, bounds and    *)
(* queue length: the bounds hold in RAM and in NVS, and as long as NVS     *)
(* works, no editable value that a client was promised is forgotten.       *)
(***************************************************************************)
EXTENDS ParameterStore, FiniteSetTheorems, TLAPS

Value == [v : Int, n : Nat]

-----------------------------------------------------------------------------
(* The inductive invariants.                                               *)

\* Where a task is inside setValue_() it has a parameter and a value, and where
\* it is at NVS the parameter is editable.
Arguments ==
    /\ DOMAIN pc = Tasks
    /\ DOMAIN arg = Tasks
    /\ \A t \in Tasks :
           /\ pc[t] \in {"lock", "nvs", "commit", "fire"} =>
                 arg[t] \in [id : Params, val : Stamped]
           /\ pc[t] \in {"nvs", "commit"} => arg[t].id \in Editable

\* What the store and NVS hold are numbered values, NVS's of editable parameters.
Contents ==
    /\ changes \in Nat
    /\ value \in [Params -> Value]
    /\ DOMAIN staged \subseteq Editable
    /\ DOMAIN flash \subseteq Editable
    /\ \A p \in DOMAIN staged : staged[p] \in Value
    /\ \A p \in DOMAIN flash : flash[p] \in Value

Typed == Arguments /\ Contents

\* Only appTask writes NVS; a sensor task's parameter is not editable.
OneWriter ==
    \A t \in Sensors :
        /\ pc[t] \notin {"nvs", "commit"}
        /\ pc[t] \in {"lock", "fire"} => arg[t].id \notin Editable

\* Between start-up and reset, RAM and both layers of NVS agree on every editable
\* parameter but the one that appTask is at; and what differs is newer.
InStep ==
    /\ phase # "run" => \A t \in Tasks : pc[t] = "idle"
    /\ phase = "reset" => staged = flash
    /\ phase = "load" =>
           /\ DOMAIN staged = Editable
           /\ \A p \in DOMAIN flash : staged[p] = flash[p]
           /\ \A p \in Editable : staged[p] = value[p]
    /\ phase = "run" =>
           /\ DOMAIN staged = Editable
           /\ DOMAIN flash = Editable
           /\ \A p \in Editable :
                 /\ flash[p].n <= staged[p].n
                 /\ staged[p].n <= value[p].n
                 /\ staged[p] # value[p] => pc[App] = "nvs" /\ arg[App].id = p
                 /\ flash[p] # value[p] =>
                       pc[App] \in {"nvs", "commit"} /\ arg[App].id = p
    /\ phase \in {"reset", "load", "run"}
    /\ \A p \in Params : value[p].n <= changes
    /\ \A p \in DOMAIN flash : flash[p].n <= changes

\* A message about an editable parameter says nothing newer than NVS holds.
Messages ==
    /\ DOMAIN promised = Params
    /\ \A p \in Editable : promised[p] \in Nat
    /\ \A t \in Tasks :
           pc[t] \in {"put", "send"} /\ arg[t].id \in Editable =>
               /\ arg[t].val.n \in Int
               /\ arg[t].id \in DOMAIN flash
               /\ arg[t].val.n <= flash[arg[t].id].n

Durable ==
    /\ OneWriter
    /\ InStep
    /\ Messages
    /\ NeverForgets
-----------------------------------------------------------------------------
(* Types and bounds.                                                       *)

\* A clamped value is an integer within the parameter's bounds.
LEMMA ClampInRange ==
    ASSUME NEW p \in Params, NEW i \in Int
    PROVE  Clamp(p, i) \in Int /\ Clamp(p, i) \in Lo[p]..Hi[p]
BY ParamsAssumption DEF Clamp

\* The first state is well typed and within bounds.
LEMMA InitTyped == Init => Typed /\ InRange
<1> SUFFICES ASSUME Init PROVE Typed /\ InRange
  OBVIOUS
<1>1. Arguments
  BY DEF Init, Arguments
<1>2. DOMAIN <<>> = {}
  OBVIOUS
<1>3. Contents
  BY <1>2, ParamsAssumption DEF Init, Contents, Value
<1>4. InRange
  BY <1>2, ParamsAssumption DEF Init, InRange
<1> QED
  BY <1>1, <1>3, <1>4 DEF Typed

\* Every step gives the tasks arguments that fit where they are.
LEMMA StepArguments == Arguments /\ Contents /\ [Next]_vars => Arguments'
<1> SUFFICES ASSUME Arguments, Contents, [Next]_vars PROVE Arguments'
  OBVIOUS
<1> USE DEF Arguments
<1>1. CASE Load
  BY <1>1 DEF Load
<1>2. CASE LoadCommit
  BY <1>2 DEF LoadCommit
<1>3. CASE Reset
  BY <1>3 DEF Reset
<1>4. ASSUME NEW p \in Watched, OnChangeCalls(p) PROVE Arguments'
  BY <1>4 DEF OnChangeCalls
<1>5. ASSUME NEW p \in Watched, OnChangeRegisters(p) PROVE Arguments'
  BY <1>5 DEF OnChangeRegisters
<1>6. ASSUME NEW t \in Tasks, Request(t) PROVE Arguments'
  <2>1. Sets[t] \subseteq Params /\ Inputs \subseteq Int
    BY TasksAssumption, ParamsAssumption
  <2>2. PICK p \in Sets[t], i \in Inputs :
            arg' = [arg EXCEPT ![t] = [id |-> p, val |-> [v |-> i, n |-> 0]]]
    BY <1>6 DEF Request
  <2>3. arg'[t] \in [id : Params, val : Stamped]
    BY <2>1, <2>2 DEF Stamped
  <2>4. pc' = [pc EXCEPT ![t] = "lock"]
    BY <1>6 DEF Request, Goto
  <2> QED
    BY <2>2, <2>3, <2>4
<1>7. ASSUME NEW t \in Tasks, SetValue(t) PROVE Arguments'
  BY <1>7 DEF SetValue, Goto
<1>8. ASSUME NEW t \in Tasks, NvsSet(t) PROVE Arguments'
  BY <1>8 DEF NvsSet, Goto
<1>9. ASSUME NEW t \in Tasks, NvsCommit(t) PROVE Arguments'
  BY <1>9 DEF NvsCommit, Goto
<1>10. ASSUME NEW t \in Tasks, Fire(t) PROVE Arguments'
  <2>1. \A s \in Tasks : s # t => arg'[s] = arg[s] /\ pc'[s] = pc[s]
    BY <1>10 DEF Fire, Goto
  <2>2. pc'[t] \in {"put", "idle"} /\ DOMAIN pc' = Tasks /\ DOMAIN arg' = Tasks
    BY <1>10 DEF Fire, Goto
  <2> QED
    BY <2>1, <2>2
<1>11. ASSUME NEW t \in Tasks, Put(t) PROVE Arguments'
  BY <1>11 DEF Put, Goto
<1>12. ASSUME NEW t \in Tasks, PutLost(t) PROVE Arguments'
  BY <1>12 DEF PutLost, Goto
<1>13. CASE SnapshotEncode
  <2>1. \A s \in Tasks : s # App => arg'[s] = arg[s] /\ pc'[s] = pc[s]
    BY <1>13 DEF SnapshotEncode, Goto
  <2>2. pc'[App] \in {"send", "idle"} /\ DOMAIN pc' = Tasks /\ DOMAIN arg' = Tasks
    BY <1>13 DEF SnapshotEncode, Goto, Tasks
  <2> QED
    BY <2>1, <2>2
<1>14. CASE SnapshotPut
  BY <1>14 DEF SnapshotPut, Goto
<1>15. CASE SnapshotPutLost
  BY <1>15 DEF SnapshotPutLost, Goto
<1>16. CASE Connect
  BY <1>16 DEF Connect
<1>17. CASE Disconnect
  BY <1>17 DEF Disconnect
<1>18. CASE Deliver
  BY <1>18 DEF Deliver
<1>19. CASE UNCHANGED vars
  BY <1>19 DEF vars
<1> QED
  BY <1>1, <1>2, <1>3, <1>4, <1>5, <1>6, <1>7, <1>8, <1>9, <1>10, <1>11, <1>12, <1>13, <1>14, <1>15, <1>16, <1>17, <1>18, <1>19
     DEF Next, SetSteps, SnapshotSteps

\* Every step leaves RAM and NVS with numbered values within bounds.
LEMMA StepContents == Typed /\ InRange /\ [Next]_vars => Contents' /\ InRange'
<1> SUFFICES ASSUME Arguments, Contents, InRange, [Next]_vars PROVE Contents' /\ InRange'
  BY DEF Typed
<1> USE DEF Contents, InRange, storeVars, nvsVars
<1>1. CASE Load
  <2>1. \A p \in Params :
            /\ value'[p] \in Value
            /\ value'[p].v \in Lo[p]..Hi[p]
    BY <1>1, ParamsAssumption DEF Load, Value
  <2>2. value' \in [Params -> Value]
    BY <1>1, <2>1 DEF Load
  <2>3. PICK written \in SUBSET Editable :
            staged' = [p \in DOMAIN staged \cup written |->
                          IF p \in written THEN value'[p] ELSE staged[p]]
    BY <1>1 DEF Load
  <2>4. UNCHANGED <<changes, flash>>
    BY <1>1 DEF Load
  <2>5. /\ DOMAIN staged' \subseteq Editable
        /\ \A p \in DOMAIN staged' :
               staged'[p] = value'[p] \/ (p \in DOMAIN staged /\ staged'[p] = staged[p])
    BY <2>3
  <2> QED
    BY <2>1, <2>2, <2>4, <2>5, ParamsAssumption
<1>2. CASE LoadCommit
  BY <1>2 DEF LoadCommit, Commits
<1>3. CASE Reset
  BY <1>3 DEF Reset
<1>4. ASSUME NEW p \in Watched, OnChangeCalls(p) PROVE Contents' /\ InRange'
  BY <1>4 DEF OnChangeCalls
<1>5. ASSUME NEW p \in Watched, OnChangeRegisters(p) PROVE Contents' /\ InRange'
  BY <1>5 DEF OnChangeRegisters
<1>6. ASSUME NEW t \in Tasks, Request(t) PROVE Contents' /\ InRange'
  BY <1>6 DEF Request
<1>7. ASSUME NEW t \in Tasks, SetValue(t) PROVE Contents' /\ InRange'
  <2> DEFINE p == arg[t].id
             v == Clamp(p, arg[t].val.v)
  <2>1. p \in Params /\ arg[t].val.v \in Int
    BY <1>7 DEF SetValue, Arguments, Stamped
  <2>2. v \in Int /\ v \in Lo[p]..Hi[p]
    BY <2>1, ClampInRange
  <2>3. UNCHANGED <<staged, flash>>
    BY <1>7 DEF SetValue
  <2>4. CASE UNCHANGED <<value, changes>>
    BY <2>3, <2>4
  <2>5. CASE /\ changes' = changes + 1
             /\ value' = [value EXCEPT ![p] = [v |-> v, n |-> changes + 1]]
    <3>1. [v |-> v, n |-> changes + 1] \in Value
      BY <2>2 DEF Value
    <3>2. value' \in [Params -> Value]
      BY <2>1, <2>5, <3>1
    <3>3. \A q \in Params : value'[q].v \in Lo[q]..Hi[q]
      BY <2>1, <2>2, <2>5
    <3> QED
      BY <2>3, <2>5, <3>2, <3>3
  <2> QED
    BY <1>7, <2>4, <2>5 DEF SetValue
<1>8. ASSUME NEW t \in Tasks, NvsSet(t) PROVE Contents' /\ InRange'
  <2>1. arg[t].id \in Editable /\ value[arg[t].id] \in Value
    BY <1>8, ParamsAssumption DEF NvsSet, Arguments
  <2>2. UNCHANGED <<changes, value, flash>>
    BY <1>8 DEF NvsSet
  <2>3. CASE UNCHANGED staged
    BY <2>2, <2>3
  <2>4. CASE staged' = With(staged, arg[t].id, value[arg[t].id])
    <3>1. /\ DOMAIN staged' = DOMAIN staged \cup {arg[t].id}
          /\ staged'[arg[t].id] = value[arg[t].id]
          /\ \A q \in DOMAIN staged : q # arg[t].id => staged'[q] = staged[q]
      BY <2>4 DEF With
    <3> QED
      BY <2>1, <2>2, <3>1, ParamsAssumption
  <2> QED
    BY <1>8, <2>3, <2>4 DEF NvsSet
<1>9. ASSUME NEW t \in Tasks, NvsCommit(t) PROVE Contents' /\ InRange'
  BY <1>9 DEF NvsCommit, Commits
<1>10. ASSUME NEW t \in Tasks, Fire(t) PROVE Contents' /\ InRange'
  BY <1>10 DEF Fire
<1>11. ASSUME NEW t \in Tasks, Put(t) PROVE Contents' /\ InRange'
  BY <1>11 DEF Put
<1>12. ASSUME NEW t \in Tasks, PutLost(t) PROVE Contents' /\ InRange'
  BY <1>12 DEF PutLost
<1>13. CASE SnapshotEncode
  BY <1>13 DEF SnapshotEncode
<1>14. CASE SnapshotPut
  BY <1>14 DEF SnapshotPut
<1>15. CASE SnapshotPutLost
  BY <1>15 DEF SnapshotPutLost
<1>16. CASE Connect
  BY <1>16 DEF Connect
<1>17. CASE Disconnect
  BY <1>17 DEF Disconnect
<1>18. CASE Deliver
  BY <1>18 DEF Deliver
<1>19. CASE UNCHANGED vars
  BY <1>19 DEF vars
<1> QED
  BY <1>1, <1>2, <1>3, <1>4, <1>5, <1>6, <1>7, <1>8, <1>9, <1>10, <1>11, <1>12, <1>13, <1>14, <1>15, <1>16, <1>17, <1>18, <1>19
     DEF Next, SetSteps, SnapshotSteps

\* Types and bounds are invariant together.
LEMMA TypedAndInRange == Spec => [](Typed /\ InRange)
<1>1. Typed /\ InRange /\ [Next]_vars => (Typed /\ InRange)'
  BY StepArguments, StepContents DEF Typed
<1> QED
  BY <1>1, InitTyped, PTL DEF Spec

\* Whatever the tasks ask for and whenever the chip resets, what the store holds
\* and what it will load are within bounds, NVS failing or not.
THEOREM InRangeHolds == Spec => []InRange
BY TypedAndInRange, PTL

-----------------------------------------------------------------------------
(* Durability.                                                             *)

\* A sensor task never comes to the steps that write NVS.
LEMMA StepOneWriter ==
    Arguments /\ OneWriter /\ [Next]_vars => OneWriter'
<1> SUFFICES ASSUME Arguments, OneWriter, [Next]_vars PROVE OneWriter'
  OBVIOUS
<1> USE TasksAssumption DEF Arguments, OneWriter, Tasks
<1>1. CASE Load
  BY <1>1 DEF Load
<1>2. CASE LoadCommit
  BY <1>2 DEF LoadCommit
<1>3. CASE Reset
  BY <1>3 DEF Reset
<1>4. ASSUME NEW p \in Watched, OnChangeCalls(p) PROVE OneWriter'
  BY <1>4 DEF OnChangeCalls
<1>5. ASSUME NEW p \in Watched, OnChangeRegisters(p) PROVE OneWriter'
  BY <1>5 DEF OnChangeRegisters
<1>6. ASSUME NEW t \in Tasks, Request(t) PROVE OneWriter'
  <2>1. PICK p \in Sets[t], i \in Inputs :
            arg' = [arg EXCEPT ![t] = [id |-> p, val |-> [v |-> i, n |-> 0]]]
    BY <1>6 DEF Request
  <2>2. t \in Sensors => p \notin Editable
    OBVIOUS
  <2>3. pc' = [pc EXCEPT ![t] = "lock"]
    BY <1>6 DEF Request, Goto
  <2> QED
    BY <2>1, <2>2, <2>3
<1>7. ASSUME NEW t \in Tasks, SetValue(t) PROVE OneWriter'
  BY <1>7 DEF SetValue, Goto
<1>8. ASSUME NEW t \in Tasks, NvsSet(t) PROVE OneWriter'
  BY <1>8 DEF NvsSet, Goto
<1>9. ASSUME NEW t \in Tasks, NvsCommit(t) PROVE OneWriter'
  BY <1>9 DEF NvsCommit, Goto
<1>10. ASSUME NEW t \in Tasks, Fire(t) PROVE OneWriter'
  <2>1. \A s \in Tasks : s # t => arg'[s] = arg[s] /\ pc'[s] = pc[s]
    BY <1>10 DEF Fire, Goto
  <2>2. pc'[t] \in {"put", "idle"}
    BY <1>10 DEF Fire, Goto
  <2> QED
    BY <2>1, <2>2
<1>11. ASSUME NEW t \in Tasks, Put(t) PROVE OneWriter'
  BY <1>11 DEF Put, Goto
<1>12. ASSUME NEW t \in Tasks, PutLost(t) PROVE OneWriter'
  BY <1>12 DEF PutLost, Goto
<1>13. CASE SnapshotEncode
  <2>1. \A s \in Tasks : s # App => arg'[s] = arg[s] /\ pc'[s] = pc[s]
    BY <1>13 DEF SnapshotEncode, Goto
  <2> QED
    BY <2>1
<1>14. CASE SnapshotPut
  BY <1>14 DEF SnapshotPut, Goto
<1>15. CASE SnapshotPutLost
  BY <1>15 DEF SnapshotPutLost, Goto
<1>16. CASE Connect
  BY <1>16 DEF Connect
<1>17. CASE Disconnect
  BY <1>17 DEF Disconnect
<1>18. CASE Deliver
  BY <1>18 DEF Deliver
<1>19. CASE UNCHANGED vars
  BY <1>19 DEF vars
<1> QED
  BY <1>1, <1>2, <1>3, <1>4, <1>5, <1>6, <1>7, <1>8, <1>9, <1>10, <1>11, <1>12, <1>13, <1>14, <1>15, <1>16, <1>17, <1>18, <1>19
     DEF Next, SetSteps, SnapshotSteps

\* Every step keeps RAM and NVS in step, as long as NVS works.
LEMMA StepInStep ==
    ASSUME NvsFails = FALSE
    PROVE  Typed /\ OneWriter /\ InStep /\ [Next]_vars => InStep'
<1> SUFFICES ASSUME Arguments, Contents, OneWriter, InStep, [Next]_vars PROVE InStep'
  BY DEF Typed
<1>0. App \in Tasks /\ Editable \subseteq Params /\ \A t \in Tasks : t = App \/ t \in Sensors
  BY ParamsAssumption DEF Tasks
<1> USE <1>0 DEF Arguments, Contents, Value, InStep, storeVars, nvsVars
<1>1. CASE Load
  <2>1. PICK readable \in SUBSET DOMAIN flash, written \in SUBSET Editable :
            /\ readable \cap written = {}
            /\ NvsFails \/ (readable = DOMAIN flash /\ readable \cup written = Editable)
            /\ value' = [p \in Params |->
                   IF p \in readable THEN flash[p] ELSE [v |-> Default[p], n |-> 0]]
            /\ staged' = [p \in DOMAIN staged \cup written |->
                   IF p \in written THEN value'[p] ELSE staged[p]]
    BY <1>1 DEF Load
  <2>2. readable = DOMAIN flash /\ readable \cup written = Editable
    BY <2>1
  <2>3. phase = "reset" /\ phase' = "load" /\ UNCHANGED <<changes, flash, pc>>
    BY <1>1 DEF Load
  <2>4. staged = flash
    BY <2>3
  <2>5. DOMAIN staged' = Editable /\ \A p \in Editable : staged'[p] = value'[p]
    BY <2>1, <2>4, <2>2
  <2>6. \A p \in DOMAIN flash : value'[p] = flash[p]
    BY <2>1, <2>2
  <2>7. \A p \in Params : value'[p].n <= changes
    BY <2>1
  <2> QED
    BY <2>1, <2>3, <2>5, <2>6, <2>7
<1>2. CASE LoadCommit
  BY <1>2 DEF LoadCommit, Commits
<1>3. CASE Reset
  BY <1>3 DEF Reset
<1>4. ASSUME NEW p \in Watched, OnChangeCalls(p) PROVE InStep'
  BY <1>4 DEF OnChangeCalls
<1>5. ASSUME NEW p \in Watched, OnChangeRegisters(p) PROVE InStep'
  BY <1>5 DEF OnChangeRegisters
<1>6. ASSUME NEW t \in Tasks, Request(t) PROVE InStep'
  <2>1. phase = "run" /\ pc[t] = "idle"
    BY <1>6 DEF Request
  <2>2. \A s \in Tasks : s # t => pc'[s] = pc[s] /\ arg'[s] = arg[s]
    BY <1>6 DEF Request, Goto
  <2>3. UNCHANGED <<phase, value, changes, staged, flash>>
    BY <1>6 DEF Request
  <2> QED
    BY <2>1, <2>2, <2>3
<1>7. ASSUME NEW t \in Tasks, SetValue(t) PROVE InStep'
  <2> DEFINE p == arg[t].id
  <2>1. /\ phase = "run" /\ phase' = phase
        /\ p \in Params
        /\ pc[t] = "lock"
        /\ UNCHANGED <<staged, flash, arg>>
    BY <1>7 DEF SetValue
  <2>2. CASE UNCHANGED <<value, changes>> /\ pc' = [pc EXCEPT ![t] = "idle"]
    BY <2>1, <2>2
  <2>3. CASE /\ changes' = changes + 1
             /\ \E v : value' = [value EXCEPT ![p] = [v |-> v, n |-> changes + 1]]
             /\ pc' = [pc EXCEPT ![t] = IF p \in Editable THEN "nvs" ELSE "fire"]
    <3>1. \A q \in Params : q # p => value'[q] = value[q]
      BY <2>1, <2>3
    <3>2. value'[p].n = changes + 1
      BY <2>1, <2>3
    <3>3. \A q \in Params : value[q].n <= value'[q].n /\ value'[q].n <= changes'
      BY <2>1, <2>3, <3>1, <3>2
    <3>4. p \in Editable => t = App
      BY <2>1 DEF OneWriter
    <3>5. pc[App] \notin {"nvs", "commit"} \/ t # App
      BY <2>1
    <3> QED
      BY <2>1, <2>3, <3>1, <3>3, <3>4, <3>5
  <2> QED
    BY <1>7, <2>2, <2>3 DEF SetValue, Goto
<1>8. ASSUME NEW t \in Tasks, NvsSet(t) PROVE InStep'
  <2> DEFINE p == arg[t].id
  <2>1. /\ pc[t] = "nvs" /\ t = App
        /\ phase = "run" /\ phase' = phase
        /\ p \in Editable
        /\ UNCHANGED <<value, changes, flash, arg>>
        /\ pc' = [pc EXCEPT ![t] = "commit"]
        /\ staged' = With(staged, p, value[p])
    BY <1>8 DEF NvsSet, OneWriter, Goto
  <2>2. /\ DOMAIN staged' = Editable
        /\ staged'[p] = value[p]
        /\ \A q \in Editable : q # p => staged'[q] = staged[q]
    BY <2>1 DEF With
  <2>3. flash[p].n <= value[p].n
    BY <2>1
  <2> QED
    BY <2>1, <2>2, <2>3, SMTT(60)
<1>9. ASSUME NEW t \in Tasks, NvsCommit(t) PROVE InStep'
  <2>1. /\ pc[t] = "commit" /\ t = App
        /\ phase = "run" /\ phase' = phase
        /\ UNCHANGED <<value, changes, staged, arg>>
        /\ flash' = staged
        /\ pc' = [pc EXCEPT ![t] = "fire"]
    BY <1>9 DEF NvsCommit, Commits, OneWriter, Goto
  <2>2. \A p \in Editable : staged[p] = value[p]
    BY <2>1
  <2> QED
    BY <2>1, <2>2
<1>10. ASSUME NEW t \in Tasks, Fire(t) PROVE InStep'
  BY <1>10 DEF Fire, Goto
<1>11. ASSUME NEW t \in Tasks, Put(t) PROVE InStep'
  BY <1>11 DEF Put, Goto
<1>12. ASSUME NEW t \in Tasks, PutLost(t) PROVE InStep'
  BY <1>12 DEF PutLost, Goto
<1>13. CASE SnapshotEncode
  BY <1>13 DEF SnapshotEncode, Goto
<1>14. CASE SnapshotPut
  BY <1>14 DEF SnapshotPut, Goto
<1>15. CASE SnapshotPutLost
  BY <1>15 DEF SnapshotPutLost, Goto
<1>16. CASE Connect
  BY <1>16 DEF Connect
<1>17. CASE Disconnect
  BY <1>17 DEF Disconnect
<1>18. CASE Deliver
  BY <1>18 DEF Deliver
<1>19. CASE UNCHANGED vars
  BY <1>19 DEF vars
<1> QED
  BY <1>1, <1>2, <1>3, <1>4, <1>5, <1>6, <1>7, <1>8, <1>9, <1>10, <1>11, <1>12, <1>13, <1>14, <1>15, <1>16, <1>17, <1>18, <1>19
     DEF Next, SetSteps, SnapshotSteps

\* Every step promises only what NVS has, and takes nothing back from NVS.
LEMMA StepMessages ==
    ASSUME NvsFails = FALSE
    PROVE  Typed /\ Durable /\ [Next]_vars => Messages' /\ NeverForgets'
<1> SUFFICES ASSUME Arguments, Contents, OneWriter, InStep, Messages, NeverForgets, [Next]_vars
             PROVE  Messages' /\ NeverForgets'
  BY DEF Typed, Durable
<1>0. /\ App \in Tasks /\ Editable \subseteq Params
      /\ \A t \in Tasks : t = App \/ t \in Sensors
      /\ \A p \in DOMAIN flash : flash[p].n \in Nat
      /\ \A p \in Params : value[p].n \in Nat
  BY ParamsAssumption DEF Tasks, Contents, Value
<1> USE <1>0 DEF Arguments, Messages
<1>1. CASE Load
  BY <1>1 DEF Load, NeverForgets, clientVars
<1>2. CASE LoadCommit
  <2>1. /\ \A t \in Tasks : pc'[t] = "idle"
        /\ promised' = promised
        /\ \A p \in DOMAIN flash : p \in DOMAIN flash' /\ flash'[p] = flash[p]
    BY <1>2 DEF LoadCommit, Commits, InStep, Contents, clientVars
  <2> QED
    BY <2>1 DEF NeverForgets
<1>3. CASE Reset
  <2>1. /\ \A t \in Tasks : pc'[t] = "idle"
        /\ promised' = promised
    BY <1>3 DEF Reset
  <2>2. \A p \in DOMAIN flash :
            p \in DOMAIN staged /\ flash[p].n <= staged[p].n
    BY DEF InStep, Contents
  <2>3. \A p \in DOMAIN flash :
            p \in DOMAIN flash' /\ flash'[p].n \in Nat /\ flash[p].n <= flash'[p].n
    BY <1>3, <2>2 DEF Reset, Contents, Value
  <2> QED
    BY <2>1, <2>3 DEF NeverForgets
<1>4. ASSUME NEW p \in Watched, OnChangeCalls(p) PROVE Messages' /\ NeverForgets'
  BY <1>4 DEF OnChangeCalls, NeverForgets, clientVars, nvsVars
<1>5. ASSUME NEW p \in Watched, OnChangeRegisters(p) PROVE Messages' /\ NeverForgets'
  BY <1>5 DEF OnChangeRegisters, NeverForgets, clientVars, nvsVars
<1>6. ASSUME NEW t \in Tasks, Request(t) PROVE Messages' /\ NeverForgets'
  <2>1. \A s \in Tasks : pc'[s] \in {"put", "send"} => pc[s] = pc'[s] /\ arg'[s] = arg[s]
    BY <1>6 DEF Request, Goto
  <2>2. UNCHANGED <<promised, flash>>
    BY <1>6 DEF Request, clientVars, nvsVars
  <2> QED
    BY <2>1, <2>2 DEF NeverForgets
<1>7. ASSUME NEW t \in Tasks, SetValue(t) PROVE Messages' /\ NeverForgets'
  BY <1>7 DEF SetValue, Goto, NeverForgets, clientVars, nvsVars
<1>8. ASSUME NEW t \in Tasks, NvsSet(t) PROVE Messages' /\ NeverForgets'
  BY <1>8 DEF NvsSet, Goto, NeverForgets, clientVars, nvsVars
<1>9. ASSUME NEW t \in Tasks, NvsCommit(t) PROVE Messages' /\ NeverForgets'
  <2>1. /\ \A s \in Tasks : pc'[s] \in {"put", "send"} => pc[s] = pc'[s]
        /\ UNCHANGED <<arg, promised>>
        /\ flash' = staged
        /\ phase = "run"
    BY <1>9 DEF NvsCommit, Commits, InStep, clientVars, Goto
  <2>2. \A p \in DOMAIN flash :
            p \in DOMAIN flash' /\ flash'[p].n \in Nat /\ flash[p].n <= flash'[p].n
    BY <2>1 DEF InStep, Contents, Value
  <2> QED
    BY <2>1, <2>2 DEF NeverForgets
<1>10. ASSUME NEW t \in Tasks, Fire(t) PROVE Messages' /\ NeverForgets'
  <2> DEFINE p == arg[t].id
  <2>1. /\ pc[t] = "fire" /\ phase = "run"
        /\ arg' = [arg EXCEPT ![t].val = value[p]]
        /\ \A s \in Tasks : s # t => pc'[s] = pc[s]
        /\ UNCHANGED <<promised, flash>>
    BY <1>10 DEF Fire, InStep, AsStored, clientVars, nvsVars, Goto
  <2>2. arg[t] \in [id : Params, val : Stamped]
    BY <2>1
  <2>3. arg'[t].id = p /\ arg'[t].val = value[p] /\ \A s \in Tasks : s # t => arg'[s] = arg[s]
    BY <2>1, <2>2
  <2>4. p \in Editable => p \in DOMAIN flash /\ flash[p] = value[p]
    BY <2>1, <2>2 DEF InStep, OneWriter
  <2> QED
    BY <2>1, <2>2, <2>3, <2>4 DEF NeverForgets
<1>11. ASSUME NEW t \in Tasks, Put(t) PROVE Messages' /\ NeverForgets'
  <2> DEFINE p == arg[t].id
  <2>1. /\ pc[t] = "put" /\ UNCHANGED <<arg, flash>>
        /\ pc' = [pc EXCEPT ![t] = "idle"]
        /\ promised' = [promised EXCEPT ![p] = Newer(arg[t].val.n, promised[p])]
    BY <1>11 DEF Put, Enqueue, Goto, nvsVars
  <2>2. p \in Editable =>
            /\ promised'[p] \in Nat
            /\ p \in DOMAIN flash
            /\ promised'[p] <= flash[p].n
    BY <2>1 DEF Newer, NeverForgets
  <2>3. \A q \in Editable : q # p => promised'[q] = promised[q]
    BY <2>1
  <2> QED
    BY <2>1, <2>2, <2>3 DEF NeverForgets
<1>12. ASSUME NEW t \in Tasks, PutLost(t) PROVE Messages' /\ NeverForgets'
  BY <1>12 DEF PutLost, Goto, NeverForgets, clientVars, nvsVars
<1>13. CASE SnapshotEncode
  <2> DEFINE p == Head(snapshot).id
  <2>1. /\ pc[App] = "idle" /\ phase = "run"
        /\ arg' = [arg EXCEPT ![App] =
                      [id |-> p, val |-> IF Head(snapshot).info THEN Info ELSE value[p]]]
        /\ \A s \in Tasks : s # App => pc'[s] = pc[s]
        /\ UNCHANGED <<promised, flash>>
    BY <1>13 DEF SnapshotEncode, InStep, clientVars, nvsVars, Goto
  <2>2. /\ arg'[App].id = p
        /\ arg'[App].val \in {Info, value[p]}
        /\ \A s \in Tasks : s # App => arg'[s] = arg[s]
    BY <2>1
  <2>3. p \in Editable =>
            /\ p \in DOMAIN flash
            /\ flash[p] = value[p]
            /\ arg'[App].val.n \in Int
            /\ arg'[App].val.n <= flash[p].n
    BY <2>1, <2>2 DEF InStep, Info
  <2> QED
    BY <2>1, <2>2, <2>3 DEF NeverForgets
<1>14. CASE SnapshotPut
  <2> DEFINE p == arg[App].id
  <2>1. /\ pc[App] = "send" /\ UNCHANGED <<arg, flash>>
        /\ pc' = [pc EXCEPT ![App] = "idle"]
        /\ promised' = [promised EXCEPT ![p] = Newer(arg[App].val.n, promised[p])]
    BY <1>14 DEF SnapshotPut, Enqueue, Goto, nvsVars
  <2>2. p \in Editable =>
            /\ promised'[p] \in Nat
            /\ p \in DOMAIN flash
            /\ promised'[p] <= flash[p].n
    BY <2>1 DEF Newer, NeverForgets
  <2>3. \A q \in Editable : q # p => promised'[q] = promised[q]
    BY <2>1
  <2> QED
    BY <2>1, <2>2, <2>3 DEF NeverForgets
<1>15. CASE SnapshotPutLost
  BY <1>15 DEF SnapshotPutLost, Goto, NeverForgets, clientVars, nvsVars
<1>16. CASE Connect
  BY <1>16 DEF Connect, NeverForgets, clientVars, nvsVars
<1>17. CASE Disconnect
  <2>1. \A s \in Tasks : pc'[s] \in {"put", "send"} => pc[s] = pc'[s]
    BY <1>17 DEF Disconnect
  <2>2. UNCHANGED <<arg, promised, flash>>
    BY <1>17 DEF Disconnect, nvsVars
  <2> QED
    BY <2>1, <2>2 DEF NeverForgets
<1>18. CASE Deliver
  BY <1>18 DEF Deliver, NeverForgets, clientVars, nvsVars
<1>19. CASE UNCHANGED vars
  BY <1>19 DEF vars, NeverForgets, clientVars, nvsVars
<1> QED
  BY <1>1, <1>2, <1>3, <1>4, <1>5, <1>6, <1>7, <1>8, <1>9, <1>10, <1>11, <1>12, <1>13, <1>14, <1>15, <1>16, <1>17, <1>18, <1>19
     DEF Next, SetSteps, SnapshotSteps

\* In the first state nothing is promised and nothing is in NVS.
LEMMA InitDurable == Init => Durable
<1> SUFFICES ASSUME Init PROVE Durable
  OBVIOUS
<1>1. /\ phase = "reset"
      /\ staged = flash
      /\ DOMAIN flash = {}
      /\ \A t \in Tasks : pc[t] = "idle"
      /\ DOMAIN promised = Params
      /\ \A p \in Params : promised[p] = 0
      /\ \A p \in Params : value[p].n = 0
      /\ changes = 0
  BY DEF Init
<1>2. OneWriter
  BY <1>1 DEF OneWriter, Tasks
<1>3. InStep
  BY <1>1 DEF InStep
<1>4. Messages /\ NeverForgets
  BY <1>1, ParamsAssumption DEF Messages, NeverForgets
<1> QED
  BY <1>2, <1>3, <1>4 DEF Durable

\* While NVS works, an editable value that was queued for a client is committed,
\* and no later step or reset brings back an older one.
THEOREM NeverForgetsHolds == NvsFails = FALSE => (Spec => []NeverForgets)
<1> SUFFICES ASSUME NvsFails = FALSE PROVE Spec => []NeverForgets
  OBVIOUS
<1>1. Typed /\ Durable /\ [Next]_vars => Durable'
  BY StepOneWriter, StepInStep, StepMessages DEF Typed, Durable
<1>2. Durable => NeverForgets
  BY DEF Durable
<1>3. Spec => []Typed
  BY TypedAndInRange, PTL
<1> QED
  BY <1>1, <1>2, <1>3, InitDurable, PTL DEF Spec

-----------------------------------------------------------------------------
(* The types of everything else.                                           *)

\* Every number from 1 to Half is the place of a parameter: each has another
\* number of parameters before it, and there are Half such numbers.
LEMMA IdsAreParameters == \A i \in 1 .. Half : Ids[i] \in Params
<1> DEFINE Before(p) == {q \in Params : q < p}
           rank == [p \in Params |-> Cardinality(Before(p))]
           T == 0 .. Half - 1
<1>1. IsFiniteSet(Params) /\ Params \subseteq Nat
  BY ParamsAssumption
<1>2. Half \in Nat
  BY <1>1, FS_CardinalityType DEF Half
<1>3. \A p \in Params : IsFiniteSet(Before(p)) /\ Cardinality(Before(p)) \in Nat
  BY <1>1, FS_Subset, FS_CardinalityType
<1>4. \A p \in Params : Cardinality(Before(p)) \in T
  <2> TAKE p \in Params
  <2>1. IsFiniteSet(Params \ {p}) /\ Cardinality(Params \ {p}) = Half - 1
    BY <1>1, FS_RemoveElement DEF Half
  <2>2. Before(p) \in SUBSET (Params \ {p})
    BY <1>1
  <2>3. Cardinality(Before(p)) <= Half - 1
    BY <2>1, <2>2, FS_Subset
  <2> QED
    BY <1>2, <1>3, <2>3
<1>5. \A p, r \in Params : p < r => Cardinality(Before(p)) < Cardinality(Before(r))
  <2> SUFFICES ASSUME NEW p \in Params, NEW r \in Params, p < r
               PROVE  Cardinality(Before(p)) < Cardinality(Before(r))
    OBVIOUS
  <2>1. p \in Nat /\ r \in Nat
    BY <1>1
  <2>2. p \notin Before(p)
    BY <2>1
  <2>3. Cardinality(Before(p) \cup {p}) = Cardinality(Before(p)) + 1
    BY <1>3, <2>2, FS_AddElement
  <2>4. Before(p) \cup {p} \in SUBSET Before(r)
    <3>1. p \in Before(r)
      OBVIOUS
    <3>2. \A q \in Before(p) : q \in Nat /\ q < p /\ q \in Params
      BY <1>1
    <3>3. \A q \in Before(p) : q \in Before(r)
      BY <2>1, <3>2
    <3> QED
      BY <3>1, <3>3
  <2>5. Cardinality(Before(p) \cup {p}) <= Cardinality(Before(r))
    BY <1>3, <2>4, FS_Subset
  <2> QED
    BY <1>3, <2>3, <2>5
<1> HIDE DEF Before
<1>6. \A p, r \in Params : rank[p] = rank[r] => p = r
  <2> SUFFICES ASSUME NEW p \in Params, NEW r \in Params, rank[p] = rank[r]
               PROVE  p = r
    OBVIOUS
  <2>1. p \in Nat /\ r \in Nat
    BY <1>1
  <2>2. ~(p < r) /\ ~(r < p)
    BY <1>3, <1>5
  <2> QED
    BY <2>1, <2>2
<1>7. rank \in Injection(Params, T)
  BY <1>4, <1>6 DEF Injection, IsInjective
<1>8. IsFiniteSet(T) /\ Cardinality(T) = Half
  <2>1. 0 \in Int /\ Half - 1 \in Int
    BY <1>2
  <2> QED
    BY <1>2, <2>1, FS_Interval
<1>9. rank \in Surjection(Params, T)
  BY <1>7, <1>8, FS_Injection DEF Half
<1>10. \A i \in 1 .. Half : \E p \in Params : Cardinality(Before(p)) = i - 1
  <2> TAKE i \in 1 .. Half
  <2>1. i - 1 \in T
    BY <1>2
  <2>2. PICK p \in Params : rank[p] = i - 1
    BY <1>9, <2>1 DEF Surjection
  <2> QED
    BY <2>2
<1> QED
  BY <1>10 DEF Ids, Before

\* A function on 1 .. n is a sequence.
LEMMA FunctionIsSequence ==
    ASSUME NEW S, NEW n \in Nat, NEW f \in [1 .. n -> S]
    PROVE  f \in Seq(S)
OBVIOUS

\* A snapshot is made of messages about parameters.
LEMMA PlanTyped == Plan \in Seq([id : Params, info : BOOLEAN])
<1>1. Half \in Nat
  BY ParamsAssumption, FS_CardinalityType DEF Half
<1>2. \A i \in 1 .. 2 * Half : Plan[i] \in [id : Params, info : BOOLEAN]
  <2> TAKE i \in 1 .. 2 * Half
  <2>1. CASE i <= Half
    BY <1>1, <2>1, IdsAreParameters DEF Plan
  <2>2. CASE ~(i <= Half)
    <3>1. i - Half \in 1 .. Half
      BY <1>1, <2>2
    <3> QED
      BY <1>1, <2>2, <3>1, IdsAreParameters DEF Plan
  <2> QED
    BY <2>1, <2>2
<1>3. PICK n \in Nat : n = 2 * Half
  BY <1>1
<1>4. Plan = [i \in 1 .. n |-> Plan[i]]
  BY <1>3, Zenon DEF Plan
<1>5. Plan \in [1 .. n -> [id : Params, info : BOOLEAN]]
  BY <1>2, <1>3, <1>4, Zenon
<1> QED
  BY <1>5, FunctionIsSequence, Zenon

\* What a snapshot and the connection's queue are made of.
Item == [id : Params, info : BOOLEAN]
Message == [id : Params, val : Stamped]

\* Where the tasks are, and what they set or send there.
Working ==
    /\ pc \in [Tasks -> {"idle", "lock", "nvs", "commit", "fire", "put", "put lost",
                         "send", "send lost"}]
    /\ DOMAIN arg = Tasks
    /\ \A t \in Tasks : arg[t] = NoArg \/ arg[t] \in Message
    /\ \A t \in Tasks : pc[t] # "idle" => arg[t] \in Message
    /\ \A t \in Sensors : pc[t] \notin {"send", "send lost"}
    /\ \A t \in Sensors : pc[t] # "idle" => arg[t].id \in Sets[t]
    /\ mu \in Tasks \cup {Nobody}

\* The client's side; without a connection nothing is queued and nothing was told.
Linked ==
    /\ phase \in {"reset", "load", "run"}
    /\ connected \in BOOLEAN
    /\ snapshot \in Seq(Item)
    /\ queue \in Seq(Message) /\ Len(queue) <= QueueLen
    /\ told \in [Params -> Stamped]
    /\ promised \in [Params -> Nat]
    /\ phase # "run" => ~connected
    /\ ~connected => queue = <<>> /\ \A p \in Params : told[p] = Untold

Watching == DOMAIN observed \subseteq Watched /\ registered \subseteq DOMAIN observed

\* The values that messages carry.
LEMMA StampedValues ==
    /\ Untold \in Stamped /\ Info \in Stamped
    /\ \A i \in Int : [v |-> i, n |-> 0] \in Stamped
BY DEF Untold, Info, Stamped

\* Sequences, for any elements.
LEMMA Lengthened ==
    ASSUME NEW S, NEW s \in Seq(S), NEW e \in S
    PROVE  /\ Append(s, e) \in Seq(S) /\ Len(Append(s, e)) = Len(s) + 1 /\ Len(s) \in Nat
           /\ DOMAIN Append(s, e) = 1 .. Len(s) + 1 /\ DOMAIN s = 1 .. Len(s)
           /\ \A i \in 1 .. Len(s) : Append(s, e)[i] = s[i]
           /\ Append(s, e)[Len(s) + 1] = e
OBVIOUS

\* A queue of items without its head.
LEMMA Shortened ==
    ASSUME NEW S, NEW s \in Seq(S), s # <<>>
    PROVE  /\ Tail(s) \in Seq(S) /\ Len(Tail(s)) = Len(s) - 1 /\ Len(s) \in Nat \ {0}
           /\ DOMAIN Tail(s) = 1 .. Len(s) - 1 /\ DOMAIN s = 1 .. Len(s)
           /\ \A i \in 1 .. Len(s) - 1 : Tail(s)[i] = s[i + 1]
           /\ Head(s) = s[1] /\ Head(s) \in S
OBVIOUS

\* Two queues of items, one after the other.
LEMMA Joined ==
    ASSUME NEW S, NEW s \in Seq(S), NEW t \in Seq(S)
    PROVE  s \o t \in Seq(S)
OBVIOUS

\* Every step keeps the tasks where their arguments fit.
LEMMA StepWorking ==
    Typed /\ Working /\ Linked /\ [Next]_vars => Working'
<1> SUFFICES ASSUME Arguments, Contents, Working, Linked, [Next]_vars PROVE Working'
  BY DEF Typed
<1>0. /\ App \in Tasks /\ App \notin Sensors /\ \A t \in Sensors : t \in Tasks
      /\ \A p \in Params : value[p] \in Stamped
  BY TasksAssumption DEF Tasks, Contents, Value, Stamped
<1> USE <1>0 DEF Working
<1>1. CASE Load
  BY <1>1 DEF Load
<1>2. CASE LoadCommit
  BY <1>2 DEF LoadCommit
<1>3. CASE Reset
  BY <1>3 DEF Reset
<1>4. ASSUME NEW p \in Watched, OnChangeCalls(p) PROVE Working'
  BY <1>4 DEF OnChangeCalls
<1>5. ASSUME NEW p \in Watched, OnChangeRegisters(p) PROVE Working'
  BY <1>5 DEF OnChangeRegisters
<1>6. ASSUME NEW t \in Tasks, Request(t) PROVE Working'
  <2>1. PICK p \in Sets[t], i \in Inputs :
            arg' = [arg EXCEPT ![t] = [id |-> p, val |-> [v |-> i, n |-> 0]]]
    BY <1>6 DEF Request
  <2>2. p \in Params /\ i \in Int
    BY TasksAssumption, ParamsAssumption
  <2>3. arg'[t] \in Message /\ arg'[t].id = p
    <3>1. PICK w \in Stamped : w = [v |-> i, n |-> 0]
      BY <2>2, StampedValues
    <3> QED
      BY <2>1, <2>2, <3>1 DEF Message
  <2>4. pc' = [pc EXCEPT ![t] = "lock"] /\ mu' = mu
    BY <1>6 DEF Request, Goto
  <2>5. \A s \in Tasks : s # t => pc'[s] = pc[s] /\ arg'[s] = arg[s]
    BY <2>1, <2>4
  <2>6. DOMAIN arg' = Tasks /\ arg'[t].id \in Sets[t] /\ pc'[t] = "lock"
    BY <2>1, <2>3, <2>4
  <2> QED
    BY <2>3, <2>4, <2>5, <2>6
<1>7. ASSUME NEW t \in Tasks, SetValue(t) PROVE Working'
  BY <1>7 DEF SetValue, Goto
<1>8. ASSUME NEW t \in Tasks, NvsSet(t) PROVE Working'
  BY <1>8 DEF NvsSet, Goto
<1>9. ASSUME NEW t \in Tasks, NvsCommit(t) PROVE Working'
  BY <1>9 DEF NvsCommit, Goto
<1>10. ASSUME NEW t \in Tasks, Fire(t) PROVE Working'
  <2>1. arg[t] \in Message /\ arg' = [arg EXCEPT ![t].val = value[arg[t].id]] /\ pc[t] # "idle"
    BY <1>10 DEF Fire, AsStored
  <2>2. arg'[t] \in Message /\ arg'[t].id = arg[t].id
    BY <2>1 DEF Message
  <2>3. \A s \in Tasks : s # t => pc'[s] = pc[s] /\ arg'[s] = arg[s]
    BY <1>10, <2>1 DEF Fire, Goto
  <2>4. /\ pc'[t] \in {"idle", "put"} /\ mu' \in {t, Nobody} /\ DOMAIN arg' = Tasks
        /\ pc' = [pc EXCEPT ![t] = pc'[t]]
    BY <1>10 DEF Fire, Goto
  <2>5. pc' \in [Tasks -> {"idle", "lock", "nvs", "commit", "fire", "put", "put lost",
                          "send", "send lost"}]
    BY <2>4
  <2>6. mu' \in Tasks \cup {Nobody} /\ DOMAIN arg' = Tasks
    BY <2>4
  <2>7. \A s \in Tasks : (arg'[s] = NoArg \/ arg'[s] \in Message) /\ (pc'[s] # "idle" => arg'[s] \in Message)
    BY <2>2, <2>3
  <2>8. \A s \in Sensors : pc'[s] \notin {"send", "send lost"}
    BY <2>3, <2>4
  <2>9. \A s \in Sensors : pc'[s] # "idle" => arg'[s].id \in Sets[s]
    BY <2>1, <2>2, <2>3
  <2> QED
    BY <2>5, <2>6, <2>7, <2>8, <2>9
<1>11. ASSUME NEW t \in Tasks, Put(t) PROVE Working'
  BY <1>11 DEF Put, Goto, Release
<1>12. ASSUME NEW t \in Tasks, PutLost(t) PROVE Working'
  BY <1>12 DEF PutLost, Goto, Release
<1>13. CASE SnapshotEncode
  <2>1. Head(snapshot) \in Item
    BY <1>13, Shortened DEF SnapshotEncode, Linked
  <2>2. PICK w \in Stamped : arg' = [arg EXCEPT ![App] = [id |-> Head(snapshot).id, val |-> w]]
    <3>1. Info \in Stamped
      BY StampedValues
    <3>2. value[Head(snapshot).id] \in Stamped
      BY <2>1 DEF Item
    <3>3. CASE Head(snapshot).info
      BY <1>13, <3>1, <3>3 DEF SnapshotEncode
    <3>4. CASE ~Head(snapshot).info
      BY <1>13, <3>2, <3>4 DEF SnapshotEncode
    <3> QED
      BY <3>3, <3>4
  <2>3. arg'[App] \in Message /\ DOMAIN arg' = Tasks
    BY <2>1, <2>2 DEF Message, Item
  <2>4. pc' = [pc EXCEPT ![App] = IF connected THEN "send" ELSE "idle"] /\ mu' = mu
    BY <1>13 DEF SnapshotEncode, Goto
  <2>5. \A s \in Tasks : s # App => pc'[s] = pc[s] /\ arg'[s] = arg[s]
    BY <2>2, <2>4
  <2> QED
    BY <2>3, <2>4, <2>5
<1>14. CASE SnapshotPut
  BY <1>14 DEF SnapshotPut, Goto
<1>15. CASE SnapshotPutLost
  BY <1>15 DEF SnapshotPutLost, Goto
<1>16. CASE Connect
  BY <1>16 DEF Connect
<1>17. CASE Disconnect
  <2>1. /\ pc' = [s \in Tasks |-> pc'[s]] /\ arg' = arg /\ mu' = mu
        /\ \A s \in Tasks : \/ pc'[s] = pc[s]
                            \/ pc[s] = "put" /\ pc'[s] = "put lost"
                            \/ pc[s] = "send" /\ pc'[s] = "send lost"
    BY <1>17 DEF Disconnect
  <2> QED
    BY <2>1
<1>18. CASE Deliver
  BY <1>18 DEF Deliver
<1>19. CASE UNCHANGED vars
  BY <1>19 DEF vars
<1> QED
  BY <1>1, <1>2, <1>3, <1>4, <1>5, <1>6, <1>7, <1>8, <1>9, <1>10, <1>11, <1>12, <1>13, <1>14, <1>15, <1>16, <1>17, <1>18, <1>19
     DEF Next, SetSteps, SnapshotSteps

\* enqueueSend() keeps the client's side well typed.
LEMMA EnqueueLinked ==
    ASSUME NEW t \in Tasks, Linked, Enqueue(t), arg[t] \in Message,
           UNCHANGED <<phase, snapshot>>
    PROVE  Linked'
<1>1. queue' \in Seq(Message) /\ Len(queue') <= QueueLen
  <2>1. queue \in Seq(Message) /\ queue' = Append(queue, arg[t]) /\ Len(queue) < QueueLen
    BY DEF Linked, Enqueue, HasRoom
  <2>2. Append(queue, arg[t]) \in Seq(Message) /\ Len(Append(queue, arg[t])) = Len(queue) + 1
        /\ Len(queue) \in Nat
    BY <2>1, Lengthened
  <2> QED
    BY <2>1, <2>2, BoundsAssumption
<1>2. promised' \in [Params -> Nat]
  <2>1. arg[t].id \in Params /\ arg[t].val.n \in Int /\ promised[arg[t].id] \in Nat
    BY DEF Message, Stamped, Linked
  <2>2. Newer(arg[t].val.n, promised[arg[t].id]) \in Nat
    BY <2>1 DEF Newer
  <2> QED
    BY <2>1, <2>2 DEF Enqueue, Linked
<1> QED
  BY <1>1, <1>2 DEF Linked, Enqueue

\* Without a connection nothing is queued and nothing was told.
Unlinked ==
    /\ connected = FALSE
    /\ queue = <<>>
    /\ told = [p \in Params |-> Untold]
    /\ phase \in {"reset", "load", "run"}
    /\ snapshot \in Seq(Item)
    /\ promised \in [Params -> Nat]

\* A client that has been sent nothing yet has nothing under way.
LEMMA EmptySnapshot == <<>> \in Seq(Item)
OBVIOUS

\* What holds without a connection is a case of what holds with one.
LEMMA UnlinkedIsLinked == Unlinked => Linked
<1> SUFFICES ASSUME Unlinked PROVE Linked
  OBVIOUS
<1>1. queue \in Seq(Message) /\ Len(queue) <= QueueLen
  <2>1. <<>> \in Seq(Message) /\ Len(<<>>) = 0
    OBVIOUS
  <2> QED
    BY <2>1, BoundsAssumption DEF Unlinked
<1>2. told \in [Params -> Stamped] /\ \A p \in Params : told[p] = Untold
  BY StampedValues DEF Unlinked
<1>3. ~connected /\ connected \in BOOLEAN
  BY DEF Unlinked
<1> QED
  BY <1>1, <1>2, <1>3, Zenon DEF Unlinked, Linked

\* Every step keeps the client's side well typed.
LEMMA StepLinked ==
    Typed /\ Working /\ Linked /\ [Next]_vars => Linked'
<1> SUFFICES ASSUME Working, Linked, [Next]_vars PROVE Linked'
  BY DEF Typed
<1>0. App \in Tasks
  BY DEF Tasks
<1> USE <1>0 DEF clientVars
<1>1. CASE Load
  BY <1>1 DEF Load, Linked
<1>2. CASE LoadCommit
  BY <1>2 DEF LoadCommit, Linked
<1>3. CASE Reset
  <2>1. Unlinked'
    BY <1>3, EmptySnapshot DEF Reset, Unlinked, Linked
  <2> QED
    BY <2>1, UnlinkedIsLinked, PTL
<1>4. ASSUME NEW p \in Watched, OnChangeCalls(p) PROVE Linked'
  BY <1>4 DEF OnChangeCalls, Linked
<1>5. ASSUME NEW p \in Watched, OnChangeRegisters(p) PROVE Linked'
  BY <1>5 DEF OnChangeRegisters, Linked
<1>6. ASSUME NEW t \in Tasks, Request(t) PROVE Linked'
  BY <1>6 DEF Request, Linked
<1>7. ASSUME NEW t \in Tasks, SetValue(t) PROVE Linked'
  BY <1>7 DEF SetValue, Linked
<1>8. ASSUME NEW t \in Tasks, NvsSet(t) PROVE Linked'
  BY <1>8 DEF NvsSet, Linked
<1>9. ASSUME NEW t \in Tasks, NvsCommit(t) PROVE Linked'
  BY <1>9 DEF NvsCommit, Linked
<1>10. ASSUME NEW t \in Tasks, Fire(t) PROVE Linked'
  BY <1>10 DEF Fire, Linked
<1>11. ASSUME NEW t \in Tasks, Put(t) PROVE Linked'
  <2>1. arg[t] \in Message
    BY <1>11 DEF Put, Working
  <2> QED
    BY <1>11, <2>1, EnqueueLinked DEF Put
<1>12. ASSUME NEW t \in Tasks, PutLost(t) PROVE Linked'
  BY <1>12 DEF PutLost, Linked
<1>13. CASE SnapshotEncode
  <2>1. snapshot \in Seq(Item) /\ snapshot # <<>> /\ snapshot' = Tail(snapshot)
    BY <1>13 DEF SnapshotEncode, Linked
  <2>2. snapshot' \in Seq(Item)
    BY <2>1, Shortened
  <2> QED
    BY <1>13, <2>2 DEF SnapshotEncode, Linked
<1>14. CASE SnapshotPut
  <2>1. arg[App] \in Message
    BY <1>14 DEF SnapshotPut, Working
  <2> QED
    BY <1>14, <2>1, EnqueueLinked DEF SnapshotPut
<1>15. CASE SnapshotPutLost
  BY <1>15 DEF SnapshotPutLost, Linked
<1>16. CASE Connect
  <2>1. snapshot' \in Seq(Item)
    BY <1>16, PlanTyped, Joined DEF Connect, Linked, Item
  <2> QED
    BY <1>16, <2>1 DEF Connect, Linked
<1>17. CASE Disconnect
  <2>1. Unlinked'
    BY <1>17 DEF Disconnect, Unlinked, Linked
  <2> QED
    BY <2>1, UnlinkedIsLinked, PTL
<1>18. CASE Deliver
  <2>1. queue \in Seq(Message) /\ queue # <<>> /\ queue' = Tail(queue) /\ connected
    BY <1>18 DEF Deliver, Linked
  <2>2. /\ queue' \in Seq(Message) /\ Len(queue') = Len(queue) - 1
        /\ Head(queue) \in Message /\ Len(queue) \in Nat
    BY <2>1, Shortened
  <2>3. Len(queue') <= QueueLen
    BY <2>2, BoundsAssumption DEF Linked
  <2>4. told' \in [Params -> Stamped]
    BY <1>18, <2>2 DEF Deliver, Linked, Message
  <2> QED
    BY <1>18, <2>1, <2>2, <2>3, <2>4 DEF Deliver, Linked
<1>19. CASE UNCHANGED vars
  BY <1>19 DEF vars, Linked
<1> QED
  BY <1>1, <1>2, <1>3, <1>4, <1>5, <1>6, <1>7, <1>8, <1>9, <1>10, <1>11, <1>12, <1>13, <1>14, <1>15, <1>16, <1>17, <1>18, <1>19
     DEF Next, SetSteps, SnapshotSteps

\* Only Watched parameters are observed, and those registered are.
LEMMA StepWatching == Watching /\ [Next]_vars => Watching'
<1> SUFFICES ASSUME Watching, [Next]_vars PROVE Watching'
  OBVIOUS
<1>1. ASSUME NEW p \in Watched, OnChangeCalls(p) PROVE Watching'
  BY <1>1 DEF OnChangeCalls, Watching, With
<1>2. ASSUME NEW p \in Watched, OnChangeRegisters(p) PROVE Watching'
  BY <1>2 DEF OnChangeRegisters, Watching
<1>3. ASSUME NEW t \in Tasks, Fire(t) PROVE Watching'
  BY <1>3 DEF Fire, Watching, With
<1>4. CASE Reset
  BY <1>4 DEF Reset, Watching
<1>5. CASE UNCHANGED watchVars
  BY <1>5 DEF Watching, watchVars
<1>6. \A t \in Tasks : SetValue(t) \/ NvsSet(t) \/ NvsCommit(t) \/ Put(t) \/ PutLost(t) =>
          UNCHANGED watchVars
  BY DEF SetValue, NvsSet, NvsCommit, Put, PutLost, watchVars
<1>7. \A t \in Tasks : Request(t) => UNCHANGED watchVars
  BY DEF Request, watchVars
<1>8. Load \/ LoadCommit \/ SnapshotSteps \/ Connect \/ Disconnect \/ Deliver => UNCHANGED watchVars
  BY DEF Load, LoadCommit, SnapshotSteps, SnapshotEncode, SnapshotPut, SnapshotPutLost,
         Connect, Disconnect, Deliver, watchVars
<1>9. UNCHANGED vars => UNCHANGED watchVars
  BY DEF vars, watchVars
<1> QED
  BY <1>1, <1>2, <1>3, <1>4, <1>5, <1>6, <1>7, <1>8, <1>9 DEF Next, SetSteps

\* The first state is well typed.
LEMMA InitLinked == Init => Working /\ Linked /\ Watching
<1> SUFFICES ASSUME Init PROVE Working /\ Linked /\ Watching
  OBVIOUS
<1>3. Working
  BY DEF Init, Working, Tasks
<1>4. Linked
  <2>1. Unlinked
    BY EmptySnapshot DEF Init, Unlinked
  <2> QED
    BY <2>1, UnlinkedIsLinked
<1>5. Watching
  BY DEF Init, Watching
<1> QED
  BY <1>3, <1>4, <1>5

WellTyped == Typed /\ InRange /\ Working /\ Linked /\ Watching

\* All types are invariant together.
LEMMA AllTyped == Spec => []WellTyped
<1>1. WellTyped /\ [Next]_vars => WellTyped'
  BY StepArguments, StepContents, StepWorking, StepLinked, StepWatching DEF WellTyped, Typed
<1>2. Init => WellTyped
  BY InitTyped, InitLinked DEF WellTyped
<1> QED
  BY <1>1, <1>2, PTL DEF Spec

\* The store, NVS, the tasks and the client's side are well typed, NVS failing or not.
THEOREM TypeCorrect == Spec => []TypeOK
<1>1. WellTyped => TypeOK
  <2> SUFFICES ASSUME Contents, Working, Linked, Watching PROVE TypeOK
    BY DEF WellTyped, Typed
  <2>1. value \in [Params -> Stamped]
    BY DEF Contents, Value, Stamped
  <2>2. \A i \in DOMAIN queue : queue[i] \in Message
    <3>1. queue \in Seq(Message)
      BY DEF Linked
    <3> QED
      BY <3>1
  <2> QED
    BY <2>1, <2>2 DEF TypeOK, Contents, Working, Linked, Watching, Message
<1> QED
  BY AllTyped, <1>1, PTL

-----------------------------------------------------------------------------
(* What the client was told.                                               *)

Says(m, p) == m.id = p /\ m.val # Info

\* The last that the messages s say of p, or what the client was told before, is v.
LastWord(s, w, v, p) ==
    /\ \A i \in DOMAIN s :
          Says(s[i], p) /\ (\A j \in DOMAIN s : Says(s[j], p) => j <= i) => s[i].val = v
    /\ (\A i \in DOMAIN s : ~Says(s[i], p)) => w \in {Untold, v}

\* appTask has changed p and has not yet queued it for the client.
Changing(p) == pc[App] \in {"nvs", "commit", "fire", "put"} /\ arg[App].id = p

\* The messages under way and the client's memory end in what the store holds.
Followed ==
    /\ phase # "run" => pc[App] = "idle"
    /\ \A p \in Params :
          OnlyAppSets(p) => Changing(p) \/ LastWord(queue, told[p], value[p], p)
    /\ pc[App] = "put" /\ OnlyAppSets(arg[App].id) => arg[App].val = value[arg[App].id]
    /\ pc[App] = "send" /\ OnlyAppSets(arg[App].id) =>
          arg[App].val \in {Info, value[arg[App].id]}

\* A message about something else changes nothing of what is said of p.
LEMMA OtherMessage ==
    ASSUME NEW s \in Seq(Message), NEW m \in Message, NEW p, NEW w, NEW v,
           LastWord(s, w, v, p), ~Says(m, p)
    PROVE  LastWord(Append(s, m), w, v, p)
<1> DEFINE t == Append(s, m)
<1>1. /\ DOMAIN t = 1 .. Len(s) + 1 /\ DOMAIN s = 1 .. Len(s) /\ Len(s) \in Nat
      /\ \A i \in 1 .. Len(s) : t[i] = s[i]
      /\ t[Len(s) + 1] = m
  BY Lengthened
<1> HIDE DEF t
<1>2. \A i \in DOMAIN t : i \in DOMAIN s \/ i = Len(s) + 1
  BY <1>1
<1>3. \A i \in DOMAIN s : i \in DOMAIN t /\ t[i] = s[i]
  BY <1>1
<1>4. \A i \in DOMAIN t : Says(t[i], p) => i \in DOMAIN s
  BY <1>1, <1>2
<1> QED
  BY <1>3, <1>4 DEF LastWord, t

\* A message that says v of p is the last word.
LEMMA NewMessage ==
    ASSUME NEW s \in Seq(Message), NEW m \in Message, NEW p, NEW w, Says(m, p)
    PROVE  LastWord(Append(s, m), w, m.val, p)
<1> DEFINE t == Append(s, m)
<1>1. /\ DOMAIN t = 1 .. Len(s) + 1 /\ Len(s) \in Nat
      /\ t[Len(s) + 1] = m
  BY Lengthened
<1> HIDE DEF t
<1>2. \A i \in DOMAIN t : Len(s) + 1 <= i => i = Len(s) + 1
  BY <1>1
<1>3. Len(s) + 1 \in DOMAIN t
  BY <1>1
<1> QED
  BY <1>1, <1>2, <1>3 DEF LastWord, t

\* The client reads a message: the last word stays.
LEMMA ReadMessage ==
    ASSUME NEW s \in Seq(Message), s # <<>>, NEW p, NEW w, NEW v, LastWord(s, w, v, p)
    PROVE  LastWord(Tail(s), IF Says(Head(s), p) THEN Head(s).val ELSE w, v, p)
<1> DEFINE t == Tail(s)
<1>1. /\ DOMAIN t = 1 .. Len(s) - 1 /\ DOMAIN s = 1 .. Len(s) /\ Len(s) \in Nat \ {0}
      /\ \A i \in 1 .. Len(s) - 1 : t[i] = s[i + 1]
      /\ Head(s) = s[1]
  BY Shortened
<1> HIDE DEF t
<1>2. \A i \in DOMAIN t : i + 1 \in DOMAIN s /\ t[i] = s[i + 1]
  BY <1>1
<1>3. \A j \in DOMAIN s : j = 1 \/ (j - 1 \in DOMAIN t /\ t[j - 1] = s[j])
  BY <1>1
<1>4. 1 \in DOMAIN s /\ \A i \in DOMAIN t \cup DOMAIN s : i \in Nat /\ 1 <= i
  BY <1>1
<1>5. ASSUME NEW i \in DOMAIN t, Says(t[i], p), \A j \in DOMAIN t : Says(t[j], p) => j <= i
      PROVE  t[i].val = v
  <2>1. \A j \in DOMAIN s : Says(s[j], p) => j <= i + 1
    <3> SUFFICES ASSUME NEW j \in DOMAIN s, Says(s[j], p) PROVE j <= i + 1
      OBVIOUS
    <3>1. CASE j = 1
      BY <1>4, <3>1
    <3>2. CASE j - 1 \in DOMAIN t /\ t[j - 1] = s[j]
      <4>1. j - 1 <= i
        BY <1>5, <3>2
      <4> QED
        BY <1>4, <4>1
    <3> QED
      BY <1>3, <3>1, <3>2
  <2> QED
    BY <1>2, <1>5, <2>1 DEF LastWord
<1>6. ASSUME \A i \in DOMAIN t : ~Says(t[i], p)
      PROVE  (IF Says(Head(s), p) THEN Head(s).val ELSE w) \in {Untold, v}
  <2>1. \A j \in DOMAIN s : Says(s[j], p) => j = 1
    BY <1>3, <1>6
  <2>2. CASE Says(s[1], p)
    <3>1. \A j \in DOMAIN s : Says(s[j], p) => j <= 1
      BY <1>4, <2>1
    <3> QED
      BY <1>1, <1>4, <2>2, <3>1 DEF LastWord
  <2>3. CASE ~Says(s[1], p)
    BY <1>1, <2>1, <2>3 DEF LastWord
  <2> QED
    BY <2>2, <2>3
<1> QED
  BY <1>5, <1>6 DEF LastWord, t

\* A client that has just come was told nothing wrong.
LEMMA NothingSaid ==
    ASSUME Linked, ~connected
    PROVE  \A v : \A p \in Params : LastWord(queue, told[p], v, p)
<1>1. queue = <<>> /\ \A p \in Params : told[p] = Untold
  BY DEF Linked
<1>2. DOMAIN <<>> = {}
  OBVIOUS
<1> QED
  BY <1>1, <1>2 DEF LastWord

\* Steps of other tasks.
LEMMA OthersFollow ==
    ASSUME Followed, Working, phase' = phase, pc'[App] = pc[App], arg'[App] = arg[App],
           queue' = queue, told' = told,
           \A p \in Params : OnlyAppSets(p) => value'[p] = value[p]
    PROVE  Followed'
<1>1. pc[App] # "idle" => arg[App].id \in Params
  BY DEF Working, Message, Tasks
<1>2. \A p \in Params : OnlyAppSets(p) => Changing(p)' \/ LastWord(queue', told'[p], value'[p], p)
  BY DEF Followed, Changing
<1>3. pc'[App] = "put" /\ OnlyAppSets(arg'[App].id) => arg'[App].val = value'[arg'[App].id]
  BY <1>1 DEF Followed
<1>4. pc'[App] = "send" /\ OnlyAppSets(arg'[App].id) => arg'[App].val \in {Info, value'[arg'[App].id]}
  BY <1>1 DEF Followed
<1> QED
  BY <1>2, <1>3, <1>4 DEF Followed

\* enqueueSend(): a message that says what the store holds, or says nothing.
LEMMA EnqueueFollows ==
    ASSUME NEW t \in Tasks, Typed, Working, Linked, Enqueue(t), arg[t] \in Message,
           NEW p \in Params,
           arg[t].id = p => arg[t].val \in {Info, value[p]},
           \/ LastWord(queue, told[p], value[p], p)
           \/ arg[t].id = p /\ arg[t].val = value[p]
    PROVE  LastWord(queue', told'[p], value[p], p)
<1>1. queue' = Append(queue, arg[t]) /\ told' = told /\ queue \in Seq(Message)
  BY DEF Enqueue, Linked
<1>2. value[p] # Info
  <2>1. value[p].n # -2
    BY DEF Typed, Contents, Value
  <2> QED
    BY <2>1 DEF Info
<1>3. CASE Says(arg[t], p)
  <2>1. arg[t].val = value[p]
    BY <1>3 DEF Says
  <2>2. LastWord(Append(queue, arg[t]), told[p], arg[t].val, p)
    BY <1>1, <1>3, NewMessage
  <2> QED
    BY <1>1, <2>1, <2>2
<1>4. CASE ~Says(arg[t], p)
  <2>1. LastWord(queue, told[p], value[p], p)
    BY <1>2, <1>4 DEF Says
  <2> QED
    BY <1>1, <1>4, <2>1, OtherMessage
<1> QED
  BY <1>3, <1>4

\* Every step leaves the client with the last word on what appTask sets.
LEMMA StepFollowed ==
    Typed /\ Working /\ Linked /\ Followed /\ [Next]_vars => Followed'
<1> SUFFICES ASSUME Typed, Working, Linked, Followed, [Next]_vars PROVE Followed'
  OBVIOUS
<1>0. /\ App \in Tasks /\ App \notin Sensors
      /\ \A t \in Tasks : t = App \/ t \in Sensors
      /\ \A t \in Sensors : t \in Tasks
      /\ DOMAIN pc = Tasks /\ DOMAIN arg = Tasks
      /\ pc[App] # "idle" => arg[App].id \in Params /\ phase = "run"
  BY TasksAssumption DEF Tasks, Working, Followed, Message
<1>1. CASE Load
  <2>1. ~connected /\ pc[App] = "idle"
    BY <1>1 DEF Load, Linked, Followed
  <2>2. UNCHANGED <<queue, told, connected, pc>>
    BY <1>1 DEF Load, clientVars
  <2>3. \A p \in Params : LastWord(queue, told[p], value'[p], p)
    BY <2>1, NothingSaid
  <2> QED
    BY <2>1, <2>2, <2>3 DEF Followed
<1>2. CASE LoadCommit
  <2>1. UNCHANGED <<pc, arg, queue, told, value>> /\ pc[App] = "idle"
    BY <1>2 DEF LoadCommit, clientVars, storeVars, Followed
  <2> QED
    BY <2>1 DEF Followed, Changing
<1>3. CASE Reset
  <2>1. pc'[App] = "idle" /\ queue' = <<>> /\ told' = [p \in Params |-> Untold]
    BY <1>0, <1>3 DEF Reset
  <2>2. \A p \in Params : LastWord(queue', told'[p], value'[p], p)
    <3>1. DOMAIN <<>> = {}
      OBVIOUS
    <3> QED
      BY <2>1, <3>1 DEF LastWord
  <2> QED
    BY <2>1, <2>2 DEF Followed
<1>4. ASSUME NEW p \in Watched, OnChangeCalls(p) PROVE Followed'
  BY <1>4, OthersFollow DEF OnChangeCalls, clientVars, storeVars
<1>5. ASSUME NEW p \in Watched, OnChangeRegisters(p) PROVE Followed'
  BY <1>5, OthersFollow DEF OnChangeRegisters, clientVars, storeVars
<1>6. ASSUME NEW t \in Tasks, Request(t) PROVE Followed'
  <2>1. UNCHANGED <<phase, value, queue, told>> /\ phase = "run"
    BY <1>6 DEF Request, clientVars, storeVars
  <2>2. CASE t = App
    <3>1. pc[App] = "idle" /\ pc'[App] = "lock"
      BY <1>0, <1>6, <2>2 DEF Request, Goto
    <3> QED
      BY <2>1, <3>1 DEF Followed, Changing
  <2>3. CASE t # App
    <3>1. pc'[App] = pc[App] /\ arg'[App] = arg[App]
      BY <1>6, <2>3 DEF Request, Goto
    <3> QED
      BY <2>1, <3>1, OthersFollow
  <2> QED
    BY <2>2, <2>3
<1>7. ASSUME NEW t \in Tasks, SetValue(t) PROVE Followed'
  <2>1. UNCHANGED <<phase, arg, queue, told>> /\ pc[t] = "lock"
    BY <1>7 DEF SetValue, clientVars
  <2>2. \A p \in Params : p # arg[t].id => value'[p] = value[p]
    BY <1>7 DEF SetValue, storeVars, Typed, Contents
  <2>3. CASE t = App
    <3>1. CASE value' = value /\ pc'[App] = "idle"
      BY <2>1, <2>3, <3>1 DEF Followed, Changing
    <3>2. CASE pc'[App] \in {"nvs", "fire"}
      <4>1. \A p \in Params : OnlyAppSets(p) =>
                Changing(p)' \/ LastWord(queue', told'[p], value'[p], p)
        BY <2>1, <2>2, <2>3, <3>2 DEF Followed, Changing
      <4> QED
        BY <1>0, <2>1, <2>3, <3>2, <4>1 DEF Followed
    <3> QED
      BY <1>0, <1>7, <2>3, <3>1, <3>2 DEF SetValue, Goto, storeVars
  <2>4. CASE t # App
    <3>0. \/ pc' = [pc EXCEPT ![t] = "idle"] \/ pc' = [pc EXCEPT ![t] = "nvs"]
          \/ pc' = [pc EXCEPT ![t] = "fire"]
      BY <1>7 DEF SetValue, Goto
    <3>1. pc'[App] = pc[App]
      BY <1>0, <2>4, <3>0
    <3>2. \A p \in Params : OnlyAppSets(p) => p # arg[t].id
      BY <1>0, <2>1, <2>4 DEF Working, OnlyAppSets
    <3> QED
      BY <2>1, <2>2, <3>1, <3>2, OthersFollow
  <2> QED
    BY <2>3, <2>4
<1>8. ASSUME NEW t \in Tasks, NvsSet(t) \/ NvsCommit(t) PROVE Followed'
  <2>1. /\ UNCHANGED <<phase, arg, queue, told, value>>
        /\ pc[t] \in {"nvs", "commit"}
        /\ pc' = [pc EXCEPT ![t] = "commit"] \/ pc' = [pc EXCEPT ![t] = "fire"]
    BY <1>8 DEF NvsSet, NvsCommit, clientVars, storeVars, Goto
  <2>2. CASE t = App
    <3>1. pc[App] \in {"nvs", "commit"} /\ pc'[App] \in {"commit", "fire"}
      BY <1>0, <2>1, <2>2
    <3> QED
      BY <1>0, <2>1, <3>1 DEF Followed, Changing
  <2>3. CASE t # App
    <3>1. pc'[App] = pc[App]
      BY <1>0, <2>1, <2>3
    <3> QED
      BY <2>1, <3>1, OthersFollow
  <2> QED
    BY <2>2, <2>3
<1>9. ASSUME NEW t \in Tasks, Fire(t) PROVE Followed'
  <2>1. /\ UNCHANGED <<phase, queue, told, value, connected>> /\ pc[t] = "fire"
        /\ arg' = [arg EXCEPT ![t].val = value[arg[t].id]]
        /\ pc' = [pc EXCEPT ![t] = IF connected THEN "put" ELSE "idle"]
    BY <1>9 DEF Fire, AsStored, clientVars, storeVars, Goto
  <2>2. CASE t = App
    <3>1. arg[App] \in Message /\ phase = "run"
      BY <1>0, <2>1, <2>2 DEF Working
    <3>2. arg'[App].id = arg[App].id /\ arg'[App].val = value[arg[App].id]
      BY <1>0, <2>1, <2>2, <3>1 DEF Message
    <3>3. CASE connected
      <4>1. pc'[App] = "put"
        BY <1>0, <2>1, <2>2, <3>3
      <4> QED
        BY <2>1, <2>2, <3>1, <3>2, <4>1 DEF Followed, Changing
    <3>4. CASE ~connected
      <4>1. pc'[App] = "idle"
        BY <1>0, <2>1, <2>2, <3>4
      <4> QED
        BY <2>1, <3>4, <4>1, NothingSaid DEF Followed
    <3> QED
      BY <3>3, <3>4
  <2>3. CASE t # App
    <3>1. pc'[App] = pc[App] /\ arg'[App] = arg[App]
      BY <2>1, <2>3
    <3> QED
      BY <2>1, <3>1, OthersFollow
  <2> QED
    BY <2>2, <2>3
<1>10. ASSUME NEW t \in Tasks, Put(t) PROVE Followed'
  <2>1. /\ UNCHANGED <<phase, arg, value>> /\ Enqueue(t) /\ pc[t] = "put"
        /\ pc' = [pc EXCEPT ![t] = "idle"] /\ told' = told
    BY <1>10 DEF Put, Goto, storeVars, Enqueue
  <2>2. arg[t] \in Message
    BY <2>1 DEF Working
  <2>3. CASE t = App
    <3>1. \A p \in Params : OnlyAppSets(p) => LastWord(queue', told'[p], value[p], p)
      <4> SUFFICES ASSUME NEW p \in Params, OnlyAppSets(p)
                   PROVE  LastWord(queue', told'[p], value[p], p)
        OBVIOUS
      <4>1. arg[t].id = p => arg[t].val = value[p]
        BY <2>1, <2>3 DEF Followed
      <4>2. arg[t].id # p => LastWord(queue, told[p], value[p], p)
        BY <2>3 DEF Followed, Changing
      <4> QED
        BY <2>1, <2>2, <4>1, <4>2, EnqueueFollows
    <3>2. pc'[App] = "idle"
      BY <1>0, <2>1, <2>3
    <3> QED
      BY <2>1, <3>1, <3>2 DEF Followed
  <2>4. CASE t # App
    <3>1. pc'[App] = pc[App]
      BY <2>1, <2>4
    <3>2. \A p \in Params : OnlyAppSets(p) => p # arg[t].id
      BY <1>0, <2>1, <2>4 DEF Working, OnlyAppSets
    <3>3. \A p \in Params : OnlyAppSets(p) /\ LastWord(queue, told[p], value[p], p) =>
              LastWord(queue', told'[p], value[p], p)
      BY <2>1, <2>2, <3>2, EnqueueFollows
    <3>4. \A p \in Params : OnlyAppSets(p) => Changing(p)' \/ LastWord(queue', told'[p], value'[p], p)
      BY <2>1, <3>1, <3>3 DEF Followed, Changing
    <3> QED
      BY <2>1, <3>1, <3>4 DEF Followed
  <2> QED
    BY <2>3, <2>4
<1>11. ASSUME NEW t \in Tasks, PutLost(t) PROVE Followed'
  <2>1. /\ UNCHANGED <<phase, arg, queue, told, value>> /\ pc[t] = "put lost"
        /\ pc' = [pc EXCEPT ![t] = "idle"]
    BY <1>11 DEF PutLost, clientVars, storeVars, Goto
  <2>2. CASE t = App
    BY <1>0, <2>1, <2>2 DEF Followed, Changing
  <2>3. CASE t # App
    <3>1. pc'[App] = pc[App]
      BY <1>0, <2>1, <2>3
    <3> QED
      BY <2>1, <3>1, OthersFollow
  <2> QED
    BY <2>2, <2>3
<1>12. CASE SnapshotEncode
  <2>1. /\ UNCHANGED <<phase, queue, told, value>> /\ pc[App] = "idle" /\ phase = "run"
        /\ pc' = [pc EXCEPT ![App] = IF connected THEN "send" ELSE "idle"]
        /\ arg' = [arg EXCEPT ![App] = [id |-> Head(snapshot).id,
              val |-> IF Head(snapshot).info THEN Info ELSE value[Head(snapshot).id]]]
    BY <1>12 DEF SnapshotEncode, clientVars, storeVars, Goto
  <2>2. pc'[App] \in {"send", "idle"}
    BY <1>0, <2>1
  <2>3. arg'[App].val \in {Info, value[arg'[App].id]}
    BY <1>0, <2>1
  <2>4. \A p \in Params : OnlyAppSets(p) => LastWord(queue', told'[p], value'[p], p)
    BY <2>1 DEF Followed, Changing
  <2> QED
    BY <2>1, <2>2, <2>3, <2>4 DEF Followed
<1>13. CASE SnapshotPut
  <2>1. /\ UNCHANGED <<phase, arg, value>> /\ Enqueue(App) /\ pc[App] = "send"
        /\ pc' = [pc EXCEPT ![App] = "idle"] /\ told' = told
    BY <1>13 DEF SnapshotPut, Goto, storeVars, Enqueue
  <2>2. arg[App] \in Message
    BY <1>0, <2>1 DEF Working
  <2>3. \A p \in Params : OnlyAppSets(p) => LastWord(queue', told'[p], value[p], p)
    <3> SUFFICES ASSUME NEW p \in Params, OnlyAppSets(p)
                 PROVE  LastWord(queue', told'[p], value[p], p)
      OBVIOUS
    <3>1. LastWord(queue, told[p], value[p], p)
      BY <2>1 DEF Followed, Changing
    <3>2. arg[App].id = p => arg[App].val \in {Info, value[p]}
      BY <2>1 DEF Followed
    <3> QED
      BY <1>0, <2>1, <2>2, <3>1, <3>2, EnqueueFollows
  <2>4. pc'[App] = "idle"
    BY <1>0, <2>1
  <2> QED
    BY <2>1, <2>3, <2>4 DEF Followed
<1>14. CASE SnapshotPutLost
  <2>1. /\ UNCHANGED <<phase, arg, queue, told, value>> /\ pc[App] = "send lost"
        /\ pc' = [pc EXCEPT ![App] = "idle"]
    BY <1>14 DEF SnapshotPutLost, clientVars, storeVars, Goto
  <2> QED
    BY <1>0, <2>1 DEF Followed, Changing
<1>15. CASE Connect
  BY <1>15, OthersFollow DEF Connect, storeVars
<1>16. CASE Disconnect
  <2>1. /\ UNCHANGED <<phase, arg, value>>
        /\ queue' = <<>> /\ told' = [p \in Params |-> Untold]
        /\ pc'[App] \in {pc[App], "put lost", "send lost"}
        /\ pc'[App] \notin {"put", "send"}
        /\ pc[App] = "idle" => pc'[App] = "idle"
    BY <1>0, <1>16 DEF Disconnect, storeVars
  <2>2. \A p \in Params : LastWord(queue', told'[p], value'[p], p)
    <3>1. DOMAIN <<>> = {}
      OBVIOUS
    <3> QED
      BY <2>1, <3>1 DEF LastWord
  <2> QED
    BY <2>1, <2>2 DEF Followed
<1>17. CASE Deliver
  <2> DEFINE m == Head(queue)
  <2>1. /\ UNCHANGED <<phase, pc, arg, value>> /\ queue # <<>> /\ queue' = Tail(queue)
        /\ queue \in Seq(Message)
        /\ told' = IF m.val = Info THEN told ELSE [told EXCEPT ![m.id] = m.val]
    BY <1>17 DEF Deliver, storeVars, Linked
  <2>2. \A p \in Params : told'[p] = IF Says(m, p) THEN m.val ELSE told[p]
    BY <2>1 DEF Linked, Says
  <2>3. \A p \in Params : LastWord(queue, told[p], value[p], p) =>
            LastWord(queue', told'[p], value'[p], p)
    BY <2>1, <2>2, ReadMessage
  <2> QED
    BY <2>1, <2>3 DEF Followed, Changing
<1>18. CASE UNCHANGED vars
  BY <1>18, OthersFollow DEF vars, clientVars, storeVars
<1> QED
  BY <1>1, <1>2, <1>3, <1>4, <1>5, <1>6, <1>7, <1>8, <1>9, <1>10, <1>11, <1>12, <1>13, <1>14, <1>15, <1>16, <1>17, <1>18
     DEF Next, SetSteps, SnapshotSteps

\* When nothing is under way, what a client was told last of a parameter that only
\* appTask sets is what the store holds, whatever else the sensors and resets do.
THEOREM ClientUpToDateHolds == Spec => []ClientUpToDate
<1>1. Init => Followed
  <2> SUFFICES ASSUME Init PROVE Followed
    OBVIOUS
  <2>1. Linked /\ ~connected /\ pc[App] = "idle"
    BY InitLinked DEF Init, Tasks
  <2> QED
    BY <2>1, NothingSaid DEF Followed
<1>2. WellTyped /\ Followed /\ [Next]_vars => Followed'
  BY StepFollowed DEF WellTyped
<1>3. WellTyped /\ Followed => ClientUpToDate
  <2> SUFFICES ASSUME Followed, Quiet, NEW p \in Params, OnlyAppSets(p)
               PROVE  told[p] \in {Untold, value[p]}
    BY DEF ClientUpToDate
  <2>1. pc[App] \in {"idle", "lock"}
    BY DEF Quiet, Tasks
  <2>2. LastWord(queue, told[p], value[p], p)
    BY <2>1 DEF Followed, Changing
  <2>3. queue = <<>> /\ DOMAIN <<>> = {}
    BY DEF Quiet
  <2> QED
    BY <2>2, <2>3 DEF LastWord
<1> QED
  BY AllTyped, <1>1, <1>2, <1>3, PTL DEF Spec
===============================================================================
