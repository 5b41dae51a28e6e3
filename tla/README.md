# espress-idf-conf in TLA+

A verification development for the ESP32 firmware in `src/`: a Bluetooth (SPP)
server through which a phone reads and sets the parameters of a device. It
models every part in which tasks meet, events race or bytes are cut up, checks
it with TLC on small instances, and proves the safety properties and the
refinements with TLAPS for instances of any size.

1. The system — 2. The modules — 3. The runs — 4. The findings — 5. The proofs —
6. Not modelled

## 1. The system

### Components, their state and their operations

| Component | State | Operations | Meets | Module |
|---|---|---|---|---|
| **FdConnection** `fd_connection.cpp` | `_running`, `_guarded`, `_fd`, `sendQueue`, `_sendTask`, `_closeCbSent`, the protocol object | `start`, `stop`, `enqueueSend`, the read task (`taskLoop`), the send task (`sendTask`) | its own two tasks, appTask, the parameter tasks | `FdConnection`, `SendChannel`, `ConnectionLife` |
| **Protocols** `protocol/` (Raw, PassphraseAes, EcdhAes) | `handshakeReceived`, `sendReady` (binary semaphore), `isClosed`, `buffer` | `init`, `appendReceived`, `send`, `sendCode`, `close`; `sendLine` of the connection | read task, send task, `stop()`, console: all on one descriptor | `WireProtocol` |
| **CryptoEcdhAes** `crypto_ecdh_aes.cpp` | the keys, one GCM context | key derivation and agreement, encrypt, decrypt | read task and send task, without a lock | `Crypto` |
| **Byte streams**, in `taskLoop` and `appendReceived` | `accum`, `buffer` | cutting lines, then frames, out of chunks | the peer | `ByteStream` |
| **ParameterStore** `parameter_store.cpp` | `params_`, `perId_`, `global_`, `mu_`, NVS | `setupDefaults`, `loadFromNvs`, `setX`, `getX`, `onChange`, `onAnyChange` | appTask, sensor tasks, LED task, ParameterSync | `ParameterStore` |
| **ParameterSync** `parameter_sync.cpp` | `connection_` | `handleSetParameter`, `sendParameterValue`, `sendAllParameters(Info)`, `set/removeConnection` | called with `mu_` held, blocks on the connection's queue | `ParameterStore` |
| **Application** `main.cpp`, `send_delayed.cpp` | `g_conn`, `appQueue`, one-shot timers | `setupConnection`, the connection's callbacks, `appTask`'s commands | everything | `App` |
| **BtSppServer** `bt_spp_server.cpp` | `started_`, `name`, `g_fd`, what the stack holds | `start`, `stop`, the events of `spp_cb` | gives the application a descriptor, closes it when the link goes | `BtSppServer` |
| **SerialLineReader** `serial_line_reader.cpp` | task handle, line buffer | `start`, `stop`, one callback per line | `sendLine()` through `g_conn` | `SerialLineReader`, `App` |
| **LED task** `led_blink_task.cpp` | `ledEnabled_`, `blinkCount_` | bursts of blinks; two callbacks of the store | ParameterStore | `LedBlink` |
| **Joystick, uptime tasks** | their last values | a periodic `setInt` | ParameterStore | `ParameterStore` (as `Sensors`) |

### What is hard in it

* **Concurrency.** A connection is used by its read task and send task
  (priority 3), appTask, the sensor tasks and the console (5), and the Bluetooth
  stack. `stop()` is raced into by appTask and the read task, deletes the queue
  the others use, and waits for a task that may itself be waiting. `g_conn` is a
  plain pointer that three tasks set, test, use and delete.
* **Locks held across blocking calls.** `setValue_()` holds `mu_` while it
  commits NVS and runs callbacks; one of them may block on a full send queue.
* **Ordering.** A frame is two writes; the handshake reply is two writes; lines
  and codes of other tasks go on the same descriptor. Snapshots are read without
  the lock that the changes hold. Commands do not say which connection they are
  for, and reach the one that is there when their turn comes.
* **Failure.** The link goes at any moment; the handshake may never come (5 s
  time-out); a task or a timer may not be created; NVS, mbedtls and the Bluetooth
  stack fail and mostly nobody looks; the chip resets.
* **Limits.** 16 items in each queue; commands are posted with a zero time-out;
  the header of a frame is one byte; a line has a greatest length.

What makes each component correct:

* *FdConnection*: one teardown, in the right order; the send task never uses what
  was deleted; `stop()` always ends; a lost link is announced; the channel is
  ordered and nothing is sent twice.
* *Protocols, Crypto, byte streams*: nothing is sent before the handshake reply;
  the peer can find the frames in what is written, and the device in what it
  reads, however it is cut; the header tells the length; nothing false is
  delivered and nothing is sealed for anyone but the client that was let in.
* *ParameterStore/Sync*: bounds always hold; what a client was told survives a
  reset; a client and a watcher end up with the current value; a set returns
  (unless its connection ends under it, section 4).
* *Application*: no connection is forgotten or deleted under its tasks; a closed
  one is deleted; what a client was told will happen to it happens.
* *Server, console, LED*: the server that runs has the name that was set and no
  descriptor is left open; lines arrive; the LED comes to show the parameters.

`PROJECT.json` lists the hazards, each at its line, with the properties that
watch over it or the reason none does.

## 2. The modules

| Module | Models |
|---|---|
| `FdConnection` | one FdConnection object from `start()` to the end of its tasks |
| `SendChannel` | abstract: what `enqueueSend()` and the send task promise together |
| `ConnectionLife` | abstract: start, stop, teardown and close callback, as the owner of a connection sees them |
| `WireProtocol` | the order of what is written on the descriptor, for each protocol |
| `Crypto` | where the key comes from and who is let in; two tasks on one context |
| `ByteStream` | from the bytes of `read()` to lines and frames |
| `ParameterStore` | the store, ParameterSync, the setting tasks, NVS and resets |
| `App` | `g_conn` over several connections, the commands, the delayed restarts |
| `BtSppServer` | start-up and restarts of the server, links and their descriptors |
| `SerialLineReader`, `LedBlink` | the console's lines; the LED |
| `*Proofs` | theorems about the module of that name (eight of them) |
| `MC*` | values of the constants for TLC; `MCTasks` puts three parts in one run |

How they fit together: `FdConnection` implements `SendChannel` and
`ConnectionLife` (checked and proved). `ParameterStore` uses that channel as a
queue the client empties. `App` has an abstract connection in place of
`FdConnection`; while clients are patient each of its connections is a
`ConnectionLife` as well (proved), so what `App` assumes of a connection is what
`FdConnection` gives, and what `FdConnection` assumes of its owner (no `stop()`
before `start()` has returned, for one) is what `App` keeps to. The order
of the bytes of one connection is `WireProtocol`'s (outgoing) and `ByteStream`'s
(incoming); `Crypto` says what the frames are worth. The descriptors that
`BtSppServer` hands out are the connections of `App`.

### FdConnection

One program counter per task; a step is one access to something shared (a flag,
the queue, the descriptor, the semaphore), so `stop()` alone is seven actions
(`StopEnter` ... `StopCallback`, `AfterStop`). The variables keep the names of
the members. Kept: `_running.exchange(false)` lets one caller in and sends the
others back at once; the poison pill is dropped if the queue is full; the wait
for `_sendTask`; deletion and unlinking of the queue as two steps, between which
the handle dangles; the second close path at the end of `taskLoop()`; the
failure to create either task. A blocked `xQueueSend` is an action that is not
enabled. Using a deleted queue is undefined behaviour: `EnqueueOnDeleted` lets
it reset the chip (`panicked`), lose the item, or block for ever.

Abstracted: bytes. An item is its number, a line or a frame is one unit of a
chunk. `writeAll()` is one step that needs a peer that reads or a descriptor
that is closed. Assumed of the application: `start()` is called once, `stop()`
and `enqueueSend()` not before it has returned, and the object is not deleted
meanwhile; `App` shows when the application breaks this.

`ImplementsChannel` is the refinement of `SendChannel`: what is pending is the
item the send task holds and what the queue holds, but for the poison pill.
`HasLife` is that of `ConnectionLife`: torn down means that the descriptor is
closed, the queue null and the send task gone; the tasks are in `stop()` from the
exchange of `_running` to the return of the callback.

### WireProtocol

The wire is a sequence of tokens, one per `writeCb()` call or line, which is
what `_writeMtx` makes atomic: the empty header of `init()`, the two halves of
the handshake reply, codes, header and body of each frame, and lines. The read
task, the send task and the consoles append to it; the variable `kind`, chosen
at the start, says which protocol was configured. What differs between the
three: whether a wrong handshake is answered, whether frames are unreadable, and
whether `isClosed` is looked at. The length of a body and the one-byte header
are computed; the contents are not.

### Crypto

Two of the protocols (`mode`). With PassphraseAes the key is derived when the
object is made; with EcdhAes the handshake comes in the clear, its passphrase is
compared, and the key agreed. Clients are their keys, some of them `Trusted`.
Cryptography is perfect, but an operation on the GCM context lasts from its start
to its end, and if the tasks' operations overlap the frame that is opened may be
refused. A frame that is refused reaches the application as an empty message, as
in the code.

### ByteStream

A step is one `read()`, one line (`TakeLine`, `TakeGuard`), one frame
(`TakeFrame`) or the end of a turn (`Erase`, `FramesDone`). The word "guard" is
one byte; the rest is the code's: the part of a chunk after the guard
line goes to the protocol, `accum` is erased a second time at
`fd_connection.cpp:204`, and a line that is longer than `MAX_ACCUM` is dropped.
Where that second erase goes past the end (`overrun`), which is undefined, the
model goes on with the outcomes that leave the chip alive; the buffer is not used
again. The properties look at the whole stream and not at its chunks; for them the
history variables `ends` and `heads` keep the places in the stream where a line
was seen to end and a frame to begin.

### ParameterStore

`setValue_()` is four steps under `mu_` (write the value, `nvs_set`,
`nvs_commit`, callbacks) and a fifth, the blocking put on the connection's
queue. A value carries the number of the change that made it, so that "newer"
and "older" can be said. NVS has a staged and a committed content; a reset
keeps either. With `NvsFails` any `nvs_get`, `nvs_set` or `nvs_commit`, those of
the start too, may fail, and nobody looks. The client is the last value it was told of each parameter. The
snapshot is walked without the lock, as `sendAllParameters()` does. An integer
stands for every type; a request that is not decodable changes nothing and is
left out. A full `appQueue` is the lost snapshot in `Connect`. A call whose
connection ends while it waits for room (`PutLost`, `SnapshotPutLost`) may return
or may not: `stop()` deletes the queue and wakes nobody. `FdConnection` has the
third outcome, a reset (`EnqueueOnDeleted`); here that is `Reset`.

### App

Five kinds of task: appTask, the Bluetooth task that runs `setupConnection()`, the
read task of each connection, the console, and a sensor task; and the timers of
`sendDelayed()`. A step is one access to `g_conn`, so "delete it" and "set it to
null" are two. What C++ leaves undefined (a null or a deleted object is used, an
object is deleted twice) sets `fault` and ends the behaviour; a task that is left on
a deleted object may fault (`StrayTouch`) or get away.

Every send of appTask (`Sends`) may block: the snapshot, which is more messages than
the queue has room for, the notice that the client must reconnect, and the message
that `setString()` sends with `mu_` held. While it blocks appTask takes no command.
What it waits for is not appTask's to do, so `AppSent` is an action by itself; a
wait for the queue of a connection that has ended (`CutOff`) may last for ever, and
may fault. The variable `sensor` is a sensor task in the same wait, whose `mu_`
appTask's next `setString()` then needs. `lost` has the Cleanups and restarts that
found no room in the queue or no timer, and a restart of the server that failed or
was refused: `AppRestartsServer` is `bt.stop(); start_bt();`, whose results nobody
looks at, and `BtSppServer` shows how they fail.

The variable `patient` says what the clients are like: patient ones connect when
nothing of the last link is left, eager ones at any time. **Nothing in the code
makes a client wait.** With eager clients `setupConnection()` deletes a connection
in use, appTask and the Bluetooth task delete one object twice, and parameterSync
keeps a deleted connection: the model has all of it. The invariants but `TypeOK`,
and `ClosedIsDeleted`, say `patient`, and show that with such clients
the protocol of posts and callbacks does work, though commands get lost in a full
queue, memory runs out, and restarts meet a connection they were not meant for.
`ClosedIsDeleted` and `NameIsServed` have as a premise that no send is left cut off
for good (`[]<>~CutOff`), `NameIsServed` also that clients read what they are sent
(`ClientsRead`): without either premise the model, like the code, breaks them.

### BtSppServer

`start()` makes a row of calls; INIT, VFS_REGISTER and START answer them as
events of another task, which sets `started_`, on which `stop()` relies. A name
is its version. The member `name` points into a string that dies when `start_bt()`
returns (`alive`): a read after that may show anything (`Garbage`). `spaced` says
that restarts come only when the server is up; a hasty restart is lost, because
`stop()` finds `started_` unset and the controller then refuses `start()`, and
the last name is never shown.

### SerialLineReader, LedBlink

A step takes one byte of a chunk; `start()` and `stop()` make and delete the
task, in the middle of a chunk too. The history `place`, `places` has the places in
the stream of the characters of each line. The LED task reads its two members, set
by another task without a lock, at every blink; `seen` is what the count was during
the burst. (That a callback can be missed altogether is in `ParameterStore`,
finding 2.)

## 3. The runs

| Run | Question | Bounds |
|---|---|---|
| `connection` | One connection with every interleaving of its tasks, appTask (which sends and stops) and a task that only sends: types, one teardown, the send task and the queue, what the close callback tells, handshake before frames, refinement of `SendChannel` (which has the order) and of `ConnectionLife`; does `stop()` end, is a lost link announced, is a blocked sender released | queue of 2 (16 in the code), 3 items, chunks of 2, the protocol that looks at `isClosed` |
| `wire` | framing, late lines, header lengths, whole raw frames | all three protocols, 2 messages of 2 sizes, 4 inputs, a console with 2 lines |
| `store_safety` | durability, is the client up to date | one editable and one sensor parameter, 3 changes, queue of 2, NVS works |
| `store_liveness` | do the bounds hold and does a set return, though every NVS call may fail | no request after the first change (two tasks that have asked by then both change a value), queue of 1 |
| `store_stale_snapshot` | *violated*: finding 1 | as `store_safety` |
| `store_missed_change` | *violated*: finding 2 | as `store_safety` |
| `app` | is a connection deleted under its send task or forgotten, does parameterSync hold a deleted one, is one with an old passphrase about to close, is a closed one deleted, is the new name served, though appTask may block in every send | 2 connections, command queue of 2, 2 messages of patient clients and 1 of eager ones, no memory at times |
| `app_leaving` | *violated*: finding 3 | 2 connections, 2 messages, memory enough |
| `server` | does `started_` tell the truth, is a descriptor left open, is the last name shown | 2 restarts, 2 links, every call and event may fail |
| `server_dead_name` | *violated*: finding 4 | 1 restart, 1 link, nothing fails |
| `keys` | is anything sealed for, or delivered from, anyone but the client that was let in | both AES protocols, 3 clients of which 2 know the passphrase, 4 frames each way, mbedtls may fail |
| `tasks` | do lines and frames arrive however the stream is cut, is the memory bounded; the console's lines; do bursts follow the parameter, does the LED go dark | streams of 6 bytes in chunks of up to 5, `MAX_ACCUM` 2; buffer of 4, 2 starts; counts 1 to 4 |

Why the bounds are enough to be interesting.

* `connection`: with 3 items and a queue of 2 the queue fills while the send task
  holds an item, so the pill is dropped, a sender blocks, and both races of
  `enqueueSend()` with the deletion occur. A chunk of 2 lets a guard line be
  followed by a frame in the same `read()`.
* `wire`: four inputs are a guard line, a handshake, and two more frames, good or
  bad, around the writes of two messages. The sizes are 6 bytes and 167, the
  longest message the application encodes (195 bytes when encrypted, so the
  header's top bit is set).
* `store_*`: three changes let a value be set, overtaken and set back across a
  reset; the editable parameter's bounds are 1 and 2 and the requests ask for 0
  and 3, so each is clamped, from below and from above. For `SetCompletes` the case
  that matters is two tasks in `setValue_()` at once, one with `mu_` at the full
  queue; for `InRange`, a value that is clamped, staged, committed or not, and
  loaded again.
* `app`: two connections are enough for a command to reach the wrong one; two
  messages with the snapshot's command or a Cleanup overfill a queue of two, and
  one sets a name while another send, appTask's or a sensor's, is blocked. The eager
  clients have one message only since their behaviours branch into faults early.
* `server`: two restarts, so that a second one can meet the first half-way; two
  links, so that a late CLOSE can meet the next link's descriptor.
* `keys`: a refused client, the accepted one and a message of either afterwards.
* `tasks`: six bytes hold a guard line with a line before it and a frame after it,
  and a line that is longer than `MAX_ACCUM`.

Every property of a passing run has a mutant in `PROJECT.json`: a change of one
definition, the kind of slip a later edit of the code could make, that breaks it.

Deadlock is not checked: a connection ends, inputs are bounded, and a panic stops
the chip.

### Fairness

* `FdConnection`: each task runs again when it is ready (weak fairness per
  task). FreeRTOS schedules by priority, but every loop of these tasks sleeps or
  blocks, so a lower priority is not starved for good. Nothing is assumed of the
  link, the callers or the peer: a write returns for certain only once the
  descriptor is closed. `BlockedCallerReleased` has the peer that reads as its
  premise (`PeerReads`).
* `ParameterStore`: strong fairness for taking `mu_` and for a put on a full
  queue, as FreeRTOS wakes waiters in priority order and then first come first
  served, and the tasks have the same priority; weak fairness for the rest of
  `setValue_()` and for the start; and a client that reads. None for a call whose
  connection ended under it: the premise of `SetCompletes` is that the store is
  again and again without such a call (`[]<>~CutOff`).
* `App`: weak fairness of `setupConnection()`, of appTask, of the timers and of
  what the read tasks do without the client; strong fairness of `DoSet`, which takes
  `mu_`. None for the clients, the console, a task on a deleted object, or a send
  that waits for room: what a reading client does for it is a premise
  (`ClientsRead`) and not part of the specification.
* `BtSppServer`: the stack delivers its events, and `start_bt()` runs to its end.
* `LedBlink`: the delays end.
* `WireProtocol`, `Crypto`, `ByteStream`, `SerialLineReader` have safety
  properties only.

## 4. The findings

1. *Stale snapshot* (`store_stale_snapshot`). `sendAllParameters()` reads a value
   without the lock; the joystick changes it and queues the change; then the
   snapshot's older value is queued. The client shows the old position until the
   joystick moves again. For a parameter that only appTask sets this cannot
   happen (`ClientUpToDate`), since appTask sends the snapshots too.
2. *Missed change* (`store_missed_change`). `onChange()` calls the watcher and
   then registers it; a change in between is lost to the LED task.
3. *Restart without a connection* (`app_leaving`). The restarts that a new
   passphrase or name sets off come a second later and call `g_conn->stop()`
   without a test. A client that reconnects at once, as it is told to, has left by
   then: a null pointer.
4. *A name that is no more* (`server_dead_name`). `start_bt()` gives the server
   `c_str()` of a local string, which the stack's events read later.

What the model also shows, where no document promises otherwise (the hazards in
`PROJECT.json` have the lines):

* An eager client, one that connects before the last connection is gone, makes two
  tasks delete one object, or one be deleted under its tasks (see `App` above).
* A restart that is lost, in a full queue or for want of a timer, leaves the old
  passphrase in use although the client was told that it will be disconnected
  (`main.cpp:143`), and the old name in the air. `OldPassphraseIsDoomed` and
  `NameIsServed` except it.
* A task that sends while its connection is taken down may stay blocked for ever: the
  queue it waits for is deleted and nobody wakes it. A setter keeps `mu_`, so that no
  parameter can be set again; appTask takes no command again, so that it cleans up
  no connection and makes no restart. No document promises otherwise;
  `SetCompletes`, `ClosedIsDeleted` and `NameIsServed` except it.
* A client that does not read what it is sent holds appTask, in the snapshot already,
  as long as its link lasts, and with it every restart (`NameIsServed`).
* A restart of the server that fails is not tried again: the server is gone, or bears
  the old name (`NameIsServed` has it among what was lost).
* A restart of the server that comes before the last one has brought it up loses
  the name. `LastNameIsShown` has `spaced` as its premise.
* A burst of the LED may have a number of blinks that the parameter never had.
* With failing NVS calls the client may be told a value that does not survive.
* `start()` that fails half-way leaves the send task on an object that is deleted.

## 5. The proofs

All for any tasks, clients, parameters, queue lengths and other bounds, from the
named assumptions of the modules (the tasks are different tasks, a queue holds at
least one item, a default is within its bounds, the parameters are finitely many).
What more a theorem needs is a premise in its statement. None of the properties
below is inductive; each follows from an invariant that says how far the tasks
have got.

**FdConnection** (`FdConnectionProofs`). `TypeCorrect` first: flags, labels and
data are three lemmas, one case per action. Then `Inductive`: that the send
task has left when the queue is gone only follows if one knows who may delete the
queue and when. The argument is the life of `stop()`. `OneStopper` says that
exactly one task wins the exchange of `_running`: nobody is in `stop()`, or one
task is, or nobody is again and the callback was sent. `Descriptor`,
`QueueHandle` and `SendTaskFlag` say what each stage of that task has
established (descriptor closed before the pill, queue alive until the send
task's flag is down, handle null before the callback). `Starting` covers the
time in which only `start()` acts, and a failed start. `Handshaking` is the
second argument: `sendReady` is a permit that only a written reply gives. From it:
`TeardownOnceHolds`, `QueueOutlivesSendTaskHolds`, `ClosedIsInertHolds`,
`SendsOnlyAfterHandshakeHolds`.

`DeliveredInOrderHolds` and the refinement `ImplementsChannelHolds` rest on
`ItemsInOrder`: what was sent lies below what the send task holds, this below what
the queue holds, with the pill anywhere in between. Six kinds of steps
(`ItemsStay` ... `ItemWritten`) are all there is to the items (`StepItems`); each
is a step of the channel or a stutter. That the channel has room for an item that
the queue has room for needs the set of pending items to be counted
(`FiniteSetTheorems`).

`OrderedHolds` is the channel's own invariant: what was delivered lies below what
is pending, which lies below the next number. `DeliveredInOrderHolds` is that
theorem seen through the refinement, and so needs no run of its own.

The refinement `HasLifeHolds` asks where `stop()` is in every task: `LifeFlags`
says what of the teardown the flags show at each place of it, and a step is one of
the life or a stutter (`StepLife`), for which `Inductive` says that only one
task is there. `OneEndHolds` is a property of `ConnectionLife` alone: one task at a
time is in `stop()`, and what is announced has been torn down; `EndsOnceHolds` has
it for the connection.

**WireProtocol** (`WireProtocolProofs`). `Stage` is the order of the tasks: the
handshake comes after the guard line, the semaphore after the reply, the frames
after the semaphore. `WellFramedHolds` adds `Position` (where the tasks are says
which framing token is the last on the wire) and `Taken` (every token is of a
message taken so far). `LateLinesHolds` counts: after the first answer, lines
written late and consoles about to write are no more than the consoles
(`LateAndWriters`; the consoles are finitely many). `HeaderTellsLengthHolds` has
the premise `SizesFit`, that an encrypted body is shorter than 256 bytes, and
keeps that the tokens of the last message have its size (`FramesOfTheLast`).
`RawFramesWholeHolds` needs that a header which is the last token belongs to a
send task about to write the body (`BodyIsNext`).

**Crypto** (`CryptoProofs`). The invariant follows the handshake: once it is
accepted the key is the accepted client's and never changes (`KeyOrigin`), and
before it nothing is sealed or delivered (`Sealed`, `Delivered`); `Reading` says
what the read task knows of the frame it is at. From it `KeyAgreedHolds` and
`OnlyGenuineHolds`.

**ParameterStore** (`ParameterStoreProofs`). `InRangeHolds` needs that a task in
`setValue_()` has a parameter to clamp for (`Arguments`), and that RAM, the
staged and the committed content are all clamped values (`Contents`), since
`loadFromNvs()` takes what it finds. `TypeCorrect` adds where the tasks are
(`Working`), what is queued (`Linked`) and the watchers. `NeverForgetsHolds`,
under the assumption
that NVS calls do not fail, needs `OneWriter` (no sensor task comes to the steps
that write NVS, so a commit never flushes another task's half-made change),
`InStep` (RAM and both layers of NVS agree on every editable parameter but the
one appTask is at, and what differs is newer) and `Messages` (a message on its
way into the queue says nothing newer than NVS holds, and a snapshot is read
when appTask is not in `setValue_()`). The mutex plays no part in it: it is the
single writer that makes it true. `ClientUpToDateHolds` rests on `Followed`: for a
parameter that only appTask sets, the last word of the queue about it, or what the
client was told if there is none, is the value of the store, but while appTask is
between the change and its message.

**BtSppServer** (`BtSppServerProofs`). `StartedIsUpHolds`: at most one row of
start-up events is on its way (`OneRow`), so the end of one never marks a stack
that a later `stop()` has taken down.

`NoLeakHolds` and `ClosesItsOwnHolds` are about `g_fd`, the one descriptor that the
server remembers. `Turns`: opens and closes take turns among the events on their
way, a descriptor in `g_fd` has its close before the next open, and any other open
one has a connection to close it. `Own`: a close is of the link whose open is the
last before it, or of `g_fd` if there is none. So `ESP_SPP_CLOSE_EVT`, which
closes `g_fd` and ignores what the event is about, never closes the descriptor of
another link, with restarts and connections that close theirs in between.

**ByteStream** (`ByteStreamProofs`). The invariant `LineInv` ties the code's
variables to the whole stream: `accum` is what is left of it (`Typed`, `Phase`),
the next line begins where the last one ended, or so far back that more than
`MAX_ACCUM` bytes were dropped (`Unfinished`), every line feed before that was
seen (`EndsSeen`), and every line in between has arrived (`AllArrived`). The lemmas
`Piece` ... `RestOfRest` say what a part of a sequence is when the sequence grows
or loses its head. From it `LinesArriveHolds`; `FramesArriveHolds` adds
`FrameInv` (frame after frame from the guard line on, the buffer being what comes
after the last), and `AccumBoundedHolds` rests on `AccumInv`.

**Console, LED** (`TasksProofs`, over the run `tasks`). `ConsoleInv`: the line under
way is what was typed since the last line feed, as far as it has room
(`Current`), the lines said are of earlier and different parts of the stream
(`Said`), and no character is missing (`AllCovered`); from it
`ConsoleLinesArriveHolds`. `BurstInBetweenHolds`: before a blink some value the
count had is still greater than the blinks so far (`BurstBounded`).
`PartsTogether`: a behaviour of the run is one of each of its three parts, so that
their theorems hold of it.

**App** (`AppProofs`). `TypeCorrect` for all clients. For patient ones an invariant
of six parts: only `g_conn`'s connection runs and at most one task takes it down
(`Owned`), where appTask is in `stop()` and goes after a call (`Stopping`), a Cleanup is under way and a
connection deleted only when `stop()` has come to its end (`Deleting`), what
`setupConnection()` finds (`SettingUp`), how long parameterSync has a connection
(`Synced`), and that a set passphrase has its restart on the way (`Doomed`). A queue
is abstracted to the set of its commands (`CommandsIn`). The many steps in which
appTask only goes on to another place, blocked in a send or not, are one lemma
(`GoesOn`), for places outside `stop()` and the deletion (`Elsewhere`). From it
`SendTaskGoneHolds`, `SyncIsLiveHolds`, `NoneForgottenHolds`,
`OldPassphraseIsDoomedHolds`, also when memory runs out and commands are lost.

`LivesHold` joins `App` to `FdConnection`: while clients are patient each
connection is a `ConnectionLife`. The steps are those of `stop()`, called only for a
connection that runs and has been started (`Owned`, `Stopping`), and those of
`start()`, which meets a connection of which nothing was torn down (`Fresh`).
`LivesEndOnceHolds` is `OneEnd` seen through it:
a connection is torn down by one task at a time and before its Cleanup is posted,
whether the application or its read task ends it.

Only model-checked:

* every liveness property (`StopCompletes`, `LostLinkIsAnnounced`,
  `BlockedCallerReleased`, `SetCompletes`, `ClosedIsDeleted`, `NameIsServed`,
  `LastNameIsShown`, `LedSettles`, `LedSwitchesOff`): fairness and ENABLED are
  beyond the prover.

Every invariant that a run checks and every refinement are theorems, and so is
`ClosesItsOwn`, an action property that no run needs. What is left
worth proving: that the store's RAM and NVS implement a durable store in which a
set is one step, and as action properties what holds between two states (a
connection's handshake is never undone, a committed value is replaced only by a
newer one).

## 6. Not modelled

* Contents of messages, protobuf encodings (`model/`, whose definitions are a
  submodule), message numbers: only lengths and whether a frame is readable matter
  to the properties. Cryptography itself and mbedtls are external to `Crypto`.
* The joystick's ADC, its thresholds and periods; `stop()` of the joystick, uptime
  and LED tasks, which nothing calls. Those tasks are `Sensors` of the store.
* `gap_cb()` of the server (pairing, PINs) keeps no state; more than one phone.
* `moveFrom`, `operator=`, `saveEditableToNvs`: no caller.
* A string that is read while it is assigned (the passphrase, `main.cpp:58`): the
  store has integers.
* The composition of the modules into one: `App` over several detailed
  `FdConnection`s is out of TLC's reach, hence the abstract connection in `App`;
  `ConnectionLife` is what the two are proved to share.
* The pins, the UART's set-up, logging, the build.
