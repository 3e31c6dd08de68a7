# Formal models of tesla-ble-zig

The repository talks to a Tesla over Bluetooth Low Energy: a client library in
Zig (`src/src`), an ESPHome component in C++ that drives it
(`src/esphome-tesla-ble-local`), a standalone ESP32 firmware (`src/standalone`,
`src/src/firmware.zig`) and wrappers for phones. This directory holds TLA+
modules of its control logic, the TLC runs that check them on small instances
and proofs, checked by TLAPS, of what they promise for all instances.

Run a model with `tlc -config X.cfg M` and check a proof with `tlapm M.tla`.
The files named `...Proofs.tla` hold theorems only.

In comments and below, `cpp` is `tesla_ble_vehicle.cpp` and `.h` its header.

## The system

| Part | State | Operations | Who calls it |
| --- | --- | --- | --- |
| Command queue (`queue.zig`, bindings in `c_bindings.zig`) | ring of 32 commands, head, count, next id | `pushBack`, `placeAtFront`, `popFront`, set the front's state | ESPHome component, firmware |
| ESPHome component (`cpp`, `.h`) | the queue, `command_callbacks_`, per domain a session (in the client), the sensors asleep and unlocked, the GATT link, read, write and response queues | `loop()`: chunk queues, one response, one step of the front command; `update()`: polling; GATT events; user commands | ESPHome's main task: loop, update and users never overlap, GATT events are callbacks between them |
| Scheduler (`scheduler.zig`) | times of the latest polls, wake and charging state | `tick` | `update()` |
| Keys and sessions of the component (`cpp`, `.h`) | private key and session infos in flash, the C++ client's key and sessions, a Zig client that mirrors them | `setup()`, `loadSessionInfo`, `handleSessionInfoUpdate`, `invalidateSession`, `regenerateKey`, pairing | GATT events, responses, users |
| Client (`client.zig`) | key pair, two sessions, last request hash, connection state machine | build messages, `handleSessionInfoResponse`, `decryptResponse`, connection events | both products |
| Session (`session.zig`) | epoch, counter, clock, key, validity, `SeenCounterCache` | `updateSession`, `incrementCounter`, encrypt, decrypt, `validateResponseCounter` | client |
| Connection state machine (`csm.zig`) | one of six states, attempt counters | `handleEvent` | client |
| Standalone firmware (`firmware.zig`, `nimble.zig`, `main.c`) | queue, client, `pending_pair_request`, `processing_queue`, reassembly buffer, GAP and GATT handles | MQTT commands, Bluetooth callbacks, `processQueue` | two FreeRTOS tasks: MQTT and the NimBLE host |
| Messages, cryptography, bindings, wrappers, logs, configuration | none of its own | encoding, forwarding | all |

What is hard here:

- **Attribution.** The vehicle's answers are matched with whatever command is in
  front of the queue, by its state and domain, never by a request id. Priority
  commands are inserted while another is being served.
- **Sessions that vanish.** A fault, a refused update or a failed build
  invalidates the session that the front command relies on, in any of its states.
- **Retries.** Retry counts are reset by each authentication and each wake. Late
  answers to earlier attempts arrive during later ones.
- **Sessions in four places.** The C++ client, the Zig client, its state machine and
  the flash each keep a part of a session, are written at different moments and
  lose different parts in a restart, a reconnection or a failed write.
- **Torn messages.** Chunks wait in queues that outlive commands and connections;
  commands empty the buffer of a message that is half received.
- **Late answers.** A session info or a response that comes late moves the signing
  counter back, or meets a session and a request hash that have moved on.
- **The ring.** Insertions at the front slide commands through positions that wrap.
- **Two tasks, no lock.** The firmware keeps its queue to one task at a time by a
  Boolean, and three records of the connection (state machine, validity of the
  sessions, radio) are moved by different events.
- **Boundaries.** Ids and times are `u32` that wrap, the replay cache is a ring of
  16, buffers are finite.

What makes each part correct is stated with its module below. The hazards, each at
the line where it bites, are listed in `PROJECT.json`. Where the properties of a hazard
cover a part of it only, because the rest is what the code does, a note says which.

## The modules

| Module | Models | Composes |
| --- | --- | --- |
| `CommandList` | what the queue promises: a bounded list with unique ids, priority commands at the front but behind a started one | |
| `CommandQueue` | `queue.zig`: slots, head, count, the slide loop, the id counter | implements `CommandList` |
| `CommandService` | what the pipeline promises: one command at a time, to its end, on a clock that is not set back; the others in order | |
| `VehicleCommands` | the command pipeline of the ESPHome component | `CommandList` (insertion); implements `CommandService` |
| `LossyChannel` | what a transport may at most do wrong: lose messages, never repeat, tear or reorder them | |
| `MessageTransport` | the chunk queues and the read buffer of the component | implements `LossyChannel` |
| `PollingScheduler` | `scheduler.zig`, `update()` and the events that move what they read | |
| `MCPollingScheduler` | the view under which TLC explores it | `PollingScheduler` |
| `StoredSessions` | keys and sessions of the component in memory and in flash | `ConnectionStateMachine` |
| `RecentResponses` | what the replay check promises: a window of the latest responses | |
| `SeenCounterCache` | the replay check of `session.zig` | implements `RecentResponses` |
| `ClientSession` | one session of the Zig client, signing and decrypting, with the vehicle | `SeenCounterCache` |
| `ConnectionStateMachine` | `csm.zig` as an operator from state and event to state | |
| `StandaloneFirmware` | the two tasks of the firmware | `ConnectionStateMachine` |

### CommandQueue

The variables are the fields of the Zig struct. Only the id and the state of a
command are kept: the other fields ride along. `Slide` is the loop of
`placeAtFront` with its modular positions; `PlaceAtFront` is the whole function,
the test of the front's state included. A slot that was never written holds
`Undefined`. `next_id` skips 0 when it wraps at `MaxId` (0xffffffff).

### VehicleCommands

One `loop()` with notifications enabled is two steps of the model, because the
code handles first at most one response (`process_response_queue`, phase "top")
and then at most one step of the front command (`process_command_queue`, phase
"command"); nothing runs between the two. `ClearOne` is a `loop()` on a link that
is not established. Each state of `BLECommandState` has its actions: 

| State in the code | Actions |
| --- | --- |
| any, no callback or too old | `Abandon` |
| IDLE | `StartIdle` |
| WAITING_FOR_VCSEC_AUTH, _INFOTAINMENT_AUTH | `AwaitVCSECAuth`, `AwaitInfotainmentAuth` |
| ..._AUTH_RESPONSE | `AuthResponseTimeout`; answers: `SessionInfo` |
| WAITING_FOR_WAKE, _WAKE_RESPONSE | `SendWake`, `WakeSeen`, `PollWake`; answers: `VehicleStatus` |
| WAITING_FOR_LOCK_RESPONSE | `AwaitLockResponse` |
| READY | `GiveUpExecuting`, `Execute`, `ExecuteFails` |
| WAITING_FOR_RESPONSE | `ResponseTimeout`; answers: `VehicleStatus`, `CommandStatus`, `CarServerResponse` |
| WAITING_FOR_GET_POST_SET | `GetPostSet` |

`Fault`, `FaultWithSessionInfo`, failed builds and `MoveClosure` invalidate a
session from whatever state the front is in. `Enqueue` is what users and
`update()` issue; `Opened`, `Established`, `Disconnected` are GATT events.

Abstractions, and why they lose nothing that is asked:

- Times are kept as ages that stop growing just above the largest timeout they
  are compared with. A fresh command has `last_tx_at = 0`, so its last
  transmission is as old as the uptime: longer than any latency, except in the
  first four seconds after boot, in which no link is established.
- The queue is a sequence with ids from 1 to `Capacity`, the lowest free one first.
  `CommandQueue` shows that the ring is such a list and that live ids differ
  until 2^32 commands have been issued.
- The vehicle and the link may send any message at any time: late, twice or never.
  The read, write and response queues therefore add nothing here; they have
  `MessageTransport` to themselves. What a message must contain to have an effect
  is in the guards.
- The library `TeslaBLE::Client` that the component links is external. Building a
  signed message fails without a session and may fail otherwise; nothing else is
  assumed of it.
- `sent` and `checks` are history: what a command had transmitted under the latency
  timer (itself, session requests, wakes), and the status requests of
  WAITING_FOR_LOCK_RESPONSE, which leave that timer alone.
- A status of UNKNOWN publishes `NAN` to a binary sensor, which reads as TRUE.

`CommandService` is what is left of the pipeline when states, sessions and answers are
forgotten. Its `serving` is the front command once it has left IDLE (`ServedId`), its
`waiting` the ids of the others, its `age` the time since `started_at`. A command
starts (`Start`), goes unserved (`Withdraw`), or ends (`Leave`), which may leave the
get of a set behind; nothing else touches the one being served.

### MessageTransport

`loop()` is four steps: `process_ble_read_queue` (one chunk joins the buffer, or
finds no room), `process_response_queue`, `process_command_queue` (reduced to what
it does to the transport: it sends, tidies up, or, when a wake is given up, both) and `process_ble_write_queue` (one chunk, which a stack
that refuses it leaves in front). Popping a command, or giving up its answer, runs
`TidyUp`, which empties the buffer and drops a response whoever they belong to. On a
link that is not established `loop()` only drops one command.

Lengths are counted in chunks. The first chunk of a message announces how many
there are; a chunk from the middle that ends up at the start of the buffer is read
as a length too, and may announce anything, also a length the buffer cannot hold
(`TooLong`). A message parsed from chunks that are not one message is `Garbled`,
or fails to parse: the handlers get it like any other, but it is none of the messages
the channel counts. A lost connection loses what the vehicle had still to send; the
component keeps its queues and buffer, as the code does. `latest` and `arrivals`
count what the handlers were given, for `LossyChannel`.

### PollingScheduler

`tick` is one action with the sensors' three values as input: status due or not,
wake on boot, the car waking or falling asleep, which of the infotainment rules
applies, and what a poll resets. `update()` is `UpdateLinked` with the tick or
`UpdateUnlinked`; both let the sensors expire. Opening, closing, forced updates,
invalidated sessions and charging write the same fields between the calls.

`now` and the kept times run modulo `Wrap`, which stands for 2^32, and
`Elapsed` subtracts as the ReleaseSmall build does (`build.zig:131`,
`Makefile:44`), without a check. The variables `since...` are history: how long ago
something truly was, up to `Horizon`. `ClockAssumption` says that no
period reaches `Wrap`, which is 49 days. `MaxUpdateGap` and `MaxTickGap` bound the
time between two calls; the second is longer because there is no tick while the
link is down. A link that stays away longer than any period is therefore not
covered by `FreshData` and `FastPollingEnds`, which speak of polls that need the link.

### StoredSessions

A shared secret is known by the private key it was derived with, so a session that
was made with an old key shows. `InfoTaken` is `handleSessionInfoUpdate` in the
code's order: the state machine is told of success, then the C++ client is
updated, then the Zig client mirrors it, then the flash is written, which may
fail. `Loaded` restores both clients from flash; `Opened` starts the Zig client anew,
with the current key. `regenerateKey` leaves both clients' sessions as they are.
`Restart` may come at any moment and leaves what is in flash.
`misled` and `regenerated` are history, the two events that excuse a mismatch.

The vehicle and the C++ client are external, modelled from how the component uses
them. The vehicle accepts a command signed by a paired key with the secret of that
key, its epoch and a counter above the latest one; it answers any other with a
fault and, at its choice, a session info. It may reboot, forget nobody, and send
an info whose key is unusable. Messages of one connection arrive in order or not
at all. When a connection closes, the answers that had been received and the messages
not yet written stay in the component's queues for the next one (`Closed`).

`asked` is what the command in front waits for: nothing, a session, an answer. A
session info that cannot be used changes nothing in it, so the command goes on at
its timeout only. `TimeOut` is counted as a disturbance where the answer may still come.

### SeenCounterCache

The array, `head` and `count`, and `validateAndAdd` with its backward scan. A pair
of request id and counter is a model value; `Zero` is the pair the slots are
initialized with, and it is among the responses the vehicle may send.

### ClientSession

It extends `SeenCounterCache` with the session around it.
`handleSessionInfoResponse` stores epoch and counter whether or not the key
exchange then succeeds (`Started`, `Completed`); a session that was valid stays
valid. `Count` is the first half of `buildUniversalMessageWithPayload`: the counter
is used up before the message is signed, which may fail (`BuildFails`).
`BuildForOtherDomain` overwrites the one `last_request_hash`. `decryptResponse`
records the pair of id and counter, and only then authenticates.

The vehicle and the link are external. The vehicle executes a command of its epoch
with a higher counter, restarts with any counter, and answers with the epoch,
counter, secret and request hash of the command: the client checks an answer
against its session's own counter, and the vehicle of its tests (`client.zig`)
answers accordingly. Every info and answer may arrive late, repeatedly or never; two
answers have different pairs. Expiry times, the parsing of public keys and
`setVin`, which is called once before any session, are left out. `builds`,
`since`, `steady`, `checked` and `outcome` are history.

### StandaloneFirmware

`pc` says what each task is about to do. The ESP32-C6 has one core and the NimBLE
host task a higher priority than the MQTT task, so the MQTT task can be preempted
between any two of its steps, while the NimBLE task is left only where it blocks:
between the chunks of a write (`vTaskDelay`, `main.c:488`), in an MQTT
publication, or waiting for its next event. `MayRun` says so. `processQueue` is
split where the tasks can meet: the flag (`Enter`, `Claim`, `Leave`), the tests
(`Serve`, `TurnAway`), the front (`TakeFront`), the write and the pop after it
(`Wrote`) and the publication (`Published`). Every message from MQTT ends in it, also one
that means no command (`Unrecognized`).

The queue is the array of slots with `head` and `count`, because nothing keeps
the NimBLE task from popping while the MQTT task is in a `pushBack` or `popFront`. Each
of these is a step that tests and loads and one for each write: `PushBack`,
`StoreCommand`, `CountUp`; `Pop`, `MoveHead`, `CountDown`. `loaded` is what the
operation found first. A write uses that value, the present one or any in between
(`PopsSince`, `CountsSince`), since the order of the loads is the compiler's. A pop can so
be undone, a command served twice, and `count` counted below 0, to the largest `usize`
(`MaxCount`); the slots start undefined, and `cmd` stays the pointer it was taken as. In the
NimBLE task the same operations are one step.

`link` is what the GAP and GATT procedures have come to. A request to scan and the
test of the state machine that leads to it are one step. The firmware is built
without safety checks, so the `.?` of `getFront().?` on an empty queue takes the slot at `head`,
whatever it holds. Build errors after the tests of `processQueue` need an
invalid session and cannot occur (`SecureChannel`). The attempt counters of
`csm.zig` are left out: nothing reads them. The start of the Bluetooth stack is
part of `Init`.

## What is checked

| Run | Question | Bounds |
| --- | --- | --- |
| `queue` | Is the ring the bounded priority list? Do ids stay distinct, and started commands in front? | 3 slots, 5 ids, two states |
| `vehicle_commands` | Wake, unlock and status commands, sets with their gets and forced updates, mixed in one queue: is the right one served, with a session, within its budget? | queue of 2, timeouts 0, 1 and 2, 1 retry |
| `command_liveness` | Does a started command leave, does the queue drain, is a command ever interrupted or its clock set back? | overall timeout 2, 1 retry |
| `gets_never_wake` | Does a get ever wake the car? It does. | one kind of command |
| `acknowledged_set` | Is an acknowledged set ever executed again? It is. | one kind of command |
| `transport` | Is a whole message ever repeated or handed on out of order, or lost although nothing tore it? | messages of 1 and 2 chunks, a buffer of 2, 3 messages in, 2 out, 1 command |
| `polling` | Is data fresh, a sleeping car left alone, fast polling over in time, across the wrap of the clock? | clock of 10, periods 1 to 3, gaps 2 and 3 |
| `sessions` | Do the two clients, the state machine and the flash stay in step, and does a command get its answer? | 2 commands, 2 disturbances, 2 messages each way |
| `client_session` | Are counters used once, only shared secrets used, awaited answers decrypted, repeated ones refused? | 3 builds, counters 0 to 2, 2 epochs, cache of 2, 3 responses |
| `standalone` | Is the flag always cleared? Does the state machine follow the radio? | three kinds of command, queue of 2, largest count 3 |
| `front_is_there` | Does a task that saw a command still find one? Not always. | the same |
| `refusal_invalidates` | Is a refused session given up? It is not. | the same |

The properties, besides one type invariant per module:

*Queue and replay check*

- `ImplementsList`, `UniqueIds`, `InProgressKeepsFront`; `ImplementsWindow`,
  `NoReplayInWindow`: what the two rings promise. `client_session` checks the second
  ring, driven by a client that decrypts.

*Pipeline*

- `OnlyFrontActive`: no command behind the front has been started, sent or has used
  a retry. Attribution rests on it.
- `SessionBehindReady`: a front command past authentication has a session.
- `TransmissionBudget`: at most one transmission per latency period within the
  overall timeout, 8 with the code's 30 s and 4 s and 2 in the run; and besides, for a
  lock or unlock alone, at most one status request after each of these, so 16 in all.
  The retry limit of 5 bounds neither, because retry counts are reset.
- `CallbackPerCommand`: callbacks and queued commands correspond one to one.
- `ImplementsService`: the pipeline is the service, whatever the vehicle sends. That a
  retry, a renewed session or a wake leaves the clock alone is what lets the overall
  timeout end a command.
- `StartedCommandLeaves`, `CommandsDrain`: no fault, however often repeated, keeps a
  command in front, and once nobody adds commands the queue empties for good.

*Transport*

- `ImplementsChannel`: the messages that reach the handlers whole do so in the order in
  which they were sent and once, however others were torn. What torn ones turn into
  (`Garbled`) is not counted: that such a message may be handed on is what the code does.
- `OnlyTornIsLost`: while whole messages are on their way and nothing tears one,
  none is lost, to an overflow or a misread length.
- `ChunksAreRead`: a chunk that found no room does not block the queue.
- `NothingToTidy`: tidying up never throws away an answer.
- `WritesInOrder`: on one connection no message is cut short or begun inside another;
  only the message in front of the queue can be torn.

*Scheduler*

- `OneOffIsComplete`: no other poll takes the place of a forced, complete one.
- `FreshData`: data of a charging car is no older than the period and one gap.
- `FastPollingEnds`: the fast polling of a woken car is over within the post-wake
  time, one period and one gap.
- `SleepUndisturbed`: the status of a sleeping car is asked for once per period or
  connection, except when the last request was made at the instant 0 of the clock.
- `UnknownInTime`: sensors turn unknown after the configured time away, not before,
  and at the next `update()`.

*Sessions of the component*

- `MirrorAgrees`: the Zig client's sessions are of the C++ client's epoch and secret,
  unless the key was regenerated on this connection.
- `NeverAhead`: the state machine calls no session established that the C++ client does
  not have, unless it was told of a success that then proved unusable.
- `StaysCurrent`: a session the vehicle accepts stays so until it is invalidated, unless
  the link, the key or the epoch changes or an overtaken session info arrives.
- `Heals`: a command in progress gets its answer, whatever was restored, rolled back,
  refused or late before it, while the link holds and the vehicle knows the key.

*Session of the client*

- `CountersOnce`: no two commands of an epoch carry the same counter, unless a late
  session info moved the session between them or the counter went all the way round.
- `SignedWithSecret`: nothing is signed by a session whose key exchange never succeeded.
- `FreshAnswersDecrypt`: the first copy of the answer to the latest command decrypts, if
  neither a build nor a session info changed the session since, whatever came before it.

*Firmware*

- `FlagIsSomeones`: a set `processing_queue` has a task inside to clear it, also when
  both tasks got in.
- `SecureChannel`: the state machine is secure only on a ready channel with a VCSEC
  session, and disconnected exactly when there is no connection.

Why the bounds are enough. A queue of two tells the front from the back, and can be
full while a set asks for its get. Timeouts of 0, 1 and 2 keep the order of the
code's 1, 4 and 30 seconds, with room for a timeout that meets a late answer and
for the full budget of transmissions; one retry can be spent, and be reset before
it is. Three slots let a ring be empty, part full, full and wrapped; five ids let
the counter wrap while two are live. "lock" is not among the kinds because it
takes the same path as "unlock" with the sensor's values exchanged, and "closure"
takes that of a status command that is signed; the theorems cover them.
In the firmware a queue of two lets a pop run in the middle of a push into the last
free slot and of another pop; a largest count of 3 is reached only by counting down from 0.
Messages of two chunks can be torn before and between their chunks; three of them
let the rest of one run into the next and that into a third; a buffer of two can
overflow. A clock of 10 wraps many times over periods of 1 to 3, whose
sums just fit below it. Two disturbances let a restart or a new key meet a reboot,
a failed write, an early timeout or the rest of a closed connection; each command is sent again until it is answered. A
counter of three values wraps between three builds; a cache of two forgets the
first of three responses.

`polling` is explored under the view `LiveState`: a time that is overwritten before
it is read again does not tell two states apart.

Fairness. `command_liveness` assumes weak fairness of `Loop`, since ESPHome's main
task keeps calling `loop()`, and of `Tick`, since `millis()` keeps counting; the
vehicle, the link and the users owe nothing. `transport` assumes that of `Loop`, for
the same reason; the `link = "down"` in `ChunksAreRead` leaves connections free to
end. `sessions` assumes weak fairness of the component's next transmission and of its
timeouts (the pipeline retries), of the vehicle's answers and of receiving them, for
`Heals` only.
That is what the outcome depends on: a vehicle that does not answer is given up
by the pipeline, which `command_liveness` covers.

Deadlock is checked in every run but `sessions`, which stops when the commands and
disturbances are used up.

### Disagreements met

1. `gets_never_wake`: a comment says a get is dropped when the car sleeps, to not
   wake it (cpp:217-220). Sleep is checked in IDLE only: a get that is
   authenticating when the car falls asleep goes on to wake it (cpp:297, 343).
2. `acknowledged_set`: a set that the car has acknowledged ("command completed",
   cpp:938) waits for its get. `invalidateSession` does not look at its state:
   an ERROR status that arrives meanwhile sends it back to authentication, to be
   executed again (cpp:2014-2021).
3. `front_is_there`: `getFront().?` (firmware.zig:544) asserts a front command.
   `processing_queue` is tested and set in two steps (523, 526), so both tasks can
   be in `processQueue`, and one pops the command the other is about to take.
4. `refusal_invalidates`: sessions are to be invalidated on "explicit session
   failures" (client.zig:400). When the vehicle refuses one (308-311), `is_valid`
   stays set. The trace has the INFOTAINMENT session; for a VCSEC session it also means
   that the next connection skips the handshake (firmware.zig:366).

Four more, which no property of a run could state as the repository's promise:

- A comment on tidying up (.h:331) says it empties "the read and response queues".
  It empties the read buffer and one response; `ble_read_queue_` keeps the rest of
  the torn message, which is then read as the start of another.
- A test ("Immediately poll on wake", scheduler.zig:194) has a car that wakes polled
  at once. A car whose charging is "ongoing" when it wakes waits for the charging period.
- The unsent rest of a message stays in `ble_write_queue_` when the connection is lost
  and is the first thing the next connection sends.
- A response's authenticated data is computed from the session's counter, not from the
  response's own, so only the answer to the latest command can be decrypted.

## What is proved

For every value of the constants that satisfies their assumptions:

| Module | Theorems |
| --- | --- |
| `CommandQueueProofs` | `TypeCorrect`, `IdsStayUnique`, `NoPreemption`, `RingImplementsList` |
| `VehicleCommandsProofs` | `Invariance`, `TypeCorrect`, `BackUntouched`, `ReadyHasSession`, `BudgetHolds`, `CallbacksMatch`, `PipelineImplementsService` |
| `MessageTransportProofs` | `TypesKept`, `TidyingIsIdle`, `WritesKeepOrder`, `NothingElseLost`, `TransportImplementsChannel` |
| `PollingSchedulerProofs` | `TypesKept`, `ForcedUpdatesComplete`, `ChargingDataFresh`, `FastPollingBounded`, `UnknownSetInTime`, `SleepIsUndisturbed` |
| `StoredSessionsProofs` | `TypesKept`, `ClientsAgree`, `StateNeverAhead`, `SessionsStayCurrent` |
| `SeenCounterCacheProofs` | `TypeCorrect`, `NoReplay`, `CacheImplementsWindow` |
| `ClientSessionProofs` | `ClientTypes`, `CountersNotReused`, `NothingUnshared`, `AwaitedAnswerDecrypts`, `SessionUsesCache`, `SessionNoReplay` |
| `StandaloneFirmwareProofs` | `Invariance`, `TypeCorrect`, `FlagNeverLeft`, `ChannelFollowed` |

The assumptions are those named `...Assumption` and `SessionBounds` in the modules:
capacities and limits are positive, buffers hold the longest message
(`BufferAssumption`), no period is as long as the clock's round (`ClockAssumption`).
Each is evaluated by TLC in the runs.

The arguments:

- *Queue.* Lemmas give the contents of the ring, as a sequence, after each operation:
  `Slot` and `Position` are inverse modulo the capacity, and the slide moves
  exactly the commands behind the insertion point. The refinement follows from
  them. `IdsStayUnique` needs that live ids have been issued (`IdsIssued`): they lie
  below the counter until it wraps.
- *Pipeline.* `IInv` adds to the checked invariants what makes them inductive. Each
  transmission restarts the latency timer and the next waits until it has run out,
  so `sent` is bounded by the command's age: (MaxLatency + 1) * (sent - 1) plus the
  time since the last transmission is at most the age, which the overall timeout
  bounds. This is the strengthening `TransmissionBudget` needs, and for its status
  requests that one is made only after a transmission that cleared `done` (`Checked`).
  A new command is
  pristine and a command behind the front stays so; a front command is in a state
  on its own domain's path; ids of callbacks are those of commands. There is one
  lemma per action.
- *Service.* Every step of the pipeline does one of six things to the queue: nothing,
  the front changes and keeps its id and its clock (`Continued`), the front goes, the
  front goes and a get is appended, a command is inserted, all grow older
  (`StepChanges`). Each is a step of the service or a stutter: a popped command leaves a
  pristine one in front (`Invariance`), so nobody is served after it, and an insertion
  slides at most the waiting commands.
- *Transport.* Chunks keep the order in which the vehicle cut them, whatever is torn:
  the buffer, the read queue and the air are sorted, each lies before the next, and
  all are newer than the message put together last (`InOrder`). A buffer that parses
  as a whole message is therefore a message newer than any that arrived, which is
  the step of the channel. `WritesInOrder` needs that the write queue ends with the
  end of a message. `OnlyTornIsLost` needs `Collecting`: while nothing is torn the
  chunks from the buffer over the queue to the air follow one another from the first
  chunk of a message, first chunks announce their message's size, and a buffer that has not
  been parsed is incomplete. The announced size then fits the buffer, which neither
  overflows nor parses early.
- *Scheduler.* `ClocksAgree`: a kept time, subtracted modulo the wrap, is the true age,
  as long as the age is below the horizon. With it each tick judges its periods
  rightly. `WokenData` carries `FastPollingEnds`: while a car counts as woken its data
  is fresh, and the latest poll was made before the post-wake time was over.
- *Sessions of the component.* `IInv` speaks of the memory as a whole (`Sound`), so that
  one lemma per operation on it (event, update, mirror, load, invalidation) serves
  every action. `StaysCurrent` needs that answers under way are in the order of
  the epochs, and that none is older than a session of the present epoch, in memory or
  in flash; answers that outlive a connection are the first of those under way.
- *Cache.* The slot i places behind `head` is the i-th latest response; adding one
  moves each by one place and overwrites the oldest once the array is full.
- *Session of the client.* `CountedUp`: since the session was last moved back, the counters
  of the present epoch count up to the session's, build by build, so two are equal only
  a whole round apart. A decrypted answer needs that `steady` keeps session and hash
  as they were signed, and that the replay check remembers only what it was given.
  `SessionUsesCache` shows that the client drives the cache by its own operations, so the
  cache's theorems hold of the client.
- *Firmware.* `SecureChannel` is inductive only with `VCSECOnly`: the INFOTAINMENT half of
  the state machine, which leads to "fully secure" without looking at VCSEC, is
  never entered because the firmware raises no event that leads there. `TypeOK` over the
  torn queue needs `RoomFound`: a `pushBack` under way has found room, and the count it
  found can since have gone down but not up, so that counting up does not overflow.
  Assumed: a capacity of at least 1 and a largest count no smaller than it.

Model-checked only: `StartedCommandLeaves`, `CommandsDrain`, `ChunksAreRead` and `Heals`,
because fairness and ENABLED are out of the prover's reach, and the four disagreements,
which are counterexamples of TLC.

## What is not modelled

- Encoding, cryptography, logs, configuration, the phone wrappers and the C bindings
  keep no state that these properties depend on.
- The firmware's reassembly buffer (`firmware.zig:390-437`), the 20-byte chunks of its
  writes (`main.c:477`), its Wi-Fi, MQTT connection and NVS. Half a message left in that
  buffer by a lost connection, and messages of the two tasks that interleave in
  their chunks, are listed as hazards without a property.
- The vehicle next to the firmware: whether a session info it drops while sending
  (`firmware.zig:458`) was needed, and whether the lock did what is published
  (`firmware.zig:597`, `cpp:404`), need the vehicle's own lock state.
- Times of expiry of commands, as the vehicle judges them.
- What nothing in the repository promises: that a follow-up get finds room in a full
  queue (cpp:500), that commands survive a loop without a connection (cpp:1033), that a
  pairing request outlives a failed write (firmware.zig:384) or that a connection
  attempt that fails at once is followed by another (main.c:463).

## Plan

Order, the most important behaviour first; 1 to 9 are done.

1. `CommandList`, `CommandQueue`: the queue, its refinement and proofs.
2. `VehicleCommands`: the pipeline, its invariants, liveness and proofs.
3. `RecentResponses`, `SeenCounterCache`: the replay check.
4. `ConnectionStateMachine`, `StandaloneFirmware`: the two tasks.
5. `ClientSession`: counters, epochs, the request hash and late session infos, with
   the vehicle and a link that loses, repeats and reorders.
6. `LossyChannel`, `MessageTransport`: chunks and buffers of the component.
7. `PollingScheduler`: `tick` and `update()` with wrapping times.
8. `StoredSessions`: keys and sessions in memory and in flash. Proofs for 5 to 8.
9. `CommandService`: what the pipeline promises, its refinement by `VehicleCommands` and
   the proof; the proof of `OnlyTornIsLost`.
10. Left: the firmware's reassembly and chunked writes as a second implementation of
   `LossyChannel`, where it is one; the vehicle and its lock next to both products.
