------------------------- MODULE StandaloneFirmware -------------------------
(***************************************************************************)
(* The standalone firmware (src/firmware.zig, src/nimble.zig and the       *)
(* NimBLE glue of standalone/main/main.c): two tasks without a lock.  The  *)
(* MQTT task queues commands and the NimBLE host task runs the Bluetooth   *)
(* callbacks; both send from the queue in processQueue, which a plain      *)
(* Boolean is meant to keep to one task at a time.                         *)
(*                                                                         *)
(* The ESP32-C6 has one core and the NimBLE task the higher priority: the  *)
(* MQTT task can be stopped between any two of its steps, also in the       *)
(* middle of a pushBack or popFront, the NimBLE task only where it blocks,  *)
(* in a write or a publication.                                            *)
(***************************************************************************)
EXTENDS ConnectionStateMachine, Integers

CONSTANTS
  Kinds,     \* the commands users send: "lock" (or unlock), "frunk", "flash"
  Capacity,  \* commands the queue holds (32)
  MaxCount   \* the largest usize (2^32 - 1)

AllKinds == {"lock", "frunk", "flash"}

ASSUME KindsAssumption == Kinds \subseteq AllKinds
ASSUME CapacityAssumption ==
  Capacity \in Nat \ {0} /\ MaxCount \in Nat /\ Capacity <= MaxCount

VARIABLES
  commands, head, count,  \* queue_inst: its slots, the front one, how many are live
  loaded,                 \* what an unfinished pushBack or popFront of the MQTT
                          \* task has found, and the command it pushes
  csm, valid,             \* client_inst: its state machine, and is_valid per domain
  link,                   \* what the host's GAP and GATT procedures have come to
  pending_pair_request,
  processing_queue,
  pc,                     \* what each task is about to do
  cmd                     \* the slot each task's cmd in processQueue points to

queue == <<commands, head, count, loaded>>
client == <<csm, valid>>

vars == <<queue, client, link, pending_pair_request, processing_queue, pc, cmd>>

Tasks == {"mqtt", "nimble"}

(* Where a task stands: "idle", in a pairing ("pairing", "telling") or a        *)
(* handshake ("telling") of its own, publishing the lock state of a handshake   *)
(* ("greeting"), about to read ("enter") or set ("claim") processing_queue; and *)
(* with the flag set, about to look at the queue ("serve"), to take its front   *)
(* ("front"), in a command's write ("writing") or a handshake's ("asking"), or  *)
(* publishing the command's lock state ("publishing").  The MQTT task may also  *)
(* be in a pushBack, about to write the slot ("storing") or the count           *)
(* ("counting"), or in a popFront, about to write head ("moving") or the count  *)
(* ("dropping").                                                              *)
InsideFlag == {"serve", "front", "writing", "popping", "moving", "dropping",
               "asking", "publishing"}
Steps == InsideFlag \cup
  {"idle", "storing", "counting", "pairing", "telling", "greeting", "enter", "claim"}

Blocking == {"idle", "telling", "greeting", "writing", "asking", "publishing"}

MayRun(t) == t = "nimble" \/ pc["nimble"] \in Blocking

Secure == {"secure_vcsec", "fully_secure"}

Goto(t, step) == pc' = [pc EXCEPT ![t] = step]

At(t, step) == MayRun(t) /\ pc[t] = step

(* ble_gap_disc refuses while it already scans or connects. *)
Scanning == link' = IF link = "idle" THEN "scanning" ELSE link

----------------------------------------------------------------------------
(* The queue.  An operation of the NimBLE task is one step.  While one of the   *)
(* MQTT task is under way the NimBLE task may pop commands: what MQTT then       *)
(* writes comes from the head and the count it found first, the present ones,    *)
(* or any in between.                                                         *)

Slots == 0..(Capacity - 1)
(* A slot that was never written may hold an action processQueue does not know.  *)
Contents == AllKinds \cup {"unknown"}

SlotPast(i) == i + 1
NextSlot(i) == (i + 1) % Capacity
(* usize arithmetic, unchecked in this build. *)
OneLess(n) == IF n = 0 THEN MaxCount ELSE n - 1

Registers == [head : Slots, count : 0..MaxCount, command : AllKinds]
Unused == [head |-> 0, count |-> 0, command |-> "lock"]

Load(c) == loaded' = [head |-> head, count |-> count, command |-> c]
PopsSince == 0..(loaded.count - count)
CountsSince == count..loaded.count

(* pushBack; a full queue drops the command. *)
PushBack(c) ==
  /\ IF count >= Capacity THEN Goto("mqtt", "enter") /\ UNCHANGED loaded
                          ELSE Goto("mqtt", "storing") /\ Load(c)
  /\ UNCHANGED <<commands, head, count>>

(* tail is computed from head and count, which are loaded one after the other. *)
StoreCommand ==
  /\ At("mqtt", "storing")
  /\ \E i, j \in PopsSince :
       commands' = [commands EXCEPT
         ![(loaded.head + i + loaded.count - j) % Capacity] = loaded.command]
  /\ Goto("mqtt", "counting")
  /\ UNCHANGED <<head, count, loaded, client, link, pending_pair_request, processing_queue, cmd>>

CountUp ==
  /\ At("mqtt", "counting")
  /\ \E n \in CountsSince : count' = n + 1
  /\ loaded' = Unused /\ Goto("mqtt", "enter")
  /\ UNCHANGED <<commands, head, client, link, pending_pair_request, processing_queue, cmd>>

----------------------------------------------------------------------------
(* processQueue *)

Enter(t) ==
  /\ At(t, "enter")
  /\ Goto(t, IF processing_queue THEN "idle" ELSE "claim")
  /\ UNCHANGED <<queue, client, link, pending_pair_request, processing_queue, cmd>>

Claim(t) ==
  /\ At(t, "claim")
  /\ processing_queue' = TRUE
  /\ Goto(t, "serve")
  /\ UNCHANGED <<queue, client, link, pending_pair_request, cmd>>

OutOfScope(t) == cmd' = [cmd EXCEPT ![t] = 0]
KeepFlag(t) == Goto(t, "idle") /\ OutOfScope(t) /\ UNCHANGED processing_queue
(* `defer processing_queue = false`; cmd goes out of scope. *)
Leave(t) == Goto(t, "idle") /\ OutOfScope(t) /\ processing_queue' = FALSE

(* Nothing to send, or no secure connection to send it on. *)
TurnAway(t) ==
  /\ At(t, "serve")
  /\ count = 0 \/ csm \notin Secure
  /\ IF count # 0 /\ csm = "disconnected" THEN Scanning ELSE UNCHANGED link
  /\ Leave(t)
  /\ UNCHANGED <<queue, client, pending_pair_request>>

Serve(t) ==
  /\ At(t, "serve")
  /\ count # 0 /\ csm \in Secure
  /\ Goto(t, "front")
  /\ UNCHANGED <<queue, client, link, pending_pair_request, processing_queue, cmd>>

(* After the pop: the lock state of what cmd's slot holds by now is published. *)
AfterPop(t) ==
  IF commands[cmd[t]] = "lock"
  THEN Goto(t, "publishing") /\ UNCHANGED <<processing_queue, cmd>>
  ELSE Leave(t)

(* popFront *)
Pop(t) ==
  IF count = 0 THEN AfterPop(t) /\ UNCHANGED queue
  ELSE IF t = "nimble"
  THEN /\ head' = NextSlot(head) /\ count' = OneLess(count)
       /\ AfterPop(t) /\ UNCHANGED <<commands, loaded>>
  ELSE /\ Goto(t, "moving") /\ Load("lock")
       /\ UNCHANGED <<commands, head, count, processing_queue, cmd>>

MoveHead ==
  /\ At("mqtt", "moving")
  /\ \E i \in PopsSince : head' = NextSlot((loaded.head + i) % Capacity)
  /\ Goto("mqtt", "dropping")
  /\ UNCHANGED <<commands, count, loaded, client, link, pending_pair_request,
                 processing_queue, cmd>>

CountDown ==
  /\ At("mqtt", "dropping")
  /\ \E n \in CountsSince : count' = OneLess(n)
  /\ loaded' = Unused /\ AfterPop("mqtt")
  /\ UNCHANGED <<commands, head, client, link, pending_pair_request>>

(* `getFront().?`: the build has no safety checks, so that on an empty queue too *)
(* it takes the slot at head.  A command of an unknown action goes at once.      *)
TakeFront(t) ==
  /\ At(t, "front")
  /\ cmd' = [cmd EXCEPT ![t] = head]
  /\ Goto(t, CASE commands[head] = "unknown" -> "popping"
               [] commands[head] = "flash" /\ ~valid["infotainment"] -> "asking"
               [] OTHER -> "writing")
  /\ UNCHANGED <<queue, client, link, pending_pair_request, processing_queue>>

(* The handshake request of a flash has been written; the flash stays queued. *)
Asked(t) ==
  /\ At(t, "asking")
  /\ Leave(t)
  /\ UNCHANGED <<queue, client, link, pending_pair_request>>

(* The message has been written, or dropped without a connection. *)
Wrote(t) ==
  /\ At(t, "writing") \/ At(t, "popping")
  /\ Pop(t)
  /\ UNCHANGED <<client, link, pending_pair_request>>

Published(t) ==
  /\ At(t, "publishing")
  /\ Leave(t)
  /\ UNCHANGED <<queue, client, link, pending_pair_request>>

processQueue(t) ==
  \/ Enter(t) \/ Claim(t) \/ TurnAway(t) \/ Serve(t) \/ TakeFront(t)
  \/ Asked(t) \/ Wrote(t) \/ Published(t)

----------------------------------------------------------------------------
(* The MQTT task: handleIncomingCommand, which always ends in processQueue.   *)

Command(c) ==
  /\ At("mqtt", "idle")
  /\ PushBack(c)
  /\ UNCHANGED <<client, link, pending_pair_request, processing_queue, cmd>>

(* A topic or payload that means no command still ends in processQueue. *)
Unrecognized ==
  /\ At("mqtt", "idle")
  /\ Goto("mqtt", "enter")
  /\ UNCHANGED <<queue, client, link, pending_pair_request, processing_queue, cmd>>

Pair ==
  /\ At("mqtt", "idle")
  /\ pending_pair_request' = TRUE
  /\ Goto("mqtt", "pairing")
  /\ UNCHANGED <<queue, client, link, processing_queue, cmd>>

(* The request is cleared when its message is built, before it is written.     *)
PairNow ==
  /\ At("mqtt", "pairing")
  /\ IF csm = "disconnected"
     THEN Scanning /\ Goto("mqtt", "enter") /\ UNCHANGED pending_pair_request
     ELSE pending_pair_request' = FALSE /\ Goto("mqtt", "telling") /\ UNCHANGED link
  /\ UNCHANGED <<queue, client, processing_queue, cmd>>

(* A pairing or handshake message outside processQueue has been written. *)
Told(t) ==
  /\ At(t, "telling")
  /\ Goto(t, IF t = "mqtt" THEN "enter" ELSE "idle")
  /\ UNCHANGED <<queue, client, link, pending_pair_request, processing_queue, cmd>>

----------------------------------------------------------------------------
(* The NimBLE host task: GAP and GATT events and notifications, one at a time. *)

Event == pc["nimble"] = "idle" /\ UNCHANGED <<queue, processing_queue, cmd>>

(* The scan is cancelled first; after a refused connect request nothing runs. *)
Discovered ==
  /\ Event
  /\ link = "scanning" /\ link' \in {"connecting", "idle"}
  /\ UNCHANGED <<client, pending_pair_request, pc>>

ConnectFailed ==
  /\ Event
  /\ link = "connecting" /\ link' = "scanning"
  /\ UNCHANGED <<client, pending_pair_request, pc>>

Connected ==
  /\ Event
  /\ link = "connecting" /\ link' = "connected"
  /\ csm' = After(csm, "ble_connected")
  /\ UNCHANGED <<valid, pending_pair_request, pc>>

TrustsSession == TRUE
(* A VCSEC session restored from NVS or kept from an earlier connection. *)
HasSession == valid["vehicle_security"]

(* handleBleChannelReady *)
ChannelReady ==
  /\ Event
  /\ link = "connected" /\ link' = "ready"
  /\ \/ /\ pending_pair_request
        /\ pending_pair_request' = FALSE
        /\ Goto("nimble", "telling") /\ UNCHANGED client
     \/ /\ ~pending_pair_request /\ HasSession
        /\ csm' = After(csm, "handshake_success_vcsec")
        /\ Goto("nimble", "enter") /\ UNCHANGED <<valid, pending_pair_request>>
     \/ /\ ~pending_pair_request /\ ~HasSession
        /\ Goto("nimble", "telling") /\ UNCHANGED <<client, pending_pair_request>>

Disconnected ==
  /\ Event
  /\ link \in {"connected", "ready"} /\ link' = "scanning"
  /\ csm' = After(csm, "ble_disconnected")
  /\ UNCHANGED <<valid, pending_pair_request, pc>>

Notified == Event /\ link = "ready" /\ UNCHANGED <<link, pending_pair_request>>

(* Session info for a valid session while a task is in processQueue. *)
IgnoreSessionInfo(d) ==
  /\ Notified
  /\ valid[d] /\ processing_queue
  /\ Goto("nimble", "enter")
  /\ UNCHANGED client

(* handleSessionInfoResponse succeeds. *)
AcceptSessionInfo(d) ==
  /\ Notified
  /\ ~(valid[d] /\ processing_queue)
  /\ valid' = [valid EXCEPT ![d] = TRUE]
  /\ csm' = After(csm, SuccessEvent(d))
  /\ Goto("nimble", "greeting")

(* The vehicle answers that the key is not on its whitelist, or sends a key      *)
(* that updateSession fails on: in either case is_valid stays as it is.         *)
RefuseSession(d) ==
  /\ Notified
  /\ ~(valid[d] /\ processing_queue)
  /\ csm' = After(csm, "handshake_failed")
  /\ UNCHANGED <<valid, pc>>

(* The lock state of a handshake has been published. *)
Greeted ==
  /\ At("nimble", "greeting")
  /\ Goto("nimble", "enter")
  /\ UNCHANGED <<queue, client, link, pending_pair_request, processing_queue, cmd>>

(* tesla_zig_app_main: sessions may be restored, and the stack starts scanning. *)
Init ==
  /\ commands \in [Slots -> Contents]
  /\ head = 0 /\ count = 0 /\ loaded = Unused
  /\ csm = "disconnected"
  /\ valid \in [Domains -> BOOLEAN]
  /\ link = "scanning"
  /\ pending_pair_request = FALSE
  /\ processing_queue = FALSE
  /\ pc = [t \in Tasks |-> "idle"]
  /\ cmd = [t \in Tasks |-> 0]

mqtt ==
  \/ \E c \in Kinds : Command(c)
  \/ StoreCommand \/ CountUp \/ MoveHead \/ CountDown
  \/ Unrecognized \/ Pair \/ PairNow \/ Told("mqtt") \/ processQueue("mqtt")

nimble ==
  \/ Discovered \/ ConnectFailed \/ Connected \/ ChannelReady \/ Disconnected
  \/ \E d \in Domains : IgnoreSessionInfo(d) \/ AcceptSessionInfo(d) \/ RefuseSession(d)
  \/ Greeted \/ Told("nimble") \/ processQueue("nimble")

Next == mqtt \/ nimble

Spec == Init /\ [][Next]_vars
----------------------------------------------------------------------------

TypeOK ==
  /\ commands \in [Slots -> Contents]
  /\ head \in Slots /\ count \in 0..MaxCount
  /\ loaded \in Registers
  /\ csm \in States
  /\ valid \in [Domains -> BOOLEAN]
  /\ link \in {"idle", "scanning", "connecting", "connected", "ready"}
  /\ pending_pair_request \in BOOLEAN
  /\ processing_queue \in BOOLEAN
  /\ pc \in [Tasks -> Steps]
  /\ cmd \in [Tasks -> Slots]

(* The flag is never left set: whatever way a task leaves processQueue, and      *)
(* also when both tasks were in it at once, a set flag means that some task is    *)
(* still there to clear it.  Otherwise no command would ever be sent again        *)
(* (firmware.zig:521-600).                                                       *)
FlagIsSomeones == processing_queue => \E t \in Tasks : pc[t] \in InsideFlag

(* The client's state machine follows the radio through every order of events:   *)
(* it is in a secure state only on a ready channel and with a VCSEC session to     *)
(* sign with, and back in disconnected exactly when there is no connection, which  *)
(* is when processQueue starts a scan (firmware.zig:361-373, 533-542).            *)
SecureChannel ==
  /\ csm \in Secure => link = "ready" /\ valid["vehicle_security"]
  /\ csm = "disconnected" <=> link \notin {"connected", "ready"}

(* `queue_inst.getFront().?` (firmware.zig:544): a task that found the queue not  *)
(* empty still finds a command at its front.                                     *)
FrontIsThere == \A t \in Tasks : pc[t] = "front" => count # 0

(* "Invalidate sessions only on protocol faults or explicit session failures"     *)
(* (client.zig:400): after the vehicle has refused the session of a domain         *)
(* the client does not count on it.                                              *)
RefusalInvalidates ==
  [][\A d \in Domains : RefuseSession(d) => ~valid'[d]]_vars
============================================================================
