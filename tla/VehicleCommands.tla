-------------------------- MODULE VehicleCommands --------------------------
(***************************************************************************)
(* The command pipeline of the ESPHome component (tesla_ble_vehicle.cpp):  *)
(* commands wait in the queue, and loop() moves the front one through      *)
(* session authentication, waking, execution and the wait for its answer,  *)
(* until it is popped.  The vehicle and the link are an environment that   *)
(* may send any message at any time: late, twice, or never.                *)
(*                                                                         *)
(* Timestamps are kept as ages ("now - started_at"), which stop growing    *)
(* once they exceed every timeout compared with them.                      *)
(***************************************************************************)
EXTENDS Integers, Sequences

CONSTANTS
  Kinds,           \* the kinds of command the users and update() issue; "closure" is
                   \* any other VCSEC command given to placeAtFrontOfQueue
  Capacity,        \* commands the queue holds (32)
  RxTimeout, MaxLatency, CommandTimeout,  \* 1 s, 4 s and 30 s
  MaxRetries       \* 5

AllKinds == {"status", "forced", "wake", "lock", "unlock", "closure", "get", "set"}

ASSUME KindsAssumption == Kinds \subseteq AllKinds
ASSUME CapacityAssumption == Capacity \in Nat \ {0}
ASSUME TimingAssumption ==
  /\ RxTimeout \in Nat
  /\ MaxLatency \in Nat
  /\ CommandTimeout \in Nat
  /\ RxTimeout < MaxLatency
ASSUME RetriesAssumption == MaxRetries \in Nat \ {0}

VARIABLES
  queue,      \* the commands, front first
  callbacks,  \* ids with an entry in command_callbacks_
  peer,       \* per domain: the session can sign (Peer::isInitialized)
  asleep, unlocked,  \* the two binary sensors the pipeline reads
  link,       \* "down", "open" (GATT open), "established" (notifications on)
  phase       \* loop() is at its start ("top") or has handled a response ("command")

vars == <<queue, callbacks, peer, asleep, unlocked, link, phase>>
sensors == <<asleep, unlocked>>

Domains == {"VCSEC", "INFOTAINMENT"}

DomainOf(kind) == IF kind \in {"forced", "get", "set"} THEN "INFOTAINMENT" ELSE "VCSEC"

(* Status requests are sent in clear; everything else is signed. *)
Unsigned == {"status", "forced"}

Locking == {"lock", "unlock"}

States ==
  {"IDLE", "WAITING_FOR_VCSEC_AUTH", "WAITING_FOR_VCSEC_AUTH_RESPONSE",
   "WAITING_FOR_INFOTAINMENT_AUTH", "WAITING_FOR_INFOTAINMENT_AUTH_RESPONSE",
   "WAITING_FOR_WAKE", "WAITING_FOR_WAKE_RESPONSE", "WAITING_FOR_LOCK_RESPONSE",
   "READY", "WAITING_FOR_RESPONSE", "WAITING_FOR_GET_POST_SET"}

AuthState(d) ==
  IF d = "VCSEC" THEN "WAITING_FOR_VCSEC_AUTH" ELSE "WAITING_FOR_INFOTAINMENT_AUTH"

AuthResponseState(d) ==
  IF d = "VCSEC" THEN "WAITING_FOR_VCSEC_AUTH_RESPONSE"
                 ELSE "WAITING_FOR_INFOTAINMENT_AUTH_RESPONSE"

Ids == 1..Capacity

(* sent and checks are history: the transmissions made for the command that    *)
(* restarted its latency timer, and the status requests after a lock or unlock,  *)
(* which do not.                                                             *)
Command ==
  [id : Ids, kind : AllKinds, state : States, started : 0..(CommandTimeout + 1),
   tx : 0..(MaxLatency + 1), retry : 0..(MaxRetries + 1), done : 0..1, sent : Nat,
   checks : Nat]

(* last_tx_at starts at 0, so a fresh command's last transmission is as far  *)
(* back as the uptime: longer than any latency.                             *)
NewCommand(id, kind) ==
  [id |-> id, kind |-> kind, state |-> "IDLE", started |-> 0,
   tx |-> MaxLatency + 1, retry |-> 0, done |-> 0, sent |-> 0, checks |-> 0]

Front == queue[1]

LiveIds == {queue[i].id : i \in 1..Len(queue)}

(* The queue's ids only have to differ (CommandQueue!UniqueIds), so the      *)
(* lowest one no live command has stands for next_id.                       *)
Fresh(id) == id \notin LiveIds /\ \A j \in 1..(id - 1) : j \in LiveIds

----------------------------------------------------------------------------
(* The queue and the callback map change together. *)

List == INSTANCE CommandList WITH
  list <- queue, next_id <- 1, MaxId <- Capacity, Idle <- "IDLE"

PlaceIgnoringProgress(q, front) == IF front THEN 1 ELSE Len(q) + 1
PlaceFor(q, front) == IF front THEN List!PriorityPlace(q) ELSE Len(q) + 1

(* push_back_command and placeAtFrontOfQueue; a full queue drops the command. *)
Add(kind, front) ==
  /\ Len(queue) < Capacity
  /\ \E id \in Ids :
       /\ Fresh(id)
       /\ queue' = List!Inserted(queue, PlaceFor(queue, front), NewCommand(id, kind))
       /\ callbacks' = callbacks \cup {id}

PopKeepingCallback == queue' = Tail(queue) /\ UNCHANGED callbacks
(* pop_command_and_tidy_up: the read buffer and the response it clears are   *)
(* part of an environment that may send anything again.                     *)
Pop == queue' = Tail(queue) /\ callbacks' = callbacks \ {Front.id}

SetFront(c) == queue' = [queue EXCEPT ![1] = c] /\ UNCHANGED callbacks

Transmitted(c, state) == [c EXCEPT !.tx = 0, !.sent = @ + 1, !.state = state]

----------------------------------------------------------------------------
(* Sessions *)

InvalidatedIfWaiting(q, d) ==
  IF q # <<>> /\ DomainOf(q[1].kind) = d /\ q[1].state = "WAITING_FOR_RESPONSE"
  THEN [q EXCEPT ![1].state = AuthState(d)] ELSE q
(* invalidateSession: a front command of the domain authenticates again,     *)
(* whatever it was doing.                                                    *)
Invalidated(q, d) ==
  IF q # <<>> /\ DomainOf(q[1].kind) = d
  THEN [q EXCEPT ![1].state = AuthState(d)] ELSE q

AfterAuthAnew(c) == [c EXCEPT !.retry = 0, !.started = 0, !.state = "READY"]
(* The end of handleSessionInfoUpdate: a front command that waited for this   *)
(* answer goes on.  A front of the other domain after VCSEC would go on to    *)
(* INFOTAINMENT, but no command of that domain ever asks for VCSEC.          *)
AfterAuth(c) == [c EXCEPT
  !.retry = 0,
  !.state = IF c.state = AuthResponseState("VCSEC") /\ DomainOf(c.kind) = "INFOTAINMENT"
            THEN AuthState("INFOTAINMENT") ELSE "READY"]

Authenticated(q, d) ==
  IF q # <<>> /\ q[1].state = AuthResponseState(d)
  THEN [q EXCEPT ![1] = AfterAuth(q[1])] ELSE q

(* What building a signed message can come to: the client refuses it without  *)
(* a session, and may fail in other ways.                                    *)
SignedBuild(d) == {"invalid", "error"} \cup (IF peer[d] THEN {"ok"} ELSE {})
Build(kind) == IF kind \in Unsigned THEN {"ok", "error"} ELSE SignedBuild(DomainOf(kind))

(* The peers after a build for domain d: INVALID_SESSION invalidates. *)
PeerAfter(result, d) == IF result = "invalid" THEN [peer EXCEPT ![d] = FALSE] ELSE peer

----------------------------------------------------------------------------
(* process_command_queue: one step of the front command per loop.            *)

NoOverallTimeout == Front.id \notin callbacks
(* A command without a callback, or older than the overall timeout, goes. *)
Abandoned == Front.id \notin callbacks \/ Front.started > CommandTimeout

QuietAtLatency == Front.tx >= MaxLatency
(* Long enough since the last transmission. *)
Quiet == Front.tx > MaxLatency

LockedAsAsked == Front.kind = (IF unlocked THEN "unlock" ELSE "lock")

(* The front command has a step to take in this loop. *)
Due ==
  CASE Front.state = "IDLE" -> TRUE
    [] Front.state = "WAITING_FOR_LOCK_RESPONSE" ->
         LockedAsAsked \/ (Front.done = 0 /\ Front.tx > RxTimeout) \/ Quiet
    [] Front.state = "WAITING_FOR_GET_POST_SET" -> Front.tx > RxTimeout
    [] OTHER -> Quiet

InCommandPhase == phase = "command" /\ phase' = "top" /\ UNCHANGED <<link, sensors>>

Serving(state) ==
  InCommandPhase /\ queue # <<>> /\ ~Abandoned /\ Due /\ Front.state = state

NothingToDo ==
  /\ InCommandPhase
  /\ queue # <<>> => ~(Abandoned \/ Due)
  /\ UNCHANGED <<queue, callbacks, peer>>

Abandon ==
  /\ InCommandPhase
  /\ queue # <<>> /\ Abandoned
  /\ Pop /\ UNCHANGED peer

(* A get is dropped while the car sleeps. *)
StartIdle ==
  /\ Serving("IDLE")
  /\ IF asleep /\ Front.kind = "get"
     THEN Pop
     ELSE SetFront([Front EXCEPT !.started = 0, !.state = AuthState(DomainOf(Front.kind))])
  /\ UNCHANGED peer

(* sendSessionInfoRequest, until MaxRetries are spent. *)
RequestSession(d) ==
  IF Front.retry < MaxRetries
  THEN SetFront([Transmitted(Front, AuthResponseState(d)) EXCEPT !.retry = @ + 1])
  ELSE Pop

AwaitVCSECAuth ==
  /\ Serving("WAITING_FOR_VCSEC_AUTH")
  /\ IF peer["VCSEC"]
     THEN SetFront([Front EXCEPT !.state = IF DomainOf(Front.kind) = "VCSEC"
                      THEN "READY" ELSE AuthState("INFOTAINMENT")])
     ELSE RequestSession("VCSEC")
  /\ UNCHANGED peer

AwaitInfotainmentAuth ==
  /\ Serving("WAITING_FOR_INFOTAINMENT_AUTH")
  /\ \/ asleep /\ SetFront([Front EXCEPT !.state = "WAITING_FOR_WAKE"])
     \/ ~asleep /\ peer["INFOTAINMENT"] /\ SetFront([Front EXCEPT !.state = "READY"])
     \/ ~asleep /\ ~peer["INFOTAINMENT"] /\ RequestSession("INFOTAINMENT")
  /\ UNCHANGED peer

(* Only the INFOTAINMENT timeout counts as a retry. *)
AuthResponseTimeout ==
  /\ \/ /\ Serving("WAITING_FOR_VCSEC_AUTH_RESPONSE")
        /\ SetFront([Front EXCEPT !.state = AuthState("VCSEC")])
     \/ /\ Serving("WAITING_FOR_INFOTAINMENT_AUTH_RESPONSE")
        /\ SetFront([Front EXCEPT !.state = AuthState("INFOTAINMENT"), !.retry = @ + 1])
  /\ UNCHANGED peer

(* The front after a wake or status request with this outcome: the latency    *)
(* timer restarts and a retry is used even when nothing could be sent.       *)
WakeTried(result, state) ==
  [Front EXCEPT !.tx = 0, !.retry = @ + 1,
                !.sent = IF result = "ok" THEN @ + 1 ELSE @,
                !.state = state]

(* A VCSEC command whose wake request finds no session authenticates again.   *)
StateAfterWake(result) ==
  IF result = "invalid" /\ DomainOf(Front.kind) = "VCSEC"
  THEN AuthState("VCSEC") ELSE "WAITING_FOR_WAKE_RESPONSE"

SendWake ==
  /\ Serving("WAITING_FOR_WAKE")
  /\ \/ Front.retry > MaxRetries /\ Pop /\ UNCHANGED peer
     \/ /\ Front.retry <= MaxRetries
        /\ \E result \in SignedBuild("VCSEC") :
             /\ peer' = PeerAfter(result, "VCSEC")
             /\ SetFront(WakeTried(result, "WAITING_FOR_WAKE_RESPONSE"))

(* The sensor says the car is awake. *)
WakeSeen ==
  /\ Serving("WAITING_FOR_WAKE_RESPONSE") /\ ~asleep
  /\ IF Front.kind = "wake" THEN Pop
     ELSE SetFront([Front EXCEPT !.state = AuthState("INFOTAINMENT"), !.retry = 0])
  /\ UNCHANGED peer

KeepPollingWake(c) == SetFront(c)
GiveUpPollingWake(c) == IF c.retry > MaxRetries THEN Pop ELSE SetFront(c)

(* Still asleep: wake requests and status requests take turns. *)
PollWake ==
  /\ Serving("WAITING_FOR_WAKE_RESPONSE") /\ asleep
  /\ \E result \in IF Front.retry % 2 = 0 THEN SignedBuild("VCSEC") ELSE Build("status") :
       /\ peer' = PeerAfter(result, "VCSEC")
       /\ GiveUpPollingWake(WakeTried(result, StateAfterWake(result)))

(* The front after its status request with this outcome: the latency timer    *)
(* runs on from the command itself.                                          *)
StatusAsked(result) ==
  [Front EXCEPT !.done = 1, !.checks = IF result = "ok" THEN @ + 1 ELSE @]

(* A status request is sent once, a short delay after the (un)lock command. *)
AwaitLockResponse ==
  /\ Serving("WAITING_FOR_LOCK_RESPONSE")
  /\ \/ LockedAsAsked /\ Pop
     \/ /\ ~LockedAsAsked /\ Front.done = 0 /\ Front.tx > RxTimeout
        /\ \E result \in Build("status") : SetFront(StatusAsked(result))
     \/ /\ ~LockedAsAsked /\ Front.done # 0
        /\ SetFront([Front EXCEPT !.state = "READY"])
  /\ UNCHANGED peer

GiveUpExecuting ==
  /\ Serving("READY") /\ Front.retry >= MaxRetries
  /\ Pop /\ UNCHANGED peer

StateAfterExecute(kind) ==
  IF kind = "wake" THEN "WAITING_FOR_WAKE_RESPONSE"
  ELSE IF kind \in Locking THEN "WAITING_FOR_LOCK_RESPONSE"
  ELSE "WAITING_FOR_RESPONSE"

Execute ==
  /\ Serving("READY") /\ Front.retry < MaxRetries
  /\ "ok" \in Build(Front.kind)
  /\ SetFront([Transmitted(Front, StateAfterExecute(Front.kind))
                 EXCEPT !.retry = @ + 1,
                        !.done = IF Front.kind \in Locking THEN 0 ELSE @])
  /\ UNCHANGED peer

(* execute() fails: READY again, or authentication if it invalidated the      *)
(* session; the latency timer does not restart.                              *)
ExecuteFails ==
  /\ Serving("READY") /\ Front.retry < MaxRetries
  /\ \E result \in Build(Front.kind) \ {"ok"} :
       /\ peer' = PeerAfter(result, DomainOf(Front.kind))
       /\ SetFront([Front EXCEPT !.retry = @ + 1,
                      !.state = IF result = "invalid"
                                THEN AuthState(DomainOf(Front.kind)) ELSE @])

ResponseTimeout ==
  /\ Serving("WAITING_FOR_RESPONSE")
  /\ SetFront([Front EXCEPT !.state = "READY"])
  /\ UNCHANGED peer

(* The data a set changed is asked for at the back of the queue, if the set    *)
(* has a get and the queue (which still holds the set) has room for it.       *)
GetPostSet ==
  /\ Serving("WAITING_FOR_GET_POST_SET")
  /\ \/ Pop
     \/ /\ Len(queue) < Capacity
        /\ \E id \in Ids :
             /\ Fresh(id)
             /\ queue' = Append(Tail(queue), NewCommand(id, "get"))
             /\ callbacks' = (callbacks \cup {id}) \ {Front.id}
  /\ UNCHANGED peer

process_command_queue ==
  \/ NothingToDo \/ Abandon \/ StartIdle
  \/ AwaitVCSECAuth \/ AwaitInfotainmentAuth \/ AuthResponseTimeout
  \/ SendWake \/ WakeSeen \/ PollWake \/ AwaitLockResponse
  \/ GiveUpExecuting \/ Execute \/ ExecuteFails \/ ResponseTimeout \/ GetPostSet

----------------------------------------------------------------------------
(* process_response_queue: at most one message per loop.                     *)

FrontIs(d, states) == queue # <<>> /\ DomainOf(Front.kind) = d /\ Front.state \in states

Unmoved == UNCHANGED <<queue, callbacks>>

Receive == phase = "top" /\ link = "established" /\ phase' = "command" /\ UNCHANGED link

(* No message, or one that is dropped or changes nothing here. *)
NoResponse == Receive /\ Unmoved /\ UNCHANGED <<peer, sensors>>

(* Session info whose key the vehicle accepts and updateSession takes.        *)
SessionInfo(d) ==
  /\ Receive
  /\ peer' = [peer EXCEPT ![d] = TRUE]
  /\ queue' = Authenticated(queue, d)
  /\ UNCHANGED <<callbacks, sensors>>

(* A signed-message status of ERROR, alone. *)
Fault(d) ==
  /\ Receive
  /\ peer' = [peer EXCEPT ![d] = FALSE]
  /\ queue' = Invalidated(queue, d)
  /\ UNCHANGED <<callbacks, sensors>>

(* The same with the vehicle's session info attached: invalidated, then renewed. *)
FaultWithSessionInfo(d) ==
  /\ Receive
  /\ peer' = [peer EXCEPT ![d] = TRUE]
  /\ queue' = Authenticated(Invalidated(queue, d), d)
  /\ UNCHANGED <<callbacks, sensors>>

(* What a vehicle status means to the front command: it is done, the car it    *)
(* was waking is awake, or the car it asked for data sleeps.                  *)
StatusCompletes(sleeping) ==
  \/ FrontIs("VCSEC", {"WAITING_FOR_RESPONSE"})
  \/ ~sleeping /\ FrontIs("INFOTAINMENT", {"WAITING_FOR_RESPONSE"}) /\ Front.kind = "forced"

StatusWakes(sleeping) ==
  ~sleeping /\ FrontIs("INFOTAINMENT", {"WAITING_FOR_WAKE", "WAITING_FOR_WAKE_RESPONSE"})

StatusRefuses(sleeping) ==
  sleeping /\ FrontIs("INFOTAINMENT", {"WAITING_FOR_RESPONSE"}) /\ Front.kind = "forced"

(* handleVCSECVehicleStatus sets the sensors first.  A status of UNKNOWN       *)
(* publishes NAN, which the sensors read as TRUE.                             *)
VehicleStatus(sleeping, open) ==
  /\ Receive
  /\ asleep' = sleeping /\ unlocked' = open
  /\ \/ StatusCompletes(sleeping) /\ Pop /\ UNCHANGED peer
     \/ /\ StatusWakes(sleeping)
        /\ SetFront([Front EXCEPT !.state = AuthState("INFOTAINMENT"), !.retry = 0])
        /\ UNCHANGED peer
     \/ /\ StatusRefuses(sleeping)
        /\ peer' = [peer EXCEPT !["INFOTAINMENT"] = FALSE]
        /\ queue' = Invalidated(queue, "INFOTAINMENT")
        /\ UNCHANGED callbacks
     \/ /\ ~StatusCompletes(sleeping) /\ ~StatusWakes(sleeping) /\ ~StatusRefuses(sleeping)
        /\ Unmoved /\ UNCHANGED peer

(* A VCSEC command status: WAIT restarts the latency timer before the retry.  *)
CommandStatus(status) ==
  /\ Receive
  /\ FrontIs("VCSEC", {"WAITING_FOR_RESPONSE"})
  /\ \/ status = "OK" /\ Pop
     \/ status = "WAIT" /\ SetFront([Front EXCEPT !.state = "READY", !.tx = 0])
     \/ status = "ERROR" /\ SetFront([Front EXCEPT !.state = "READY"])
  /\ UNCHANGED <<peer, sensors>>

FollowsUpAlways(kind) == kind # "forced"
(* VehicleActionMessage: only these are followed by a get. *)
FollowsUp(kind) == kind = "set"

(* A CarServer response; "charging" is an ERROR whose reason says that the     *)
(* charging switch already is where it was asked to be.  An ERROR with any     *)
(* other reason changes nothing.                                               *)
CarServerResponse(result) ==
  /\ Receive
  /\ FrontIs("INFOTAINMENT", {"WAITING_FOR_RESPONSE"})
  /\ \/ result = "OK" /\ FollowsUp(Front.kind)
        /\ SetFront([Front EXCEPT !.state = "WAITING_FOR_GET_POST_SET"])
     \/ result = "OK" /\ ~FollowsUp(Front.kind) /\ Pop
     \/ result = "charging" /\ Pop
     \/ result = "ERROR" /\ SetFront([Front EXCEPT !.state = "READY"])
  /\ UNCHANGED <<peer, sensors>>

process_response_queue ==
  \/ NoResponse
  \/ \E d \in Domains : SessionInfo(d) \/ Fault(d) \/ FaultWithSessionInfo(d)
  \/ \E sleeping, open \in BOOLEAN : VehicleStatus(sleeping, open)
  \/ \E status \in {"OK", "WAIT", "ERROR"} : CommandStatus(status)
  \/ \E result \in {"OK", "charging", "ERROR"} : CarServerResponse(result)

(* loop() while not established drops one command and does nothing else. *)
ClearOne ==
  /\ phase = "top" /\ link # "established" /\ queue # <<>>
  /\ Pop
  /\ UNCHANGED <<peer, sensors, link, phase>>

Loop == process_response_queue \/ process_command_queue \/ ClearOne

----------------------------------------------------------------------------
(* Between loops: users, update(), GATT events and time.                      *)

BetweenLoops == phase = "top" /\ UNCHANGED <<phase, sensors>>

(* enqueueVCSECInformationRequest and the gets go to the back, all else to the  *)
(* front; a wake is only queued for a sleeping car.                           *)
Enqueue(kind) ==
  /\ BetweenLoops
  /\ kind = "wake" => asleep
  /\ Add(kind, kind \notin {"status", "forced", "get"})
  /\ UNCHANGED <<peer, link>>

(* sendVCSECClosureMoveRequestMessage is public: called directly it bypasses    *)
(* the queue, but INVALID_SESSION still invalidates the session.             *)
MoveClosure ==
  /\ BetweenLoops
  /\ peer' = [peer EXCEPT !["VCSEC"] = FALSE]
  /\ queue' = Invalidated(queue, "VCSEC")
  /\ UNCHANGED <<callbacks, link>>

(* ESP_GATTC_OPEN_EVT: each session may come back from NVS. *)
Opened ==
  /\ BetweenLoops
  /\ link = "down" /\ link' = "open"
  /\ \E restored \in SUBSET Domains :
       peer' = [d \in Domains |-> peer[d] \/ d \in restored]
  /\ Unmoved

(* ESP_GATTC_REG_FOR_NOTIFY_EVT *)
Established ==
  /\ BetweenLoops
  /\ link = "open" /\ link' = "established"
  /\ Unmoved /\ UNCHANGED peer

(* ESP_GATTC_DISCONNECT_EVT and ESP_GATTC_CLOSE_EVT *)
Disconnected ==
  /\ BetweenLoops
  /\ link # "down" /\ link' = "down"
  /\ Unmoved /\ UNCHANGED peer

UpTo(age, limit) == IF age < limit THEN age + 1 ELSE age

Older(c) == [c EXCEPT !.started = UpTo(@, CommandTimeout + 1),
                      !.tx = UpTo(@, MaxLatency + 1)]

Tick ==
  /\ queue # <<>>
  /\ queue' = [i \in 1..Len(queue) |-> Older(queue[i])]
  /\ UNCHANGED <<callbacks, peer, sensors, link, phase>>

Init ==
  /\ queue = <<>>
  /\ callbacks = {}
  /\ peer \in [Domains -> BOOLEAN]
  /\ asleep = FALSE /\ unlocked = FALSE
  /\ link = "down"
  /\ phase = "top"

Next ==
  \/ Loop \/ Tick
  \/ \E kind \in Kinds : Enqueue(kind)
  \/ MoveClosure
  \/ Opened \/ Established \/ Disconnected

(* The main task keeps calling loop(), and millis() keeps counting. *)
Fairness == WF_vars(Loop) /\ WF_vars(Tick)

Spec == Init /\ [][Next]_vars
FairSpec == Spec /\ Fairness
----------------------------------------------------------------------------

TypeOK ==
  /\ queue \in Seq(Command) /\ Len(queue) <= Capacity
  /\ callbacks \subseteq Ids
  /\ peer \in [Domains -> BOOLEAN]
  /\ asleep \in BOOLEAN /\ unlocked \in BOOLEAN
  /\ link \in {"down", "open", "established"}
  /\ phase \in {"top", "command"}
  /\ phase = "command" => link = "established"

(* Every handler acts on the front without asking which command an answer is   *)
(* for, so nothing behind it may ever have been started: a priority command    *)
(* never displaces one in progress, and a popped command leaves an untouched   *)
(* one in front (cpp:177-524, queue.zig:112-176).                              *)
OnlyFrontActive ==
  \A i \in 2..Len(queue) :
    queue[i].state = "IDLE" /\ queue[i].sent = 0 /\ queue[i].retry = 0

(* The command is past authentication in its own domain. *)
PastAuth(c) ==
  \/ c.state \in {"READY", "WAITING_FOR_RESPONSE", "WAITING_FOR_LOCK_RESPONSE",
                  "WAITING_FOR_GET_POST_SET"}
  \/ c.state = "WAITING_FOR_WAKE_RESPONSE" /\ DomainOf(c.kind) = "VCSEC"

(* A command past authentication has a session to sign with: whenever a fault  *)
(* takes a session away, the front command that relied on it goes back to      *)
(* authenticate (invalidateSession, cpp:1982-2032).                           *)
SessionBehindReady ==
  queue # <<>> /\ PastAuth(Front) => peer[DomainOf(Front.kind)]

(* Retries are counted afresh after each authentication and each wake, so only   *)
(* the latency timer and the overall timeout bound what one command sends: one    *)
(* transmission per MaxLatency within CommandTimeout, eight with the code's        *)
(* values (.h:141-148), and besides, for a lock or unlock alone, one status       *)
(* request after each of them at most (cpp:417-424): sixteen in all.             *)
TransmissionBudget ==
  \A i \in 1..Len(queue) :
    /\ queue[i].sent <= CommandTimeout \div (MaxLatency + 1) + 1
    /\ queue[i].checks <= IF queue[i].kind \in Locking THEN queue[i].sent ELSE 0

(* Exactly the queued commands have a callback: none is dropped for want of    *)
(* one (cpp:185-191) and none is left behind when its command goes             *)
(* (.h:328-345).                                                              *)
CallbackPerCommand == callbacks = LiveIds /\ \A i, j \in 1..Len(queue) :
  queue[i].id = queue[j].id => i = j

InProgress == queue # <<>> /\ Front.state # "IDLE"

(* The command that has been started, its age, and the others in their order. *)
ServedId == IF InProgress THEN Front.id ELSE 0
ServedAge == IF InProgress THEN Front.started ELSE 0
WaitingIds ==
  IF InProgress THEN [i \in 1..(Len(queue) - 1) |-> queue[i + 1].id]
                ELSE [i \in 1..Len(queue) |-> queue[i].id]

Service == INSTANCE CommandService WITH
  serving <- ServedId, waiting <- WaitingIds, age <- ServedAge,
  Nobody <- 0, Deadline <- CommandTimeout

(* Whatever the vehicle sends, the front command is served to its end before    *)
(* another is started, waiting commands keep their order, and no retry, session *)
(* or wake sets the clock of the overall timeout back (cpp:177-524).             *)
ImplementsService == Service!Spec

(* Whatever the vehicle answers, and however often sessions are lost and       *)
(* renewed, a command that was started leaves the front of the queue           *)
(* (the overall timeout, cpp:205-211).                                        *)
StartedCommandLeaves == InProgress ~> ~InProgress

(* Once nobody issues commands any more the queue drains for good: the gets that *)
(* follow sets are finitely many and no command waits for ever behind another. *)
CommandsDrain ==
  <>[][\A kind \in Kinds : ~Enqueue(kind)]_vars => <>[](queue = <<>>)

(* "If the car is asleep and the command is an Infotainment data request ...   *)
(* then ignore the request as we don't want to risk waking the car"            *)
(* (cpp:217-220): no wake request is sent on behalf of a get.                  *)
GetsNeverWake ==
  \A i \in 1..Len(queue) :
    queue[i].kind = "get" /\ queue[i].state = "WAITING_FOR_WAKE_RESPONSE"
      => queue[i].sent = 0

(* "Received CarServer OK message, command completed" (cpp:938), after which    *)
(* the "command was issued so want to see if its outcome" (cpp:496): a set the   *)
(* car has acknowledged only waits for its get, and is not executed again.      *)
AcknowledgedSetIsDone ==
  [][InProgress /\ Front.state = "WAITING_FOR_GET_POST_SET"
       /\ queue' # <<>> /\ Front'.id = Front.id
       => Front'.state = "WAITING_FOR_GET_POST_SET"]_vars
============================================================================
