--------------------------- MODULE StoredSessions ---------------------------
(***************************************************************************)
(* The keys and sessions of the ESPHome component (tesla_ble_vehicle.cpp): *)
(* the C++ client that signs with them, the Zig client that mirrors it and *)
(* holds the connection state machine, and the flash (NVS) that outlives   *)
(* both, with the vehicle at the other end.  The component restarts, loses *)
(* its connection, fails to write its flash and generates a new key; the   *)
(* vehicle reboots, refuses commands and answers late.                     *)
(*                                                                         *)
(* The queue, the radio's chunks and the contents of commands are left out *)
(* (VehicleCommands, MessageTransport).  A shared secret is known by the   *)
(* private key it was derived with.  The vehicle and the C++ client are    *)
(* modelled from how the component uses them.                              *)
(***************************************************************************)
EXTENDS Integers, Sequences

CSM == INSTANCE ConnectionStateMachine

CONSTANTS
  MaxCommands,      \* bound: commands the users want
  MaxDisturbances,  \* bound: restarts, disconnections, timeouts, new keys, reboots...
  MaxInFlight       \* bound: messages under way in each direction

ASSUME BoundsAssumption ==
  MaxCommands \in Nat /\ MaxDisturbances \in Nat /\ MaxInFlight \in Nat \ {0}

VARIABLES
  link,           \* "down" or "open"
  key, storedKey, \* the private key in use and the one in flash
  session,        \* the C++ client's sessions
  zigKey, zig,    \* the Zig client's key and sessions
  csm,            \* the Zig client's connection state
  stored,         \* the session infos in flash
  regenerated,    \* the key changed since the Zig client was given it
  misled,         \* an unusable session info came on this connection
  wanted,         \* commands not issued yet
  front,          \* the domain of the command in progress, if any
  asked,          \* what it waits for: "nothing", a "session" or an "answer"
  disturbances,
  epoch, accepted, paired, \* the vehicle's epoch, latest counters and known keys
  toVehicle, toComponent

client == <<session, zigKey, zig, csm>>
flash == <<storedKey, stored>>
vehicle == <<epoch, accepted, paired>>
messages == <<toVehicle, toComponent>>
vars == <<link, key, storedKey, session, zigKey, zig, csm, stored, regenerated, misled,
          wanted, front, asked, disturbances, epoch, accepted, paired,
          toVehicle, toComponent>>

Domains == CSM!Domains
VCSEC == "vehicle_security"
Infotainment == "infotainment"
NoCommand == "none"

Waiting == {"nothing", "session", "answer"}

NoKey == 0
NoEpoch == 0
NoSession == [epoch |-> NoEpoch, counter |-> 0, key |-> NoKey, valid |-> FALSE]
NoMirror == [epoch |-> NoEpoch, counter |-> 0, key |-> NoKey]
NoStoredInfo == [epoch |-> NoEpoch, counter |-> 0]

Request == [kind : {"request"}, domain : Domains]
Command == [kind : {"command"}, domain : Domains, epoch : Nat, counter : Nat,
            secret : Nat, signer : Nat]
Reply == [domain : Domains, fault : BOOLEAN,
          status : {"none", "ok", "unusable", "not_on_whitelist"},
          epoch : Nat, counter : Nat]

Disturb == disturbances < MaxDisturbances /\ disturbances' = disturbances + 1
Undisturbed == UNCHANGED disturbances

----------------------------------------------------------------------------
(* What the component holds in memory, as one record.                        *)

Memory == [session |-> session, zigKey |-> zigKey, zig |-> zig, csm |-> csm]
Remember(m) ==
  session' = m.session /\ zigKey' = m.zigKey /\ zig' = m.zig /\ csm' = m.csm

Event(m, event) == [m EXCEPT !.csm = CSM!After(m.csm, event)]

(* updateSession of the C++ client, with the key in use. *)
Updated(m, d, info, k) ==
  [m EXCEPT !.session[d] =
     [epoch |-> info.epoch, counter |-> info.counter, key |-> k, valid |-> TRUE]]

(* tesla_client_handle_session_info_response for a usable info. *)
Mirrored(m, d, info) ==
  Event([m EXCEPT !.zig[d] =
           [epoch |-> info.epoch, counter |-> info.counter, key |-> m.zigKey]],
        CSM!SuccessEvent(d))

(* A request for the INFOTAINMENT session, or its restore, asks the state       *)
(* machine to go on from secure_vcsec.                                        *)
ConnectRequested(m, d) ==
  IF d = Infotainment /\ m.csm = "secure_vcsec" THEN Event(m, "connect_requested") ELSE m

(* loadDomainSessionInfo *)
Loaded(m, d, k) ==
  IF stored[d] = NoStoredInfo THEN m
  ELSE Mirrored(ConnectRequested(Updated(m, d, stored[d], k), d), d, stored[d])

(* loadSessionInfo *)
AllLoaded(m, k) == Loaded(Loaded(m, VCSEC, k), Infotainment, k)

(* tesla_client_init *)
ZigStartedWithItsKey(m, k) ==
  [m EXCEPT !.zig = [d \in Domains |-> NoMirror], !.csm = "disconnected"]
ZigStarted(m, k) ==
  [m EXCEPT !.zigKey = k, !.zig = [d \in Domains |-> NoMirror], !.csm = "disconnected"]

ExpiredEvent(d) ==
  IF d = VCSEC THEN "session_expired_vcsec" ELSE "session_expired_infotainment"

(* invalidateSession; the Zig session stays as it is. *)
InvalidatedSilently(m, d) == [m EXCEPT !.session[d].valid = FALSE]
Invalidated(m, d) == Event([m EXCEPT !.session[d].valid = FALSE], ExpiredEvent(d))

(* handleSessionInfoUpdate up to the flash. *)
InfoTaken(m, d, reply) ==
  CASE reply.status = "none" -> m
    [] reply.status = "not_on_whitelist" -> Event(m, "handshake_failed")
    [] reply.status = "unusable" -> Event(m, CSM!SuccessEvent(d))
    [] reply.status = "ok" ->
         Mirrored(Updated(Event(m, CSM!SuccessEvent(d)), d, reply, key), d, reply)

----------------------------------------------------------------------------
(* The component serves its commands.                                        *)

(* Without a connection loop() would drop the command. *)
Want(d) ==
  /\ link = "open" /\ front = NoCommand
  /\ wanted > 0 /\ wanted' = wanted - 1
  /\ front' = d
  /\ UNCHANGED <<link, key, flash, client, regenerated, misled, asked, vehicle, messages>>
  /\ Undisturbed

CanSend(d) ==
  link = "open" /\ front = d /\ asked = "nothing" /\ Len(toVehicle) < MaxInFlight

(* sendSessionInfoRequest *)
RequestInfo(d) ==
  /\ CanSend(d) /\ ~session[d].valid
  /\ Remember(ConnectRequested(Memory, d))
  /\ toVehicle' = Append(toVehicle, [kind |-> "request", domain |-> d])
  /\ asked' = "session"
  /\ UNCHANGED <<link, key, flash, regenerated, misled, wanted, front, vehicle, toComponent>>
  /\ Undisturbed

CountedOnACopy(d) == session[d].counter
Counted(d) == session[d].counter + 1

(* A command is built, which counts in the session, and signed. *)
SendCommand(d) ==
  /\ CanSend(d) /\ session[d].valid
  /\ session' = [session EXCEPT ![d].counter = Counted(d)]
  /\ toVehicle' = Append(toVehicle,
       [kind |-> "command", domain |-> d, epoch |-> session[d].epoch,
        counter |-> session[d].counter + 1, secret |-> session[d].key, signer |-> key])
  /\ asked' = "answer"
  /\ UNCHANGED <<link, key, flash, zigKey, zig, csm, regenerated, misled, wanted, front,
                 vehicle, toComponent>>
  /\ Undisturbed

(* An answer arrives.  A fault invalidates the session, and the session info   *)
(* that may come with it is taken after that; writing the flash may fail.      *)
AfterFault(reply) == IF reply.fault THEN Invalidated(Memory, reply.domain) ELSE Memory
AfterReply(reply) == InfoTaken(AfterFault(reply), reply.domain, reply)

(* An answer without a fault completes a command that waits for one. *)
Answers(reply) ==
  reply.domain = front /\ asked = "answer" /\ ~reply.fault /\ reply.status = "none"

(* The command goes on at once after a fault, whatever it waited for, and when    *)
(* it gets the session it waited for.  A session info that cannot be used leaves   *)
(* it waiting for its timeout.                                                *)
GoesOn(reply) ==
  /\ reply.domain = front
  /\ reply.fault \/ (reply.status = "ok" /\ asked = "session")
AskedAfter(reply) == IF Answers(reply) \/ GoesOn(reply) THEN "nothing" ELSE asked

Receive ==
  /\ link = "open" /\ toComponent # <<>> /\ toComponent' = Tail(toComponent)
  /\ LET reply == Head(toComponent) IN
       /\ Remember(AfterReply(reply))
       /\ \/ /\ reply.status = "ok"
             /\ stored' = [stored EXCEPT ![reply.domain] =
                             [epoch |-> reply.epoch, counter |-> reply.counter]]
          \/ UNCHANGED stored
       /\ asked' = AskedAfter(reply)
       /\ front' = IF Answers(reply) THEN NoCommand ELSE front
       /\ misled' = (misled \/ reply.status = "unusable")
  /\ UNCHANGED <<link, key, storedKey, regenerated, wanted, vehicle, toVehicle>>
  /\ Undisturbed

(* Both waits, for a session and for an answer, have their timeout. *)
WaitsForAnswer == asked = "answer"
Waits == asked # "nothing"

(* The answer takes too long and the command is tried again: a disturbance if     *)
(* it may still come.                                                         *)
TimeOut ==
  /\ Waits /\ asked' = "nothing"
  /\ UNCHANGED <<link, key, flash, client, regenerated, misled, wanted, front, vehicle,
                 messages>>
  /\ IF messages = <<<<>>, <<>>>> THEN Undisturbed ELSE Disturb

----------------------------------------------------------------------------
(* Connections, restarts and keys.                                           *)

(* ESP_GATTC_OPEN_EVT *)
Opened ==
  /\ link = "down" /\ link' = "open"
  /\ Remember(AllLoaded(Event(ZigStarted(Memory, key), "ble_connected"), key))
  /\ regenerated' = FALSE /\ misled' = FALSE
  /\ UNCHANGED <<key, flash, wanted, front, asked, vehicle, messages>>
  /\ Undisturbed

Unlinked == link' = "down" /\ front' = NoCommand /\ asked' = "nothing"

(* ESP_GATTC_CLOSE_EVT; loop() drops the command in progress.  The answers that   *)
(* had arrived and the messages not yet written stay in their queues for the       *)
(* next connection; what was under way between them is lost.                   *)
Closed ==
  /\ link = "open" /\ Unlinked
  /\ \E n \in 0..Len(toComponent) : toComponent' = SubSeq(toComponent, 1, n)
  /\ \E n \in 1..(Len(toVehicle) + 1) : toVehicle' = SubSeq(toVehicle, n, Len(toVehicle))
  /\ Remember(Event(Memory, "ble_disconnected"))
  /\ UNCHANGED <<key, flash, regenerated, misled, wanted, vehicle>>
  /\ Disturb

NewKey == IF storedKey > key THEN storedKey + 1 ELSE key + 1

BootKeyUnchecked == storedKey
BootKey == IF storedKey = NoKey THEN NewKey ELSE storedKey

(* Power is lost, and setup() starts from the flash.  Without a key there it     *)
(* makes one, and may fail to store it.                                       *)
Restart ==
  /\ Unlinked /\ toVehicle' = <<>> /\ toComponent' = <<>>
  /\ key' = BootKey
  /\ \/ UNCHANGED storedKey
     \/ storedKey = NoKey /\ storedKey' = key'
  /\ LET blank == [session |-> [d \in Domains |-> NoSession], zigKey |-> NoKey,
                   zig |-> [d \in Domains |-> NoMirror], csm |-> "disconnected"]
     IN Remember(AllLoaded(ZigStarted(blank, key'), key'))
  /\ regenerated' = FALSE /\ misled' = FALSE
  /\ UNCHANGED <<stored, wanted, vehicle>>
  /\ Disturb

(* regenerateKey: the sessions and the Zig client keep the old one. *)
regenerateKey ==
  /\ key' = NewKey /\ storedKey' \in {storedKey, NewKey}
  /\ regenerated' = TRUE
  /\ UNCHANGED <<link, stored, client, misled, wanted, front, asked, vehicle, messages>>
  /\ Disturb

(* startPair, and a card is held to the reader. *)
startPair ==
  /\ link = "open" /\ key \notin paired
  /\ paired' = paired \cup {key}
  /\ UNCHANGED <<link, key, flash, client, regenerated, misled, wanted, front, asked,
                 epoch, accepted, messages>>
  /\ Undisturbed

----------------------------------------------------------------------------
(* The vehicle.                                                              *)

SessionInfo(d, status) ==
  [domain |-> d, fault |-> FALSE, status |-> status,
   epoch |-> epoch, counter |-> accepted[d]]

Honest == IF key \in paired THEN "ok" ELSE "not_on_whitelist"

Good(c) ==
  /\ c.signer \in paired /\ c.secret = c.signer
  /\ c.epoch = epoch /\ c.counter > accepted[c.domain]

Answer(reply) ==
  /\ toVehicle' = Tail(toVehicle)
  /\ toComponent' = Append(toComponent, reply)

Serve ==
  /\ link = "open" /\ toVehicle # <<>> /\ Len(toComponent) < MaxInFlight
  /\ LET m == Head(toVehicle) IN
       \/ /\ m.kind = "request"
          /\ \/ Answer(SessionInfo(m.domain, Honest)) /\ Undisturbed
             \/ Answer(SessionInfo(m.domain, "unusable")) /\ Disturb
          /\ UNCHANGED accepted
       \/ /\ m.kind = "command" /\ Good(m)
          /\ accepted' = [accepted EXCEPT ![m.domain] = m.counter]
          /\ Answer([SessionInfo(m.domain, "none") EXCEPT !.counter = m.counter])
          /\ Undisturbed
       \/ /\ m.kind = "command" /\ ~Good(m)
          /\ \E status \in {"none", Honest} :
               Answer([SessionInfo(m.domain, status) EXCEPT !.fault = TRUE])
          /\ UNCHANGED accepted /\ Undisturbed
  /\ UNCHANGED <<link, key, flash, client, regenerated, misled, wanted, front, asked,
                 epoch, paired>>

Reboot ==
  /\ epoch' = epoch + 1 /\ accepted' = [d \in Domains |-> 0]
  /\ UNCHANGED <<link, key, flash, client, regenerated, misled, wanted, front, asked,
                 paired, messages>>
  /\ Disturb

Init ==
  /\ link = "down"
  /\ key = 1 /\ storedKey \in {NoKey, 1} /\ paired = {}
  /\ session = [d \in Domains |-> NoSession]
  /\ zigKey = 1 /\ zig = [d \in Domains |-> NoMirror] /\ csm = "disconnected"
  /\ stored = [d \in Domains |-> NoStoredInfo]
  /\ regenerated = FALSE /\ misled = FALSE
  /\ wanted = MaxCommands /\ front = NoCommand /\ asked = "nothing"
  /\ disturbances = 0
  /\ epoch = 1 /\ accepted = [d \in Domains |-> 0]
  /\ toVehicle = <<>> /\ toComponent = <<>>

Talk ==
  \/ \E d \in Domains : RequestInfo(d) \/ SendCommand(d)
  \/ Serve \/ Receive

Next ==
  \/ Talk
  \/ \E d \in Domains : Want(d)
  \/ TimeOut
  \/ Opened \/ Closed \/ Restart \/ regenerateKey \/ startPair \/ Reboot

Spec == Init /\ [][Next]_vars

(* The component goes on trying, or gives an answer up, and the vehicle goes on    *)
(* answering.                                                                 *)
Fairness ==
  /\ WF_vars(\E d \in Domains : RequestInfo(d) \/ SendCommand(d))
  /\ WF_vars(Serve) /\ WF_vars(Receive) /\ WF_vars(TimeOut)

FairSpec == Spec /\ Fairness
----------------------------------------------------------------------------

TypeOK ==
  /\ link \in {"down", "open"}
  /\ key \in Nat \ {NoKey} /\ storedKey \in Nat /\ zigKey \in Nat \ {NoKey}
  /\ session \in [Domains -> [epoch : Nat, counter : Nat, key : Nat, valid : BOOLEAN]]
  /\ zig \in [Domains -> [epoch : Nat, counter : Nat, key : Nat]]
  /\ stored \in [Domains -> [epoch : Nat, counter : Nat]]
  /\ csm \in CSM!States
  /\ regenerated \in BOOLEAN /\ misled \in BOOLEAN
  /\ wanted \in Nat /\ front \in Domains \cup {NoCommand}
  /\ asked \in Waiting
  /\ disturbances \in 0..MaxDisturbances
  /\ epoch \in Nat \ {NoEpoch} /\ accepted \in [Domains -> Nat] /\ paired \subseteq Nat
  /\ toVehicle \in Seq(Request \cup Command) /\ toComponent \in Seq(Reply)

(* "ERROR: Zig session key mismatch!" (cpp:1251-1268, 1884-1906) cannot be        *)
(* reported unless the key was regenerated on this connection: where the Zig      *)
(* client has a session, it is of the C++ client's epoch and secret.             *)
MirrorAgrees ==
  \A d \in Domains : zig[d] # NoMirror =>
    /\ zig[d].epoch = session[d].epoch
    /\ zig[d].key = session[d].key \/ regenerated

(* The connection state machine calls no session established that the C++         *)
(* client does not have, whatever is stored, refused or expires in which order,   *)
(* unless it was told of a success whose session info then proved unusable        *)
(* (cpp:1846-1871).                                                              *)
NeverAhead ==
  \/ misled
  \/ /\ csm \in {"secure_vcsec", "handshaking_infotainment", "fully_secure"} =>
          session[VCSEC].valid
     /\ csm = "fully_secure" => session[Infotainment].valid

(* A session that the vehicle will accept. *)
Current(d) ==
  /\ session[d].valid /\ session[d].epoch = epoch /\ session[d].key = key
  /\ session[d].counter >= accepted[d]
  /\ \A i \in 1..Len(toVehicle) :
       toVehicle[i].kind = "command" /\ toVehicle[i].domain = d /\ toVehicle[i].epoch = epoch =>
         toVehicle[i].counter <= session[d].counter

(* What may make it one that the vehicle refuses: a reconnection, which loads an   *)
(* older counter, a restart, a new key, a reboot, or a session info that left      *)
(* the vehicle before the latest commands reached it.                            *)
Overtaken ==
  /\ toComponent # <<>> /\ toComponent' = Tail(toComponent)
  /\ Head(toComponent).status = "ok"
  /\ Head(toComponent).counter < session[Head(toComponent).domain].counter

(* Nothing else does: a session the vehicle accepts stays so until it is           *)
(* invalidated (cpp:1527-1550, 1838-1925, 2399-2437).                              *)
StaysCurrent ==
  [][\A d \in Domains :
       Current(d) /\ link = "open" /\ link' = "open" /\ UNCHANGED <<key, epoch>> /\ ~Overtaken =>
         Current(d)' \/ ~session'[d].valid]_vars

(* Whatever was restored, rolled back, refused or answered late, a command gets     *)
(* its answer while the link holds and the vehicle knows the key.                 *)
Heals == front # NoCommand ~> (front = NoCommand \/ key \notin paired)
============================================================================
