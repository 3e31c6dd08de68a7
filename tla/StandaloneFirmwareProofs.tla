---------------------- MODULE StandaloneFirmwareProofs ----------------------
(***************************************************************************)
(* The two-task firmware, for every set of commands and every capacity:    *)
(* its types, also where the queue is torn between the tasks, that         *)
(* processing_queue is never left set, and that its state machine follows   *)
(* the radio.                                                              *)
(***************************************************************************)
EXTENDS StandaloneFirmware, TLAPS

(* No event of this firmware asks for the INFOTAINMENT half of the state        *)
(* machine, whose last state would be reached without a VCSEC session of its own. *)
VCSECOnly == csm \notin {"handshaking_infotainment", "fully_secure"}

(* A pushBack that is under way has found room. *)
RoomFound == pc["mqtt"] \in {"storing", "counting"} => loaded.count < Capacity

Steady == TypeOK /\ FlagIsSomeones /\ SecureChannel /\ VCSECOnly
IInv == Steady /\ RoomFound

----------------------------------------------------------------------------
(* Slots and counts. *)

LEMMA SlotFacts ==
  /\ 0 \in Slots /\ Slots \subseteq Nat
  /\ \A n \in Int : n % Capacity \in Slots
  /\ \A n \in Slots : NextSlot(n) \in Slots
  /\ \A n \in 0..MaxCount : OneLess(n) \in 0..MaxCount
BY CapacityAssumption DEF Slots, NextSlot, OneLess

LEMMA RegisterFacts ==
  /\ Unused \in Registers
  /\ TypeOK => /\ loaded.head \in Slots /\ loaded.count \in 0..MaxCount
               /\ loaded.command \in AllKinds
               /\ \A c \in AllKinds :
                    /\ [head |-> head, count |-> count, command |-> c] \in Registers
                    /\ [head |-> head, count |-> count, command |-> c].count = count
BY SlotFacts, CapacityAssumption DEF Unused, Registers, TypeOK, AllKinds

(* What the MQTT task finds of the queue at any time in an operation is a head and   *)
(* a count the queue may have.                                                  *)
LEMMA FoundFacts ==
  ASSUME TypeOK
  PROVE  /\ \A n \in CountsSince : n \in 0..MaxCount /\ n <= loaded.count
         /\ \A i \in PopsSince : NextSlot((loaded.head + i) % Capacity) \in Slots
         /\ \A i, j \in PopsSince :
              (loaded.head + i + loaded.count - j) % Capacity \in Slots
<1>1. /\ loaded.head \in Nat /\ loaded.count \in Nat /\ loaded.count <= MaxCount
      /\ count \in Nat /\ MaxCount \in Nat
  <2>1. loaded.head \in Slots /\ loaded.count \in 0..MaxCount
    BY RegisterFacts
  <2>2. count \in 0..MaxCount
    BY DEF TypeOK
  <2>3. Capacity \in Nat /\ MaxCount \in Nat
    BY CapacityAssumption
  <2> QED
    BY <2>1, <2>2, <2>3 DEF Slots
<1>2. \A i \in PopsSince : i \in Nat
  BY <1>1 DEF PopsSince
<1>3. \A n \in CountsSince : n \in 0..MaxCount /\ n <= loaded.count
  BY <1>1 DEF CountsSince
<1>4. \A i \in PopsSince : (loaded.head + i) \in Int
  BY <1>1, <1>2
<1>5. \A i, j \in PopsSince : (loaded.head + i + loaded.count - j) \in Int
  BY <1>1, <1>2
<1> QED
  BY <1>3, <1>4, <1>5, SlotFacts

----------------------------------------------------------------------------

LEMMA InitIInv == Init => IInv
<1> SUFFICES ASSUME Init PROVE IInv
  OBVIOUS
<1>1. /\ commands \in [Slots -> Contents] /\ head \in Slots /\ count \in 0..MaxCount
      /\ loaded \in Registers
  BY SlotFacts, RegisterFacts, CapacityAssumption DEF Init
<1>2. pc \in [Tasks -> Steps]
  <2>1. "idle" \in Steps
    BY DEF Steps
  <2> QED
    BY <2>1 DEF Init
<1>3. cmd \in [Tasks -> Slots]
  BY SlotFacts DEF Init
<1>4. TypeOK
  BY <1>1, <1>2, <1>3 DEF Init, TypeOK, States
<1> QED
  BY <1>4 DEF IInv, Steady, Init, FlagIsSomeones, SecureChannel, VCSECOnly, RoomFound, Tasks, Secure

----------------------------------------------------------------------------
(* processQueue.  Its steps leave the client alone, and leave the link where it  *)
(* is unless they start a scan from "idle".                                     *)

LEMMA PopKeepsQueue ==
  ASSUME TypeOK, NEW t \in Tasks, Pop(t)
  PROVE  /\ commands' = commands /\ head' \in Slots /\ count' \in 0..MaxCount
         /\ loaded' \in Registers
<1>1. CASE UNCHANGED queue
  BY <1>1 DEF queue, TypeOK
<1>2. CASE /\ head' = NextSlot(head) /\ count' = OneLess(count)
           /\ UNCHANGED <<commands, loaded>>
  BY <1>2, SlotFacts DEF TypeOK
<1>3. CASE Load("lock") /\ UNCHANGED <<commands, head, count>>
  <2>1. "lock" \in AllKinds
    BY DEF AllKinds
  <2> QED
    BY <1>3, <2>1, RegisterFacts DEF Load, TypeOK
<1> QED
  BY <1>1, <1>2, <1>3 DEF Pop

LEMMA QueueTypes ==
  ASSUME TypeOK, NEW t \in Tasks, processQueue(t)
  PROVE  TypeOK'
<1>1. /\ commands' = commands /\ head' \in Slots /\ count' \in 0..MaxCount
      /\ loaded' \in Registers
  <2>1. CASE Wrote(t)
    BY <2>1, PopKeepsQueue DEF Wrote
  <2>2. CASE ~Wrote(t)
    <3>1. UNCHANGED queue
      BY <2>2 DEF processQueue, Enter, Claim, TurnAway, Serve, TakeFront, Asked, Published
    <3> QED
      BY <3>1 DEF queue, TypeOK
  <2> QED
    BY <2>1, <2>2
<1>2. link' \in {"idle", "scanning", "connecting", "connected", "ready"}
  BY DEF TypeOK, Scanning,
     processQueue, Enter, Claim, TurnAway, Serve, TakeFront, Asked, Wrote, Published
<1>3. processing_queue' \in BOOLEAN
  BY DEF TypeOK, Leave, AfterPop, Pop,
     processQueue, Enter, Claim, TurnAway, Serve, TakeFront, Asked, Wrote, Published
<1>4. pc' \in [Tasks -> Steps]
  <2>1. \E s \in Steps : Goto(t, s)
    BY DEF Leave, AfterPop, Pop, Steps, InsideFlag,
       processQueue, Enter, Claim, TurnAway, Serve, TakeFront, Asked, Wrote, Published
  <2> QED
    BY <2>1 DEF Goto, TypeOK
<1>5. cmd' \in [Tasks -> Slots]
  <2>1. cmd' = cmd \/ \E i \in Slots : cmd' = [cmd EXCEPT ![t] = i]
    BY SlotFacts DEF TypeOK, Leave, OutOfScope, AfterPop, Pop,
       processQueue, Enter, Claim, TurnAway, Serve, TakeFront, Asked, Wrote, Published
  <2> QED
    BY <2>1 DEF TypeOK
<1>6. UNCHANGED <<client, pending_pair_request>>
  BY DEF processQueue, Enter, Claim, TurnAway, Serve, TakeFront, Asked, Wrote, Published
<1> QED
  BY <1>1, <1>2, <1>3, <1>4, <1>5, <1>6 DEF TypeOK, client

(* processQueue does not push, and the NimBLE task leaves an unfinished push as it is. *)
LEMMA QueueRoom ==
  ASSUME TypeOK, RoomFound, NEW t \in Tasks, processQueue(t)
  PROVE  RoomFound'
<1>1. CASE t = "mqtt"
  <2>1. \E s \in Steps \ {"storing", "counting"} : Goto(t, s)
    BY DEF Leave, AfterPop, Pop, Steps, InsideFlag,
       processQueue, Enter, Claim, TurnAway, Serve, TakeFront, Asked, Wrote, Published
  <2> QED
    BY <1>1, <2>1 DEF Goto, TypeOK, RoomFound, Tasks
<1>2. CASE t = "nimble"
  <2>1. \E s \in Steps : Goto(t, s)
    BY DEF Leave, AfterPop, Pop, Steps, InsideFlag,
       processQueue, Enter, Claim, TurnAway, Serve, TakeFront, Asked, Wrote, Published
  <2>2. loaded' = loaded
    BY <1>2 DEF Pop, queue,
       processQueue, Enter, Claim, TurnAway, Serve, TakeFront, Asked, Wrote, Published
  <2> QED
    BY <1>2, <2>1, <2>2 DEF Goto, TypeOK, RoomFound, Tasks
<1> QED
  BY <1>1, <1>2 DEF Tasks

(* A step of processQueue clears the flag, or leaves it to a task inside. *)
LEMMA QueueFlag ==
  ASSUME TypeOK, FlagIsSomeones, NEW t \in Tasks, processQueue(t)
  PROVE  FlagIsSomeones'
<1>1. CASE Leave(t)
  BY <1>1 DEF Leave, FlagIsSomeones
<1>2. CASE Enter(t)
  <2>1. pc[t] \notin InsideFlag
    BY <1>2 DEF Enter, At, InsideFlag
  <2> QED
    BY <1>2, <2>1 DEF Enter, Goto, FlagIsSomeones, TypeOK
<1>3. CASE \E s \in InsideFlag : Goto(t, s)
  BY <1>3 DEF Goto, FlagIsSomeones, TypeOK
<1> QED
  BY <1>1, <1>2, <1>3 DEF InsideFlag, Pop, AfterPop,
     processQueue, Claim, TurnAway, Serve, TakeFront, Asked, Wrote, Published

LEMMA QueueChannel ==
  ASSUME TypeOK, SecureChannel, VCSECOnly, NEW t \in Tasks, processQueue(t)
  PROVE  SecureChannel' /\ VCSECOnly'
<1>1. UNCHANGED client
  BY DEF processQueue, Enter, Claim, TurnAway, Serve, TakeFront, Asked, Wrote, Published
<1>2. UNCHANGED link \/ (link = "idle" /\ link' = "scanning")
  BY DEF Scanning,
     processQueue, Enter, Claim, TurnAway, Serve, TakeFront, Asked, Wrote, Published
<1> QED
  BY <1>1, <1>2 DEF client, SecureChannel, VCSECOnly, Secure

----------------------------------------------------------------------------
(* The handlers around it run outside the flag. *)

LEMMA OutsideFlag ==
  ASSUME TypeOK, FlagIsSomeones, NEW t \in Tasks, NEW s \in Steps,
         pc[t] \notin InsideFlag, Goto(t, s), UNCHANGED processing_queue
  PROVE  FlagIsSomeones'
BY DEF TypeOK, FlagIsSomeones, Goto

LEMMA PushTypes ==
  ASSUME TypeOK, NEW c \in AllKinds, PushBack(c)
  PROVE  /\ commands' = commands /\ head' = head /\ count' = count /\ loaded' \in Registers
         /\ \E s \in {"enter", "storing"} : Goto("mqtt", s)
         /\ RoomFound'
<1>1. /\ commands' = commands /\ head' = head /\ count' = count
      /\ \E s \in {"enter", "storing"} : Goto("mqtt", s)
  BY DEF PushBack
<1>2. CASE Goto("mqtt", "enter") /\ UNCHANGED loaded
  BY <1>1, <1>2 DEF TypeOK, Goto, RoomFound, Tasks
<1>3. CASE ~(count >= Capacity) /\ Load(c)
  <2>1. loaded' \in Registers /\ loaded'.count = count
    BY <1>3, RegisterFacts DEF Load
  <2>2. count \in Nat /\ Capacity \in Nat
    BY CapacityAssumption DEF TypeOK
  <2> QED
    BY <1>1, <1>3, <2>1, <2>2 DEF RoomFound
<1> QED
  BY <1>1, <1>2, <1>3 DEF PushBack

(* The rest of a pushBack or popFront, with the NimBLE task in between. *)
LEMMA OperationStep ==
  ASSUME IInv, StoreCommand \/ CountUp \/ MoveHead \/ CountDown
  PROVE  IInv'
<1>0. "mqtt" \in Tasks /\ TypeOK
  BY DEF Tasks, IInv, Steady
<1>1. /\ commands' \in [Slots -> Contents] /\ head' \in Slots /\ count' \in 0..MaxCount
      /\ loaded' \in Registers
  <2>1. CASE StoreCommand
    <3>1. PICK i \in PopsSince, j \in PopsSince :
            commands' = [commands EXCEPT
              ![(loaded.head + i + loaded.count - j) % Capacity] = loaded.command]
      BY <2>1 DEF StoreCommand
    <3>2. loaded.command \in Contents
      BY <1>0, RegisterFacts DEF Contents
    <3>3. UNCHANGED <<head, count, loaded>>
      BY <2>1 DEF StoreCommand
    <3> QED
      BY <1>0, <3>1, <3>2, <3>3 DEF TypeOK
  <2>2. CASE CountUp
    <3>1. PICK n \in CountsSince : count' = n + 1
      BY <2>2 DEF CountUp
    <3>2. n \in Nat /\ n <= loaded.count /\ loaded.count < Capacity /\ loaded.count \in Nat
      BY <1>0, <2>2, <3>1, FoundFacts, RegisterFacts DEF CountUp, At, IInv, Steady, RoomFound
    <3>3. count' \in 0..MaxCount
      BY <3>1, <3>2, CapacityAssumption
    <3> QED
      BY <1>0, <2>2, <3>3, RegisterFacts DEF CountUp, TypeOK
  <2>3. CASE MoveHead
    <3>1. head' \in Slots
      BY <1>0, <2>3, FoundFacts DEF MoveHead
    <3> QED
      BY <1>0, <2>3, <3>1 DEF MoveHead, TypeOK
  <2>4. CASE CountDown
    <3>1. count' \in 0..MaxCount
      BY <1>0, <2>4, FoundFacts, SlotFacts DEF CountDown
    <3> QED
      BY <1>0, <2>4, <3>1, RegisterFacts DEF CountDown, TypeOK
  <2> QED
    BY <2>1, <2>2, <2>3, <2>4
<1>2. UNCHANGED <<client, link, pending_pair_request>>
  BY DEF StoreCommand, CountUp, MoveHead, CountDown
<1>3. CASE StoreCommand \/ CountUp
  <2>1. PICK s \in {"counting", "enter"} : Goto("mqtt", s)
    BY <1>3 DEF StoreCommand, CountUp
  <2>2. UNCHANGED <<processing_queue, cmd>> /\ pc["mqtt"] \in {"storing", "counting"}
    BY <1>3 DEF StoreCommand, CountUp, At
  <2>3. s \in Steps
    BY DEF Steps
  <2>4. TypeOK'
    BY <1>0, <1>1, <1>2, <2>1, <2>2, <2>3 DEF Goto, TypeOK, client
  <2>5. FlagIsSomeones'
    BY <1>0, <2>1, <2>2, <2>3, OutsideFlag DEF IInv, Steady, InsideFlag
  <2>6. RoomFound'
    <3>1. CASE StoreCommand
      BY <2>2, <3>1 DEF StoreCommand, IInv, Steady, RoomFound
    <3>2. CASE CountUp
      BY <1>0, <3>2 DEF CountUp, Goto, TypeOK, RoomFound
    <3> QED
      BY <1>3, <3>1, <3>2
  <2> QED
    BY <1>2, <2>4, <2>5, <2>6 DEF IInv, Steady, client, SecureChannel, VCSECOnly
<1>4. CASE MoveHead \/ CountDown
  <2>1. (\E s \in InsideFlag : Goto("mqtt", s) /\ UNCHANGED <<processing_queue, cmd>>)
        \/ Leave("mqtt")
    BY <1>4 DEF MoveHead, CountDown, AfterPop, InsideFlag
  <2>2. \E s \in Steps \ {"storing", "counting"} : Goto("mqtt", s)
    BY <2>1 DEF Leave, Steps, InsideFlag
  <2>3. processing_queue' \in BOOLEAN /\ cmd' \in [Tasks -> Slots]
    BY <1>0, <2>1, SlotFacts DEF Leave, OutOfScope, TypeOK
  <2>4. TypeOK'
    BY <1>0, <1>1, <1>2, <2>2, <2>3 DEF Goto, TypeOK, client
  <2>5. FlagIsSomeones'
    <3>1. CASE Leave("mqtt")
      BY <3>1 DEF Leave, FlagIsSomeones
    <3>2. CASE \E s \in InsideFlag : Goto("mqtt", s)
      BY <1>0, <3>2 DEF Goto, TypeOK, FlagIsSomeones
    <3> QED
      BY <2>1, <3>1, <3>2
  <2>6. RoomFound'
    BY <1>0, <2>2 DEF Goto, TypeOK, RoomFound
  <2> QED
    BY <1>2, <2>4, <2>5, <2>6 DEF IInv, Steady, client, SecureChannel, VCSECOnly
<1> QED
  BY <1>3, <1>4

(* The other steps leave the queue alone, and no other step begins a push. *)
LEMMA NoPush ==
  ASSUME TypeOK, RoomFound, UNCHANGED queue, NEW t \in Tasks,
         NEW s \in Steps \ {"storing", "counting"}, Goto(t, s) \/ UNCHANGED pc
  PROVE  RoomFound'
<1>1. loaded' = loaded
  BY DEF queue
<1> QED
  BY <1>1 DEF Goto, TypeOK, RoomFound, Tasks

LEMMA MqttStep ==
  ASSUME IInv, mqtt
  PROVE  Steady'
<1>0. "mqtt" \in Tasks
  BY DEF Tasks
<1>1. ASSUME NEW c \in Kinds, Command(c) PROVE Steady'
  <2>1. c \in AllKinds /\ PushBack(c) /\ pc["mqtt"] = "idle"
    BY <1>1, KindsAssumption DEF Command, At
  <2>2. PICK s \in {"enter", "storing"} : Goto("mqtt", s)
    BY <2>1, PushTypes DEF IInv, Steady
  <2>3. s \in Steps
    BY DEF Steps
  <2>4. TypeOK'
    BY <1>0, <1>1, <2>1, <2>2, <2>3, PushTypes DEF IInv, Steady, Command, Goto, TypeOK, client
  <2>5. FlagIsSomeones'
    BY <1>0, <1>1, <2>1, <2>2, <2>3, OutsideFlag DEF IInv, Steady, Command, InsideFlag
  <2> QED
    BY <1>1, <2>4, <2>5 DEF IInv, Steady, Command, client, SecureChannel, VCSECOnly
<1>2. CASE Pair
  <2>1. TypeOK'
    BY <1>0, <1>2 DEF IInv, Steady, queue, Pair, Goto, TypeOK, client, Steps
  <2>2. FlagIsSomeones'
    BY <1>0, <1>2, OutsideFlag DEF IInv, Steady, queue, Pair, At, InsideFlag, Steps
  <2> QED
    BY <1>2, <2>1, <2>2 DEF IInv, Steady, Pair, client, SecureChannel, VCSECOnly
<1>3. CASE PairNow
  <2>1. TypeOK'
    BY <1>0, <1>3 DEF IInv, Steady, queue, PairNow, Scanning, Goto, TypeOK, client, Steps
  <2>2. FlagIsSomeones'
    BY <1>0, <1>3, OutsideFlag DEF IInv, Steady, queue, PairNow, At, InsideFlag, Steps
  <2> QED
    BY <1>3, <2>1, <2>2 DEF IInv, Steady, PairNow, Scanning, client, SecureChannel, VCSECOnly
<1>4. CASE Told("mqtt")
  <2>1. TypeOK'
    BY <1>0, <1>4 DEF IInv, Steady, queue, Told, Goto, TypeOK, client, Steps
  <2>2. FlagIsSomeones'
    BY <1>0, <1>4, OutsideFlag DEF IInv, Steady, queue, Told, At, InsideFlag, Steps
  <2> QED
    BY <1>4, <2>1, <2>2 DEF IInv, Steady, Told, client, SecureChannel, VCSECOnly
<1>5. CASE processQueue("mqtt")
  BY <1>0, <1>5, QueueTypes, QueueFlag, QueueChannel DEF IInv, Steady
<1>6. CASE StoreCommand \/ CountUp \/ MoveHead \/ CountDown
  BY <1>6, OperationStep DEF IInv
<1>7. CASE Unrecognized
  <2>1. TypeOK'
    BY <1>0, <1>7 DEF IInv, Steady, queue, Unrecognized, Goto, TypeOK, client, Steps
  <2>2. FlagIsSomeones'
    BY <1>0, <1>7, OutsideFlag DEF IInv, Steady, queue, Unrecognized, At, InsideFlag, Steps
  <2> QED
    BY <1>7, <2>1, <2>2 DEF IInv, Steady, Unrecognized, client, SecureChannel, VCSECOnly
<1> QED
  BY <1>1, <1>2, <1>3, <1>4, <1>5, <1>6, <1>7 DEF mqtt

LEMMA NimbleStep ==
  ASSUME IInv, nimble
  PROVE  Steady'
<1>0. "nimble" \in Tasks
  BY DEF Tasks
<1>1. CASE Discovered \/ ConnectFailed
  <2>1. TypeOK'
    BY <1>1 DEF IInv, Steady, queue, Discovered, ConnectFailed, Event, client, TypeOK
  <2> QED
    BY <1>1, <2>1 DEF IInv, Steady, queue, Discovered, ConnectFailed, Event, client, SecureChannel,
                      VCSECOnly, FlagIsSomeones
<1>2. CASE Connected
  <2>1. csm = "disconnected" /\ csm' = "handshaking_vcsec"
    BY <1>2 DEF IInv, Steady, SecureChannel, Connected, After
  <2>2. TypeOK'
    BY <1>2, <2>1 DEF IInv, Steady, queue, Connected, Event, TypeOK, States
  <2> QED
    BY <1>2, <2>1, <2>2 DEF IInv, Steady, queue, Connected, Event, SecureChannel, Secure,
                            VCSECOnly, FlagIsSomeones
<1>3. CASE ChannelReady
  <2>1. csm' \in States \ {"disconnected", "handshaking_infotainment", "fully_secure"}
    BY <1>3 DEF IInv, Steady, SecureChannel, VCSECOnly, ChannelReady, client, After, TypeOK, States
  <2>2. csm' \in Secure => valid'["vehicle_security"]
    BY <1>3 DEF IInv, Steady, SecureChannel, ChannelReady, client, HasSession, Secure
  <2>3. TypeOK'
    BY <1>0, <1>3, <2>1 DEF IInv, Steady, queue, ChannelReady, Event, client, Goto, TypeOK, Steps
  <2>4. FlagIsSomeones'
    BY <1>0, <1>3, OutsideFlag DEF IInv, Steady, queue, ChannelReady, Event, InsideFlag, Steps
  <2> QED
    BY <1>3, <2>1, <2>2, <2>3, <2>4 DEF IInv, Steady, ChannelReady, SecureChannel, VCSECOnly
<1>4. CASE Disconnected
  <2>1. csm' = "disconnected"
    BY <1>4 DEF Disconnected, After
  <2>2. TypeOK'
    BY <1>4, <2>1 DEF IInv, Steady, queue, Disconnected, Event, TypeOK, States
  <2> QED
    BY <1>4, <2>1, <2>2 DEF IInv, Steady, queue, Disconnected, Event, SecureChannel, Secure,
                            VCSECOnly, FlagIsSomeones
<1>5. ASSUME NEW d \in Domains, IgnoreSessionInfo(d) PROVE Steady'
  <2>1. TypeOK'
    BY <1>0, <1>5 DEF IInv, Steady, queue, IgnoreSessionInfo, Notified, Event, client, Goto, TypeOK, Steps
  <2>2. FlagIsSomeones'
    BY <1>0, <1>5, OutsideFlag DEF IInv, Steady, queue, IgnoreSessionInfo, Notified, Event, InsideFlag, Steps
  <2> QED
    BY <1>5, <2>1, <2>2 DEF IInv, Steady, IgnoreSessionInfo, Notified, client, SecureChannel, VCSECOnly
<1>6. ASSUME NEW d \in Domains, AcceptSessionInfo(d) PROVE Steady'
  <2>1. csm' = After(csm, SuccessEvent(d)) /\ valid' = [valid EXCEPT ![d] = TRUE]
        /\ link = "ready" /\ link' = "ready"
    BY <1>6 DEF AcceptSessionInfo, Notified
  <2>2. csm' \in States \ {"disconnected", "handshaking_infotainment", "fully_secure"}
    BY <2>1 DEF IInv, Steady, SecureChannel, VCSECOnly, After, SuccessEvent, TypeOK, States
  <2>3. csm' \in Secure => csm \in Secure \/ d = "vehicle_security"
    BY <2>1 DEF After, SuccessEvent, Secure, IInv, Steady, VCSECOnly
  <2>4. csm' \in Secure => valid'["vehicle_security"]
    BY <2>1, <2>3 DEF IInv, Steady, SecureChannel, TypeOK, Domains
  <2>5. TypeOK'
    BY <1>0, <1>6, <2>1, <2>2 DEF IInv, Steady, queue, AcceptSessionInfo, Notified, Event, Goto, TypeOK, Steps
  <2>6. FlagIsSomeones'
    BY <1>0, <1>6, OutsideFlag DEF IInv, Steady, queue, AcceptSessionInfo, Notified, Event, InsideFlag, Steps
  <2> QED
    BY <2>1, <2>2, <2>4, <2>5, <2>6 DEF IInv, Steady, SecureChannel, VCSECOnly
<1>7. ASSUME NEW d \in Domains, RefuseSession(d) PROVE Steady'
  <2>1. /\ csm' = After(csm, "handshake_failed") /\ UNCHANGED <<valid, link>>
        /\ link = "ready"
    BY <1>7 DEF RefuseSession, Notified
  <2>2. csm' \in States \ {"disconnected", "handshaking_infotainment", "fully_secure"}
    BY <2>1 DEF IInv, Steady, SecureChannel, VCSECOnly, After, TypeOK, States
  <2>3. csm' \in Secure => csm \in Secure
    BY <2>1 DEF After, Secure, IInv, Steady, VCSECOnly
  <2>4. TypeOK'
    BY <1>7, <2>1, <2>2 DEF IInv, Steady, queue, RefuseSession, Notified, Event, TypeOK
  <2> QED
    BY <1>7, <2>1, <2>2, <2>3, <2>4 DEF IInv, Steady, queue, RefuseSession, Notified, Event,
                                        SecureChannel, VCSECOnly, FlagIsSomeones
<1>8. CASE Greeted
  <2>1. TypeOK'
    BY <1>0, <1>8 DEF IInv, Steady, queue, Greeted, Goto, TypeOK, client, Steps
  <2>2. FlagIsSomeones'
    BY <1>0, <1>8, OutsideFlag DEF IInv, Steady, queue, Greeted, At, InsideFlag, Steps
  <2> QED
    BY <1>8, <2>1, <2>2 DEF IInv, Steady, Greeted, client, SecureChannel, VCSECOnly
<1>9. CASE Told("nimble")
  <2>1. TypeOK'
    BY <1>0, <1>9 DEF IInv, Steady, queue, Told, Goto, TypeOK, client, Steps
  <2>2. FlagIsSomeones'
    BY <1>0, <1>9, OutsideFlag DEF IInv, Steady, queue, Told, At, InsideFlag, Steps
  <2> QED
    BY <1>9, <2>1, <2>2 DEF IInv, Steady, Told, client, SecureChannel, VCSECOnly
<1>10. CASE processQueue("nimble")
  BY <1>0, <1>10, QueueTypes, QueueFlag, QueueChannel DEF IInv, Steady
<1> QED
  BY <1>1, <1>2, <1>3, <1>4, <1>5, <1>6, <1>7, <1>8, <1>9, <1>10 DEF nimble

LEMMA RoomStep ==
  ASSUME IInv, mqtt \/ nimble
  PROVE  RoomFound'
<1>0. /\ TypeOK /\ RoomFound /\ "mqtt" \in Tasks /\ "nimble" \in Tasks
      /\ "idle" \in Steps \ {"storing", "counting"}
  BY DEF IInv, Steady, Tasks, Steps
<1>1. CASE \E c \in Kinds : Command(c)
  BY <1>0, <1>1, KindsAssumption, PushTypes DEF Command
<1>2. CASE StoreCommand \/ CountUp \/ MoveHead \/ CountDown
  BY <1>2, OperationStep DEF IInv
<1>3. CASE processQueue("mqtt") \/ processQueue("nimble")
  BY <1>0, <1>3, QueueRoom
<1>4. CASE Unrecognized \/ Pair \/ PairNow \/ Told("mqtt")
  <2>1. UNCHANGED queue /\ \E s \in Steps \ {"storing", "counting"} : Goto("mqtt", s)
    BY <1>4 DEF Unrecognized, Pair, PairNow, Told, Steps, InsideFlag
  <2> QED
    BY <1>0, <2>1, NoPush
<1>5. CASE \/ Discovered \/ ConnectFailed \/ Connected \/ ChannelReady \/ Disconnected
          \/ Greeted \/ Told("nimble")
  <2>1. /\ UNCHANGED queue
        /\ \/ UNCHANGED pc
           \/ \E s \in Steps \ {"storing", "counting"} : Goto("nimble", s)
    BY <1>5 DEF Discovered, ConnectFailed, Connected, ChannelReady, Disconnected, Event,
                Greeted, Told, Steps, InsideFlag
  <2> QED
    BY <1>0, <2>1, NoPush
<1>6. ASSUME NEW d \in Domains,
             IgnoreSessionInfo(d) \/ AcceptSessionInfo(d) \/ RefuseSession(d)
      PROVE  RoomFound'
  <2>1. /\ UNCHANGED queue
        /\ \/ UNCHANGED pc
           \/ \E s \in Steps \ {"storing", "counting"} : Goto("nimble", s)
    BY <1>6 DEF IgnoreSessionInfo, AcceptSessionInfo, RefuseSession, Notified, Event,
                Steps, InsideFlag
  <2> QED
    BY <1>0, <2>1, NoPush
<1>7. CASE mqtt
  BY <1>1, <1>2, <1>3, <1>4, <1>7 DEF mqtt
<1>8. CASE nimble
  BY <1>3, <1>5, <1>6, <1>8 DEF nimble
<1> QED
  BY <1>7, <1>8

LEMMA StepIInv == IInv /\ [Next]_vars => IInv'
<1> SUFFICES ASSUME IInv, [Next]_vars PROVE IInv'
  OBVIOUS
<1>1. CASE UNCHANGED vars
  BY <1>1 DEF vars, queue, client, IInv, Steady, TypeOK, FlagIsSomeones, SecureChannel, VCSECOnly, RoomFound
<1> QED
  BY <1>1, MqttStep, NimbleStep, RoomStep DEF Next, IInv

----------------------------------------------------------------------------

(* The inductive invariant of the firmware: types, the flag, the channel, that the *)
(* INFOTAINMENT half of the state machine is never entered, and that an unfinished *)
(* pushBack has found room.                                                     *)
THEOREM Invariance == Spec => []IInv
BY InitIInv, StepIInv, PTL DEF Spec

(* Whatever the two tasks do in the middle of each other's operations on the queue,  *)
(* head and the slots written stay inside its array and the state of both tasks     *)
(* stays well formed (command_queue.zig:84-110).                                   *)
THEOREM TypeCorrect == Spec => []TypeOK
<1>1. IInv => TypeOK
  BY DEF IInv, Steady
<1> QED
  BY <1>1, Invariance, PTL

(* A set processing_queue always has a task inside to clear it                   *)
(* (firmware.zig:521-600).                                                       *)
THEOREM FlagNeverLeft == Spec => []FlagIsSomeones
<1>1. IInv => FlagIsSomeones
  BY DEF IInv, Steady
<1> QED
  BY <1>1, Invariance, PTL

(* A secure state means a ready channel and a VCSEC session, and disconnected      *)
(* means no connection (firmware.zig:361-373, nimble.zig:45-75).                   *)
THEOREM ChannelFollowed == Spec => []SecureChannel
<1>1. IInv => SecureChannel
  BY DEF IInv, Steady
<1> QED
  BY <1>1, Invariance, PTL
============================================================================
