----------------------- MODULE PollingSchedulerProofs -----------------------
(***************************************************************************)
(* The scheduler's timing promises, for all periods, gaps and a clock that *)
(* wraps anywhere beyond them.                                             *)
(***************************************************************************)
EXTENDS PollingScheduler, TLAPS

(* A time that is kept tells how long ago it was, as far as times go back. *)
Agrees(age, stamp) == age < Horizon => Elapsed(stamp) = age

ClocksAgree ==
  /\ Agrees(sinceVCSEC, lastVCSEC)
  /\ Agrees(sinceInfotainment, lastInfotainment)
  /\ Agrees(sinceWake, carWakeTime)
  /\ Agrees(sinceClose, disconnectedAt)

DataLimit == Longer(DataPeriod, ChargingPeriod)

(* While a car counts as just woken its data is fresh, and the latest poll was    *)
(* made when the post-wake time was not over.                                  *)
WokenData ==
  justWoken # "no" =>
    /\ sinceInfotainment <= DataLimit + sinceTick
    /\ sinceWake <= PostWakeTime + sinceInfotainment

IInv ==
  /\ TypeOK /\ ClocksAgree
  /\ OneOffIsComplete /\ FreshData /\ WokenData /\ UnknownInTime

USE PeriodsAssumption, ClockAssumption, CountAssumption

LEMMA Limits ==
  /\ DataLimit \in Nat
  /\ DataPeriod <= DataLimit /\ ChargingPeriod <= DataLimit
  /\ PostWakeTime + DataLimit + MaxTickGap < Horizon
BY DEF DataLimit, Longer

(* Time passing moves the clock and the ages together. *)
LEMMA AgreeLater ==
  ASSUME NEW age \in Ages, NEW stamp \in Instants, now \in Instants, Agrees(age, stamp),
         now' = (IF now + 1 = Wrap THEN 0 ELSE now + 1)
  PROVE  Older(age) < Horizon =>
           (IF stamp <= now' THEN now' - stamp ELSE now' - stamp + Wrap) = Older(age)
BY DEF Agrees, Elapsed, Older, Ages, Instants

----------------------------------------------------------------------------
LEMMA InitIInv == Init => IInv
<1> SUFFICES ASSUME Init PROVE IInv
  OBVIOUS
<1>1. TypeOK
  <2>1. previousAsleep \in BOOLEAN /\ oneOff \in BOOLEAN
    BY Zenon DEF Init
  <2> QED
    BY <2>1 DEF Init, TypeOK, Instants, Ages, Requests
<1>2. ClocksAgree
  BY DEF Init, ClocksAgree, Agrees, Elapsed
<1>3. OneOffIsComplete /\ FreshData /\ WokenData /\ UnknownInTime
  BY DEF Init, OneOffIsComplete, FreshData, WokenData, UnknownInTime
<1> QED
  BY <1>1, <1>2, <1>3 DEF IInv

(* What update() does to the record of the disconnection. *)
LEMMA ExpireStep ==
  ASSUME IInv, ExpireSensors, sinceUpdate' = 0, UNCHANGED <<config, now, sinceClose>>
  PROVE  /\ ble' \in {"connected", "disconnected", "unknowns_set"}
         /\ Agrees(sinceClose, disconnectedAt)'
         /\ UnknownInTime'
<1>1. /\ minTime \in DisconnectedMinTimes /\ minTime \in Nat
      /\ sinceClose \in Ages /\ sinceUpdate \in 0..MaxUpdateGap
      /\ ble \in {"connected", "disconnected", "unknowns_set"}
  BY DEF IInv, TypeOK
<1>2. UNCHANGED <<minTime, now, sinceClose, disconnectedAt>>
  BY DEF ExpireSensors, config
<1>3. Agrees(sinceClose, disconnectedAt)'
  BY <1>2 DEF IInv, ClocksAgree, Agrees, Elapsed
<1>4. ASSUME minTime # 0, ble = "disconnected"
      PROVE  /\ Expired <=> sinceClose > minTime
  <2>1. sinceClose <= minTime + sinceUpdate /\ minTime + MaxUpdateGap < Horizon
    BY <1>1, <1>4 DEF IInv, UnknownInTime
  <2>2. sinceClose < Horizon
    BY <1>1, <2>1 DEF Ages
  <2>3. Elapsed(disconnectedAt) = sinceClose
    BY <2>2 DEF IInv, ClocksAgree, Agrees
  <2> QED
    BY <1>4, <2>3 DEF Expired
<1>5. UnknownInTime'
  <2>1. ASSUME minTime # 0, Expired PROVE ble = "disconnected"
    BY <2>1 DEF Expired
  <2> QED
    BY <1>1, <1>2, <1>4, <2>1 DEF IInv, UnknownInTime, ExpireSensors, Ages
<1> QED
  BY <1>1, <1>3, <1>5 DEF ExpireSensors

(* The decisions of one tick. *)
LEMMA TickStep ==
  ASSUME IInv, NEW asleep \in BOOLEAN, NEW unlocked \in BOOLEAN, NEW present \in BOOLEAN,
         tick(asleep, unlocked, present), UNCHANGED <<config, now>>
  PROVE  /\ lastVCSEC' \in Instants /\ lastInfotainment' \in Instants /\ carWakeTime' \in Instants
         /\ justWoken' \in {"no", "yes_initial", "yes_polling"}
         /\ charging' \in {"no", "just_started", "ongoing"}
         /\ justStarted' \in 0..3 /\ updates' \in 0..MaxUpdates
         /\ previousAsleep' \in BOOLEAN /\ oneOff' \in BOOLEAN /\ requested' \subseteq Requests
         /\ sinceVCSEC' \in Ages /\ sinceInfotainment' \in Ages /\ sinceWake' \in Ages
         /\ sinceTick' = 0
         /\ Agrees(sinceVCSEC, lastVCSEC)'
         /\ Agrees(sinceInfotainment, lastInfotainment)'
         /\ Agrees(sinceWake, carWakeTime)'
         /\ OneOffIsComplete' /\ FreshData' /\ WokenData'
<1> DEFINE eager == Eager(unlocked, present)
           woken == WokenBefore(asleep)
           charge == ChargingBefore(asleep)
           at == WakeTime(asleep)
           due == InfotainmentDue(eager, woken, charge)
<1>0. TypeOK
  BY DEF IInv
<1>1. /\ IF VCSECDue(asleep)
         THEN lastVCSEC' = now /\ sinceVCSEC' = 0
         ELSE UNCHANGED <<lastVCSEC, sinceVCSEC>>
      /\ justStarted' = BootedFurther(justStarted)
      /\ requested' \subseteq Requests
      /\ carWakeTime' = at
      /\ sinceWake' = IF Wakes(asleep) THEN 0 ELSE sinceWake
      /\ previousAsleep' = asleep
      /\ charging' = ChargingAfter(eager, charge)
      /\ justWoken' = WokenAfter(due, eager, charge, woken, at)
      /\ IF due
         THEN lastInfotainment' = now /\ sinceInfotainment' = 0 /\ updates' = CountedPoll
         ELSE UNCHANGED <<lastInfotainment, sinceInfotainment, updates>>
      /\ oneOff' = (oneOff /\ ~due)
      /\ sinceTick' = 0
  BY DEF tick, OneOffAfter
<1>2. now' = now /\ now \in Instants /\ 0 \in Ages
  BY <1>0 DEF TypeOK, Ages
<1>3. /\ woken \in {"no", "yes_initial", "yes_polling"}
      /\ charge \in {"no", "just_started", "ongoing"}
      /\ at \in Instants
  BY <1>0, <1>2 DEF TypeOK, WokenBefore, ChargingBefore, WakeTime
<1>4. /\ justWoken' \in {"no", "yes_initial", "yes_polling"}
      /\ justWoken' # "no" => woken # "no" /\ (due => ~(Elapsed(at) > PostWakeTime))
  BY <1>1, <1>3 DEF WokenAfter, WokenPolled
<1>5. /\ charging' \in {"no", "just_started", "ongoing"}
      /\ charging' = "ongoing" => charge \in {"just_started", "ongoing"}
      /\ charging' = "ongoing" /\ charge = "just_started" => due
  BY <1>1, <1>3 DEF ChargingAfter, InfotainmentDue
<1>6. /\ justStarted' \in 0..3 /\ updates' \in 0..MaxUpdates
      /\ lastVCSEC' \in Instants /\ lastInfotainment' \in Instants
      /\ sinceVCSEC' \in Ages /\ sinceInfotainment' \in Ages /\ sinceWake' \in Ages
  BY <1>0, <1>1, <1>2 DEF TypeOK, BootedFurther, CountedPoll
<1>7. /\ Agrees(sinceVCSEC, lastVCSEC)'
      /\ Agrees(sinceInfotainment, lastInfotainment)'
  BY <1>1, <1>2 DEF IInv, ClocksAgree, Agrees, Elapsed, Instants
<1>8. /\ Agrees(sinceWake, carWakeTime)'
      /\ sinceWake' < Horizon => Elapsed(at) = sinceWake'
  BY <1>1, <1>2 DEF IInv, ClocksAgree, Agrees, Elapsed, Instants, WakeTime
<1>9. OneOffIsComplete'
  BY <1>1 DEF IInv, OneOffIsComplete, InfotainmentDue, Eager
<1>10. ASSUME charge = "ongoing", ~due PROVE sinceInfotainment <= ChargingPeriod
  <2>1. charging = "ongoing"
    BY <1>10, <1>0 DEF ChargingBefore, TypeOK
  <2>2. sinceInfotainment <= ChargingPeriod + sinceTick /\ sinceTick <= MaxTickGap
    BY <1>0, <2>1 DEF IInv, FreshData, TypeOK
  <2>3. sinceInfotainment < Horizon
    BY <2>2, <1>0, Limits DEF TypeOK, Ages
  <2>4. ~(Elapsed(lastInfotainment) > ChargingPeriod) /\ Elapsed(lastInfotainment) = sinceInfotainment
    BY <1>10, <2>3 DEF IInv, ClocksAgree, Agrees, InfotainmentDue
  <2> QED
    BY <1>0, <2>4 DEF TypeOK, Ages
<1>11. FreshData'
  BY <1>1, <1>5, <1>10 DEF FreshData, Ages
<1>12. ASSUME ~due, woken # "no"
       PROVE  sinceInfotainment <= DataLimit
  <2>1. charge # "just_started" /\ ~(charge = "no" /\ woken = "yes_initial")
    BY <1>12 DEF InfotainmentDue
  <2>2. CASE charge = "ongoing"
    BY <1>0, <1>10, <1>12, <2>2, Limits DEF TypeOK, Ages
  <2>3. CASE charge = "no" /\ woken = "yes_polling"
    <3>1. justWoken # "no"
      BY <2>3 DEF WokenBefore
    <3>2. sinceInfotainment < Horizon
      BY <1>0, <3>1, Limits DEF IInv, WokenData, TypeOK, Ages
    <3>3. ~(Elapsed(lastInfotainment) > DataPeriod) /\ Elapsed(lastInfotainment) = sinceInfotainment
      BY <1>12, <2>3, <3>2 DEF IInv, ClocksAgree, Agrees, InfotainmentDue
    <3> QED
      BY <1>0, <3>3, Limits DEF TypeOK, Ages
  <2> QED
    BY <1>3, <1>12, <2>1, <2>2, <2>3
<1>13. ASSUME justWoken' # "no"
       PROVE  /\ sinceInfotainment' <= DataLimit
              /\ sinceWake' <= PostWakeTime + sinceInfotainment'
  <2>1. woken # "no"
    BY <1>4, <1>13
  <2>2. sinceWake' <= PostWakeTime + sinceInfotainment /\ sinceWake' < Horizon
    <3>1. CASE Wakes(asleep)
      BY <1>0, <1>1, <3>1 DEF TypeOK, Ages
    <3>2. CASE ~Wakes(asleep)
      <4>1. justWoken # "no" /\ sinceWake' = sinceWake
        BY <1>1, <2>1, <3>2 DEF WokenBefore
      <4>2. sinceInfotainment <= DataLimit + sinceTick /\ sinceWake <= PostWakeTime + sinceInfotainment
        BY <4>1 DEF IInv, WokenData
      <4> QED
        BY <1>0, <4>1, <4>2, Limits DEF TypeOK, Ages
    <3> QED
      BY <3>1, <3>2
  <2>3. CASE due
    <3>1. sinceInfotainment' = 0 /\ ~(Elapsed(at) > PostWakeTime)
      BY <1>1, <1>4, <1>13, <2>3
    <3>2. Elapsed(at) = sinceWake'
      BY <1>8, <2>2
    <3> HIDE DEF at, due
    <3>3. ~(sinceWake' > PostWakeTime)
      BY <3>1, <3>2
    <3> QED
      BY <1>6, <3>1, <3>3, Limits DEF Ages
  <2>4. CASE ~due
    BY <1>1, <1>12, <2>1, <2>2, <2>4
  <2> QED
    BY <2>3, <2>4
<1>14. WokenData'
  <2>1. DataLimit' = DataLimit
    BY DEF DataLimit
  <2> QED
    BY <1>1, <1>13, <2>1, Limits DEF WokenData
<1> QED
  BY <1>1, <1>3, <1>4, <1>5, <1>6, <1>7, <1>8, <1>9, <1>11, <1>14

(* A step that leaves the clock, the kept times and the ages alone keeps the      *)
(* clocks agreeing.                                                            *)
LEMMA ClocksKept ==
  ASSUME ClocksAgree,
         UNCHANGED <<now, lastVCSEC, sinceVCSEC, lastInfotainment, sinceInfotainment,
                     carWakeTime, sinceWake, disconnectedAt, sinceClose>>
  PROVE  ClocksAgree'
BY DEF ClocksAgree, Agrees, Elapsed

(* What the polls promise is kept by a step that leaves what they read alone, or *)
(* that only stops a charge.                                                    *)
LEMMA PollsKept ==
  ASSUME FreshData, WokenData,
         UNCHANGED <<justWoken, sinceInfotainment, sinceWake, sinceTick>>,
         charging' = "ongoing" => charging = "ongoing"
  PROVE  FreshData' /\ WokenData'
BY DEF FreshData, WokenData, DataLimit

----------------------------------------------------------------------------
LEMMA UpdateUnlinkedStep == IInv /\ UpdateUnlinked => IInv'
<1> SUFFICES ASSUME IInv, UpdateUnlinked PROVE IInv'
  OBVIOUS
<1>1. /\ ExpireSensors /\ sinceUpdate' = 0
      /\ UNCHANGED <<config, now, scheduler, oneOff, requested, sinceVCSEC,
                     sinceInfotainment, sinceWake, sinceTick, sinceClose>>
  BY DEF UpdateUnlinked
<1>2. /\ ble' \in {"connected", "disconnected", "unknowns_set"}
      /\ UnknownInTime'
  BY <1>1, ExpireStep
<1>3. ClocksAgree'
  BY <1>1, ClocksKept DEF IInv, ExpireSensors, scheduler
<1>4. OneOffIsComplete' /\ FreshData' /\ WokenData'
  BY <1>1, PollsKept DEF IInv, OneOffIsComplete, scheduler
<1>5. TypeOK'
  BY <1>1, <1>2 DEF IInv, TypeOK, ExpireSensors, scheduler, config
<1> QED
  BY <1>2, <1>3, <1>4, <1>5 DEF IInv

LEMMA UpdateLinkedStep == IInv /\ UpdateLinked => IInv'
<1> SUFFICES ASSUME IInv, UpdateLinked PROVE IInv'
  OBVIOUS
<1>1. /\ ExpireSensors /\ sinceUpdate' = 0 /\ UNCHANGED <<config, now, sinceClose>>
      /\ UNCHANGED <<link, disconnectedAt>>
  BY DEF UpdateLinked, ExpireSensors
<1>2. PICK asleep \in BOOLEAN, unlocked \in BOOLEAN, present \in BOOLEAN :
        tick(asleep, unlocked, present)
  BY DEF UpdateLinked
<1>3. /\ ble' \in {"connected", "disconnected", "unknowns_set"}
      /\ Agrees(sinceClose, disconnectedAt)' /\ UnknownInTime'
  BY <1>1, ExpireStep
<1>4. /\ lastVCSEC' \in Instants /\ lastInfotainment' \in Instants /\ carWakeTime' \in Instants
      /\ justWoken' \in {"no", "yes_initial", "yes_polling"}
      /\ charging' \in {"no", "just_started", "ongoing"}
      /\ justStarted' \in 0..3 /\ updates' \in 0..MaxUpdates
      /\ previousAsleep' \in BOOLEAN /\ oneOff' \in BOOLEAN /\ requested' \subseteq Requests
      /\ sinceVCSEC' \in Ages /\ sinceInfotainment' \in Ages /\ sinceWake' \in Ages
      /\ sinceTick' = 0
      /\ Agrees(sinceVCSEC, lastVCSEC)'
      /\ Agrees(sinceInfotainment, lastInfotainment)'
      /\ Agrees(sinceWake, carWakeTime)'
      /\ OneOffIsComplete' /\ FreshData' /\ WokenData'
  BY <1>1, <1>2, TickStep
<1>5. ClocksAgree'
  BY <1>3, <1>4 DEF ClocksAgree
<1>6. TypeOK'
  BY <1>1, <1>3, <1>4 DEF IInv, TypeOK, config
<1> QED
  BY <1>3, <1>4, <1>5, <1>6 DEF IInv

LEMMA OpenedStep == IInv /\ Opened => IInv'
<1> SUFFICES ASSUME IInv, Opened PROVE IInv'
  OBVIOUS
<1>1. TypeOK'
  BY DEF IInv, TypeOK, Opened, config, Instants, Ages
<1>2. ClocksAgree'
  BY DEF IInv, ClocksAgree, Agrees, Elapsed, Opened
<1>3. FreshData' /\ WokenData'
  BY PollsKept DEF IInv, Opened
<1>4. OneOffIsComplete' /\ UnknownInTime'
  BY DEF OneOffIsComplete, UnknownInTime, Opened
<1> QED
  BY <1>1, <1>2, <1>3, <1>4 DEF IInv

LEMMA LinkStep == IInv /\ (Established \/ Disconnected) => IInv'
<1> SUFFICES ASSUME IInv, Established \/ Disconnected PROVE IInv'
  OBVIOUS
<1>1. /\ link' \in {"down", "open", "established", "lost"}
      /\ UNCHANGED <<config, now, scheduler, oneOff, ble, disconnectedAt, requested, history>>
  BY DEF Established, Disconnected
<1>2. TypeOK'
  BY <1>1 DEF IInv, TypeOK, config, scheduler, history
<1>3. ClocksAgree' /\ FreshData' /\ WokenData'
  BY <1>1, ClocksKept, PollsKept DEF IInv, scheduler, history
<1>4. OneOffIsComplete' /\ UnknownInTime'
  BY <1>1 DEF IInv, OneOffIsComplete, UnknownInTime, config, scheduler, history
<1> QED
  BY <1>2, <1>3, <1>4 DEF IInv

LEMMA ClosedStep == IInv /\ Closed => IInv'
<1> SUFFICES ASSUME IInv, Closed PROVE IInv'
  OBVIOUS
<1>1. TypeOK'
  BY DEF IInv, TypeOK, Closed, ClosedAt, config, Instants, Ages
<1>2. ClocksAgree'
  BY DEF IInv, TypeOK, ClocksAgree, Agrees, Elapsed, Closed, ClosedAt, Instants
<1>3. FreshData' /\ WokenData'
  BY PollsKept DEF IInv, Closed
<1>4. OneOffIsComplete'
  BY DEF IInv, OneOffIsComplete, Closed
<1>5. UnknownInTime'
  BY DEF IInv, TypeOK, UnknownInTime, Closed, config
<1> QED
  BY <1>1, <1>2, <1>3, <1>4, <1>5 DEF IInv

LEMMA ForceUpdateStep == IInv /\ ForceUpdate => IInv'
<1> SUFFICES ASSUME IInv, ForceUpdate PROVE IInv'
  OBVIOUS
<1>1. oneOff' \in BOOLEAN
  BY Zenon DEF ForceUpdate
<1>2. TypeOK'
  BY <1>1 DEF IInv, TypeOK, ForceUpdate, config, connection, history
<1>3. ClocksAgree' /\ FreshData' /\ WokenData'
  BY ClocksKept, PollsKept DEF IInv, ForceUpdate, connection, history
<1>4. OneOffIsComplete' /\ UnknownInTime'
  BY DEF IInv, OneOffIsComplete, UnknownInTime, ForceUpdate, config, connection, history
<1> QED
  BY <1>2, <1>3, <1>4 DEF IInv

LEMMA SessionInvalidStep == IInv /\ SessionInvalid => IInv'
<1> SUFFICES ASSUME IInv, SessionInvalid PROVE IInv'
  OBVIOUS
<1>1. TypeOK'
  BY DEF IInv, TypeOK, SessionInvalid, config, connection, history
<1>2. ClocksAgree' /\ FreshData' /\ WokenData'
  BY ClocksKept, PollsKept DEF IInv, SessionInvalid, connection, history
<1>3. OneOffIsComplete' /\ UnknownInTime'
  BY DEF IInv, OneOffIsComplete, UnknownInTime, SessionInvalid, config, connection, history
<1> QED
  BY <1>1, <1>2, <1>3 DEF IInv

LEMMA ChargingChangesStep == IInv /\ ChargingChanges => IInv'
<1> SUFFICES ASSUME IInv, ChargingChanges PROVE IInv'
  OBVIOUS
<1>1. charging' \in {"just_started", "no"}
  BY DEF ChargingChanges
<1>2. TypeOK'
  BY <1>1 DEF IInv, TypeOK, ChargingChanges, config, connection, history
<1>3. ClocksAgree' /\ FreshData' /\ WokenData'
  BY <1>1, ClocksKept, PollsKept DEF IInv, ChargingChanges, connection, history
<1>4. OneOffIsComplete' /\ UnknownInTime'
  BY DEF IInv, OneOffIsComplete, UnknownInTime, ChargingChanges, config, connection, history
<1> QED
  BY <1>2, <1>3, <1>4 DEF IInv

LEMMA AdvanceStep == IInv /\ Advance => IInv'
<1> SUFFICES ASSUME IInv, Advance PROVE IInv'
  OBVIOUS
<1>1. /\ now \in Instants /\ lastVCSEC \in Instants /\ lastInfotainment \in Instants
      /\ carWakeTime \in Instants /\ disconnectedAt \in Instants
      /\ sinceVCSEC \in Ages /\ sinceInfotainment \in Ages /\ sinceWake \in Ages
      /\ sinceClose \in Ages /\ sinceTick \in 0..MaxTickGap /\ sinceUpdate \in 0..MaxUpdateGap
      /\ minTime \in DisconnectedMinTimes /\ minTime \in Nat
  BY DEF IInv, TypeOK
<1>2. /\ sinceUpdate < MaxUpdateGap /\ sinceTick < MaxTickGap
      /\ now' = (IF now + 1 = Wrap THEN 0 ELSE now + 1)
      /\ sinceVCSEC' = Older(sinceVCSEC) /\ sinceInfotainment' = Older(sinceInfotainment)
      /\ sinceWake' = Older(sinceWake) /\ sinceClose' = Older(sinceClose)
      /\ sinceTick' = sinceTick + 1 /\ sinceUpdate' = sinceUpdate + 1
      /\ UNCHANGED <<config, scheduler, oneOff, connection, requested>>
  BY DEF Advance
<1>3. \A age \in Ages : Older(age) \in Ages /\ age <= Older(age) /\ Older(age) <= age + 1
  BY DEF Older, Ages
<1>4. now' \in Instants
  BY <1>1, <1>2 DEF Instants
<1>5. TypeOK'
  BY <1>1, <1>2, <1>3, <1>4 DEF IInv, TypeOK, config, scheduler, connection
<1>6. ClocksAgree'
  <2>1. Agrees(sinceVCSEC, lastVCSEC)'
    BY <1>1, <1>2, AgreeLater DEF IInv, ClocksAgree, Agrees, Elapsed, scheduler
  <2>2. Agrees(sinceInfotainment, lastInfotainment)'
    BY <1>1, <1>2, AgreeLater DEF IInv, ClocksAgree, Agrees, Elapsed, scheduler
  <2>3. Agrees(sinceWake, carWakeTime)'
    BY <1>1, <1>2, AgreeLater DEF IInv, ClocksAgree, Agrees, Elapsed, scheduler
  <2>4. Agrees(sinceClose, disconnectedAt)'
    BY <1>1, <1>2, AgreeLater DEF IInv, ClocksAgree, Agrees, Elapsed, connection
  <2> QED
    BY <2>1, <2>2, <2>3, <2>4 DEF ClocksAgree
<1>7. OneOffIsComplete'
  BY <1>2 DEF IInv, OneOffIsComplete, scheduler
<1>8. FreshData'
  BY <1>1, <1>2, <1>3 DEF IInv, FreshData, scheduler, Ages
<1>9. WokenData'
  <2>1. /\ DataLimit' = DataLimit /\ justWoken' = justWoken
    BY <1>2 DEF DataLimit, scheduler
  <2>2. ASSUME justWoken # "no"
        PROVE  /\ sinceInfotainment' <= DataLimit + sinceTick'
               /\ sinceWake' <= PostWakeTime + sinceInfotainment'
    <3>1. /\ sinceInfotainment <= DataLimit + sinceTick
          /\ sinceWake <= PostWakeTime + sinceInfotainment
      BY <2>2 DEF IInv, WokenData
    <3>2. sinceInfotainment < Horizon /\ sinceInfotainment' = sinceInfotainment + 1
      BY <1>1, <1>2, <3>1, Limits DEF Older, Ages
    <3>3. sinceWake' <= sinceWake + 1 /\ sinceWake' \in Int
      BY <1>1, <1>2, <1>3 DEF Ages
    <3> QED
      BY <1>1, <1>2, <3>1, <3>2, <3>3, Limits DEF Ages
  <2> QED
    BY <2>1, <2>2 DEF WokenData
<1>10. UnknownInTime'
  BY <1>1, <1>2, <1>3 DEF IInv, UnknownInTime, config, connection, Ages
<1> QED
  BY <1>5, <1>6, <1>7, <1>8, <1>9, <1>10 DEF IInv

LEMMA StutterStep == IInv /\ UNCHANGED vars => IInv'
<1> SUFFICES ASSUME IInv, UNCHANGED vars PROVE IInv'
  OBVIOUS
<1>1. TypeOK'
  BY DEF IInv, TypeOK, vars
<1>2. ClocksAgree' /\ FreshData' /\ WokenData'
  BY ClocksKept, PollsKept DEF IInv, vars
<1>3. OneOffIsComplete' /\ UnknownInTime'
  BY DEF IInv, OneOffIsComplete, UnknownInTime, vars
<1> QED
  BY <1>1, <1>2, <1>3 DEF IInv

LEMMA StepIInv == IInv /\ [Next]_vars => IInv'
BY UpdateUnlinkedStep, UpdateLinkedStep, OpenedStep, LinkStep, ClosedStep, ForceUpdateStep,
   SessionInvalidStep, ChargingChangesStep, AdvanceStep, StutterStep DEF Next

LEMMA AlwaysIInv == Spec => []IInv
BY InitIInv, StepIInv, PTL DEF Spec

----------------------------------------------------------------------------
(* The scheduler's and the component's times, counters and states stay in their  *)
(* ranges.                                                                      *)
THEOREM TypesKept == Spec => []TypeOK
<1>1. IInv => TypeOK
  BY DEF IInv
<1> QED
  BY <1>1, AlwaysIInv, PTL

(* A pending forced update is served by a poll of everything.                   *)
THEOREM ForcedUpdatesComplete == Spec => []OneOffIsComplete
<1>1. IInv => OneOffIsComplete
  BY DEF IInv
<1> QED
  BY <1>1, AlwaysIInv, PTL

(* The data of a charging car is fresh for every period and wherever the clock     *)
(* wraps.                                                                       *)
THEOREM ChargingDataFresh == Spec => []FreshData
<1>1. IInv => FreshData
  BY DEF IInv
<1> QED
  BY <1>1, AlwaysIInv, PTL

(* A woken car is polled fast for the post-wake time and at most one more period.  *)
THEOREM FastPollingBounded == Spec => []FastPollingEnds
<1>1. IInv => FastPollingEnds
  <2> SUFFICES ASSUME IInv, justWoken # "no"
               PROVE  sinceWake <= PostWakeTime + DataLimit + sinceTick
    BY DEF FastPollingEnds, DataLimit
  <2>1. /\ sinceInfotainment <= DataLimit + sinceTick
        /\ sinceWake <= PostWakeTime + sinceInfotainment
    BY DEF IInv, WokenData
  <2> QED
    BY <2>1, Limits DEF IInv, TypeOK, Ages
<1> QED
  BY <1>1, AlwaysIInv, PTL

(* The sensors become unknown neither early nor late.                            *)
THEOREM UnknownSetInTime == Spec => []UnknownInTime
<1>1. IInv => UnknownInTime
  BY DEF IInv
<1> QED
  BY <1>1, AlwaysIInv, PTL

(* A sleeping car is asked for its status once in a period.                      *)
THEOREM SleepIsUndisturbed == Spec => SleepUndisturbed
<1>1. ASSUME IInv, UpdateLinked, previousAsleep', "status" \in requested'
      PROVE  \/ sinceVCSEC = Horizon
             \/ asleepPeriod # 0 /\ sinceVCSEC > asleepPeriod
             \/ now = sinceVCSEC
  <2>1. PICK asleep \in BOOLEAN, unlocked \in BOOLEAN, present \in BOOLEAN :
          tick(asleep, unlocked, present)
    BY <1>1 DEF UpdateLinked
  <2>2. asleep /\ VCSECDue(asleep)
    BY <1>1, <2>1 DEF tick
  <2>3. CASE sinceVCSEC < Horizon
    <3>1. Elapsed(lastVCSEC) = sinceVCSEC
      BY <1>1, <2>3 DEF IInv, ClocksAgree, Agrees
    <3>2. CASE lastVCSEC = 0
      BY <1>1, <3>1, <3>2 DEF IInv, TypeOK, Elapsed, Instants
    <3> QED
      BY <2>2, <3>1, <3>2 DEF VCSECDue
  <2> QED
    BY <1>1, <2>3 DEF IInv, TypeOK, Ages
<1>2. IInv /\ [Next]_vars =>
        [UpdateLinked /\ previousAsleep' /\ "status" \in requested' =>
           \/ sinceVCSEC = Horizon
           \/ asleepPeriod # 0 /\ sinceVCSEC > asleepPeriod
           \/ now = sinceVCSEC]_vars
  BY <1>1
<1> QED
  BY <1>2, AlwaysIInv, PTL DEF Spec, SleepUndisturbed
============================================================================
