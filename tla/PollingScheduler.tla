-------------------------- MODULE PollingScheduler --------------------------
(***************************************************************************)
(* When the ESPHome component asks the vehicle for data: Scheduler.tick    *)
(* (scheduler.zig), update() which calls it while the link is established  *)
(* and declares the sensors unknown when it is not, and the events that    *)
(* move what both read (tesla_ble_vehicle.cpp).                            *)
(*                                                                         *)
(* millis() and the times kept from it are counted modulo Wrap, for 2^32.  *)
(* The released build (ReleaseSmall) subtracts them without a check.       *)
(* Variables named since... say how long ago something truly happened.     *)
(***************************************************************************)
EXTENDS Integers

CONSTANTS
  PostWakeTime, DataPeriod, ChargingPeriod,
  AsleepPeriods,       \* the values tried for poll_asleep_period
  DisconnectedMinTimes, \* the values tried for ble_disconnected_min_time
  FastPollIfUnlocked, WakeOnBoot,
  Wrap,
  Horizon,             \* bound: how far back true times are told apart
  MaxUpdateGap,        \* bound: time between two calls of update()
  MaxTickGap,          \* bound: time between two calls of tick
  MaxUpdates           \* bound: how far polls are counted

Longer(a, b) == IF a > b THEN a ELSE b

ASSUME PeriodsAssumption ==
  /\ PostWakeTime \in Nat /\ DataPeriod \in Nat /\ ChargingPeriod \in Nat
  /\ AsleepPeriods \subseteq Nat /\ DisconnectedMinTimes \subseteq Nat
  /\ FastPollIfUnlocked \in BOOLEAN /\ WakeOnBoot \in BOOLEAN

(* Nothing the scheduler has to tell apart is as long as millis() takes to      *)
(* wrap, which is 49 days.                                                    *)
ASSUME ClockAssumption ==
  /\ Wrap \in Nat /\ Horizon \in Nat /\ Horizon < Wrap
  /\ MaxUpdateGap \in Nat \ {0} /\ MaxTickGap \in Nat \ {0}
  /\ PostWakeTime + Longer(DataPeriod, ChargingPeriod) + MaxTickGap < Horizon
  /\ \A p \in AsleepPeriods : p < Horizon
  /\ \A t \in DisconnectedMinTimes : t + MaxUpdateGap < Horizon

ASSUME CountAssumption == MaxUpdates \in Nat \ {0}

VARIABLES
  asleepPeriod, minTime,  \* poll_asleep_period, ble_disconnected_min_time
  now,                    \* millis()
  lastVCSEC, lastInfotainment, carWakeTime,
  justWoken, previousAsleep, charging, justStarted, updates,
  oneOff,                 \* one_off_update_
  link,                   \* node_state: "down", "open", "established" or "lost"
  ble,                    \* ble_disconnected_
  disconnectedAt,         \* ble_disconnected_time_
  requested,              \* what the latest tick decided to ask for
  sinceVCSEC, sinceInfotainment, sinceWake,
  sinceTick, sinceUpdate, sinceClose

config == <<asleepPeriod, minTime>>
scheduler == <<lastVCSEC, lastInfotainment, carWakeTime, justWoken, previousAsleep,
               charging, justStarted, updates>>
connection == <<link, ble, disconnectedAt>>
history == <<sinceVCSEC, sinceInfotainment, sinceWake, sinceTick, sinceUpdate, sinceClose>>
vars == <<asleepPeriod, minTime, now, lastVCSEC, lastInfotainment, carWakeTime,
          justWoken, previousAsleep, charging, justStarted, updates, oneOff,
          link, ble, disconnectedAt, requested,
          sinceVCSEC, sinceInfotainment, sinceWake, sinceTick, sinceUpdate, sinceClose>>

Requests == {"status", "data", "wake"}
Instants == 0..(Wrap - 1)
Ages == 0..Horizon

SignedDifference(t) == now - t
(* now - t in u32. *)
Elapsed(t) == IF t <= now THEN now - t ELSE now - t + Wrap

----------------------------------------------------------------------------
(* Scheduler.tick, the sensors being asleep, unlocked and present.            *)

VCSECDueAtPeriod(asleep) ==
  \/ ~asleep \/ lastVCSEC = 0
  \/ asleepPeriod # 0 /\ Elapsed(lastVCSEC) >= asleepPeriod
VCSECDue(asleep) ==
  \/ ~asleep \/ lastVCSEC = 0
  \/ asleepPeriod # 0 /\ Elapsed(lastVCSEC) > asleepPeriod

BootedFurtherForEver(n) == n + 1
BootedFurther(n) == IF n < 3 THEN n + 1 ELSE n

Eager(unlocked, present) == oneOff \/ (unlocked /\ FastPollIfUnlocked) \/ present

Wakes(asleep) == previousAsleep /\ ~asleep
WokenBefore(asleep) == IF Wakes(asleep) THEN "yes_initial" ELSE justWoken
WakeTime(asleep) == IF Wakes(asleep) THEN now ELSE carWakeTime
ChargingBefore(asleep) == IF asleep /\ ~previousAsleep THEN "no" ELSE charging

InfotainmentDue(eager, woken, charge) ==
  \/ eager
  \/ charge = "just_started"
  \/ charge = "ongoing" /\ Elapsed(lastInfotainment) > ChargingPeriod
  \/ /\ charge = "no"
     /\ \/ woken = "yes_initial"
        \/ woken = "yes_polling" /\ Elapsed(lastInfotainment) > DataPeriod
        \/ /\ woken = "no" /\ asleepPeriod # 0
           /\ Elapsed(lastInfotainment) > asleepPeriod

ChargingAfter(eager, charge) ==
  IF charge = "just_started" /\ ~eager THEN "ongoing" ELSE charge

(* Polling a woken car takes it from yes_initial to yes_polling, in the branch  *)
(* of just-woken cars only, and ends the just-woken time, in any branch.        *)
WokenPolled(eager, charge, woken) ==
  IF woken = "yes_initial" /\ charge = "no" /\ ~eager THEN "yes_polling" ELSE woken
WokenEndsInItsBranch(due, eager, charge, woken, at) ==
  IF due /\ charge = "no" /\ Elapsed(at) > PostWakeTime THEN "no"
  ELSE WokenPolled(eager, charge, woken)
WokenAfter(due, eager, charge, woken, at) ==
  IF due /\ Elapsed(at) > PostWakeTime THEN "no" ELSE WokenPolled(eager, charge, woken)

OneOffAfterAnyPoll(due) == oneOff
OneOffAfter(due) == oneOff /\ ~due

CountedPoll == IF updates < MaxUpdates THEN updates + 1 ELSE updates

tick(asleep, unlocked, present) ==
  LET eager == Eager(unlocked, present)
      woken == WokenBefore(asleep)
      charge == ChargingBefore(asleep)
      due == InfotainmentDue(eager, woken, charge)
  IN
    /\ IF VCSECDue(asleep)
       THEN lastVCSEC' = now /\ sinceVCSEC' = 0
       ELSE UNCHANGED <<lastVCSEC, sinceVCSEC>>
    /\ justStarted' = BootedFurther(justStarted)
    /\ requested' = {r \in Requests :
                      \/ r = "status" /\ VCSECDue(asleep)
                      \/ r = "data" /\ due
                      \/ r = "wake" /\ justStarted = 2 /\ WakeOnBoot}
    /\ carWakeTime' = WakeTime(asleep)
    /\ sinceWake' = IF Wakes(asleep) THEN 0 ELSE sinceWake
    /\ previousAsleep' = asleep
    /\ charging' = ChargingAfter(eager, charge)
    /\ justWoken' = WokenAfter(due, eager, charge, woken, WakeTime(asleep))
    /\ IF due
       THEN lastInfotainment' = now /\ sinceInfotainment' = 0 /\ updates' = CountedPoll
       ELSE UNCHANGED <<lastInfotainment, sinceInfotainment, updates>>
    /\ oneOff' = OneOffAfter(due)
    /\ sinceTick' = 0

----------------------------------------------------------------------------
(* update()                                                                  *)

Expired == minTime # 0 /\ ble = "disconnected" /\ Elapsed(disconnectedAt) > minTime

ExpireSensors ==
  /\ ble' = IF Expired THEN "unknowns_set" ELSE ble
  /\ UNCHANGED <<link, disconnectedAt>>

UpdateUnlinked ==
  /\ link # "established"
  /\ ExpireSensors /\ sinceUpdate' = 0
  /\ UNCHANGED <<config, now, scheduler, oneOff, requested, sinceVCSEC,
                 sinceInfotainment, sinceWake, sinceTick, sinceClose>>

UpdateLinked ==
  /\ link = "established"
  /\ ExpireSensors /\ sinceUpdate' = 0
  /\ \E asleep, unlocked, present \in BOOLEAN : tick(asleep, unlocked, present)
  /\ UNCHANGED <<config, now, sinceClose>>

----------------------------------------------------------------------------
(* What happens between the calls of update().                               *)

(* ESP_GATTC_OPEN_EVT *)
Opened ==
  /\ link = "down" /\ link' = "open"
  /\ ble' = "connected" /\ updates' = 0
  /\ lastVCSEC' = 0 /\ sinceVCSEC' = Horizon
  /\ UNCHANGED <<config, now, lastInfotainment, carWakeTime, justWoken, previousAsleep,
                 charging, justStarted, oneOff, disconnectedAt, requested,
                 sinceInfotainment, sinceWake, sinceTick, sinceUpdate, sinceClose>>

(* ESP_GATTC_REG_FOR_NOTIFY_EVT *)
Established ==
  /\ link = "open" /\ link' = "established"
  /\ UNCHANGED <<config, now, scheduler, oneOff, ble, disconnectedAt, requested, history>>

(* ESP_GATTC_DISCONNECT_EVT *)
Disconnected ==
  /\ link \in {"open", "established"} /\ link' = "lost"
  /\ UNCHANGED <<config, now, scheduler, oneOff, ble, disconnectedAt, requested, history>>

ClosedAtFirst == disconnectedAt
ClosedAt == now

(* ESP_GATTC_CLOSE_EVT *)
Closed ==
  /\ link # "down" /\ link' = "down"
  /\ lastVCSEC' = 0 /\ sinceVCSEC' = Horizon
  /\ ble' = IF minTime = 0 THEN "unknowns_set" ELSE "disconnected"
  /\ disconnectedAt' = ClosedAt /\ sinceClose' = 0
  /\ UNCHANGED <<config, now, lastInfotainment, carWakeTime, justWoken, previousAsleep,
                 charging, justStarted, updates, oneOff, requested,
                 sinceInfotainment, sinceWake, sinceTick, sinceUpdate>>

(* enqueueVCSECInformationRequest(true) *)
ForceUpdate ==
  /\ oneOff' = TRUE /\ updates' = 0
  /\ UNCHANGED <<config, now, lastVCSEC, lastInfotainment, carWakeTime, justWoken,
                 previousAsleep, charging, justStarted, connection, requested, history>>

(* invalidateSession, for the INFOTAINMENT command in front. *)
SessionInvalid ==
  /\ link = "established" /\ updates' = 0
  /\ UNCHANGED <<config, now, lastVCSEC, lastInfotainment, carWakeTime, justWoken,
                 previousAsleep, charging, justStarted, oneOff, connection,
                 requested, history>>

(* The command that starts charging is built, or a charge state arrives. *)
ChargingChanges ==
  /\ link = "established"
  /\ \/ charging' = "just_started"
     \/ charging' = "no"
  /\ UNCHANGED <<config, now, lastVCSEC, lastInfotainment, carWakeTime, justWoken,
                 previousAsleep, justStarted, updates, oneOff, connection,
                 requested, history>>

Older(age) == IF age < Horizon THEN age + 1 ELSE age

(* Time passes: the main task calls update() in time, and the car comes back. *)
Advance ==
  /\ sinceUpdate < MaxUpdateGap /\ sinceTick < MaxTickGap
  /\ now' = (IF now + 1 = Wrap THEN 0 ELSE now + 1)
  /\ sinceVCSEC' = Older(sinceVCSEC)
  /\ sinceInfotainment' = Older(sinceInfotainment)
  /\ sinceWake' = Older(sinceWake)
  /\ sinceTick' = sinceTick + 1
  /\ sinceUpdate' = sinceUpdate + 1
  /\ sinceClose' = Older(sinceClose)
  /\ UNCHANGED <<config, scheduler, oneOff, connection, requested>>

Init ==
  /\ asleepPeriod \in AsleepPeriods /\ minTime \in DisconnectedMinTimes
  /\ now = 0 /\ lastVCSEC = 0 /\ lastInfotainment = 0 /\ carWakeTime = 0
  /\ justWoken = "no" /\ previousAsleep = FALSE /\ charging = "no"
  /\ justStarted = 0 /\ updates = 0 /\ oneOff = FALSE
  /\ link = "down" /\ ble = "disconnected" /\ disconnectedAt = 0
  /\ requested = {}
  /\ sinceVCSEC = Horizon /\ sinceInfotainment = 0 /\ sinceWake = 0
  /\ sinceTick = 0 /\ sinceUpdate = 0 /\ sinceClose = 0

Next ==
  \/ UpdateUnlinked \/ UpdateLinked
  \/ Opened \/ Established \/ Disconnected \/ Closed
  \/ ForceUpdate \/ SessionInvalid \/ ChargingChanges
  \/ Advance

Spec == Init /\ [][Next]_vars
----------------------------------------------------------------------------

TypeOK ==
  /\ asleepPeriod \in AsleepPeriods /\ minTime \in DisconnectedMinTimes
  /\ now \in Instants /\ lastVCSEC \in Instants /\ lastInfotainment \in Instants
  /\ carWakeTime \in Instants /\ disconnectedAt \in Instants
  /\ justWoken \in {"no", "yes_initial", "yes_polling"}
  /\ charging \in {"no", "just_started", "ongoing"}
  /\ justStarted \in 0..3 /\ updates \in 0..MaxUpdates
  /\ previousAsleep \in BOOLEAN /\ oneOff \in BOOLEAN /\ requested \subseteq Requests
  /\ link \in {"down", "open", "established", "lost"}
  /\ ble \in {"connected", "disconnected", "unknowns_set"}
  /\ sinceVCSEC \in Ages /\ sinceInfotainment \in Ages /\ sinceWake \in Ages
  /\ sinceClose \in Ages
  /\ sinceTick \in 0..MaxTickGap /\ sinceUpdate \in 0..MaxUpdateGap

(* A forced update that is still pending is served by a poll of everything: no   *)
(* other poll comes between the request and its own (cpp:1720-1727, 1125-1148). *)
OneOffIsComplete == oneOff => updates = 0

(* The data of a charging car is never older than the charging period and the     *)
(* time since the latest tick, millis() wrapping or not (scheduler.zig:98-109).   *)
FreshData == charging = "ongoing" => sinceInfotainment <= ChargingPeriod + sinceTick

(* The fast polling of a woken car ends, although only a poll ends it and the      *)
(* polls may be those of a charging or unlocked car (scheduler.zig:109-130).       *)
FastPollingEnds ==
  justWoken # "no" =>
    sinceWake <= PostWakeTime + Longer(DataPeriod, ChargingPeriod) + sinceTick

(* While the car sleeps its status is asked for once in a period, or once in a      *)
(* connection, except that a request made when millis() was 0 counts as none       *)
(* (scheduler.zig:61-76).                                                        *)
SleepUndisturbed ==
  [][UpdateLinked /\ previousAsleep' /\ "status" \in requested' =>
       \/ sinceVCSEC = Horizon
       \/ asleepPeriod # 0 /\ sinceVCSEC > asleepPeriod
       \/ now = sinceVCSEC]_vars

(* The sensors are unknown only after the vehicle was away for the configured      *)
(* time without a break, and no later than the next update() (cpp:1056-1063,      *)
(* 2447-2466).                                                                   *)
UnknownInTime ==
  minTime # 0 =>
    /\ ble = "unknowns_set" => sinceClose > minTime
    /\ ble = "disconnected" => sinceClose <= minTime + sinceUpdate
============================================================================
