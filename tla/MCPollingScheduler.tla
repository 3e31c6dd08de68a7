------------------------- MODULE MCPollingScheduler -------------------------
(***************************************************************************)
(* PollingScheduler for TLC.  A time that is overwritten before it is read *)
(* again does not tell two states apart: when the car last woke, once its  *)
(* just-woken time is over; when the link closed, once the sensors are     *)
(* unknown or the link is back; when data was last asked for, while no     *)
(* period counts from it; and what the latest tick decided.                *)
(***************************************************************************)
EXTENDS PollingScheduler

WakeView == IF justWoken = "no" THEN <<>> ELSE <<carWakeTime, sinceWake>>
CloseView ==
  CASE ble = "disconnected" -> <<disconnectedAt, sinceClose>>
    [] ble = "unknowns_set" -> <<sinceClose > minTime>>
    [] OTHER -> <<>>
DataView ==
  IF asleepPeriod = 0 /\ charging = "no" /\ justWoken = "no" THEN <<>>
  ELSE <<lastInfotainment, sinceInfotainment>>

LiveState ==
  <<config, now, lastVCSEC, sinceVCSEC, justWoken, previousAsleep, charging, justStarted,
    updates, oneOff, link, ble, sinceTick, sinceUpdate, WakeView, CloseView, DataView>>
============================================================================
