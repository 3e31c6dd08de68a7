--------------------------- MODULE CommandService ---------------------------
(***************************************************************************)
(* What the command pipeline promises those who issue commands.  Commands  *)
(* are served one at a time and are not interrupted: a priority command    *)
(* goes ahead of those that wait, never of the one being served, and the   *)
(* clock of the one being served is never set back.  The others keep their *)
(* order.  VehicleCommands (tesla_ble_vehicle.cpp) implements it.          *)
(***************************************************************************)
EXTENDS Integers, Sequences

CONSTANTS
  Ids,       \* the commands
  Nobody,    \* not a command
  Capacity,  \* commands there may be at a time
  Deadline   \* what the clock is compared with

VARIABLES
  serving,  \* the command being served, or Nobody
  waiting,  \* the others, the next one first
  age       \* what the clock of the command being served says

serviceVars == <<serving, waiting, age>>

Present(id) == id = serving \/ \E i \in 1..Len(waiting) : waiting[i] = id

HasRoom == Len(waiting) + (IF serving = Nobody THEN 0 ELSE 1) < Capacity

----------------------------------------------------------------------------

Init == serving = Nobody /\ waiting = <<>> /\ age = 0

Join(id) ==
  /\ HasRoom /\ ~Present(id)
  /\ waiting' = Append(waiting, id) \/ waiting' = <<id>> \o waiting
  /\ UNCHANGED <<serving, age>>

(* The clock starts where it stands: one that was set when the command came    *)
(* need not be set again.                                                    *)
Start ==
  /\ serving = Nobody /\ waiting # <<>>
  /\ serving' = Head(waiting) /\ waiting' = Tail(waiting)
  /\ age' \in 0..(Deadline + 1)

(* The next command goes without being served. *)
Withdraw ==
  /\ serving = Nobody /\ waiting # <<>>
  /\ waiting' = Tail(waiting)
  /\ UNCHANGED <<serving, age>>

Ends == serving # Nobody /\ serving' = Nobody /\ age' = 0

(* A command may leave another behind, which waits for its turn. *)
Leave ==
  /\ Ends
  /\ \/ UNCHANGED waiting
     \/ \E id \in Ids :
          HasRoom /\ ~Present(id) /\ waiting' = Append(waiting, id)

GrowOlder ==
  /\ serving # Nobody
  /\ age <= Deadline /\ age' = age + 1
  /\ UNCHANGED <<serving, waiting>>

Next ==
  \/ \E id \in Ids : Join(id)
  \/ Start \/ Withdraw \/ Leave \/ GrowOlder

Spec == Init /\ [][Next]_serviceVars
============================================================================
