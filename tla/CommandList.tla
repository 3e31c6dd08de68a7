---------------------------- MODULE CommandList ----------------------------
(***************************************************************************)
(* What the command queue promises its callers: a bounded list of commands *)
(* executed from the front, to which a command is added either at the back *)
(* or, with priority, as near to the front as a command already in         *)
(* progress allows.  CommandQueue (src/queue.zig) is the ring buffer that  *)
(* implements it; VehicleCommands runs its command pipeline on it.         *)
(***************************************************************************)
EXTENDS Integers, Sequences

CONSTANTS
  Capacity,  \* commands the queue holds (32 in the code)
  MaxId,     \* largest command id before ids start again at 1 (0xffffffff)
  States,    \* the states a command can be in (CommandState)
  Idle       \* the state of a command nobody has started

VARIABLES list, next_id

listVars == <<list, next_id>>

(* domain, action, timestamps and counters ride along with the id; only    *)
(* the state decides where a priority command goes.                        *)
Command == [id : 1..MaxId, state : States]

NewCommand(id) == [id |-> id, state |-> Idle]

NextId(id) == IF id = MaxId THEN 1 ELSE id + 1

(* q with c as its k-th element *)
Inserted(q, k, c) ==
  [i \in 1..(Len(q) + 1) |->
     IF i < k THEN q[i] ELSE IF i = k THEN c ELSE q[i - 1]]

(* A priority command overtakes everything but a command in progress. *)
PriorityPlace(q) ==
  IF q = <<>> \/ q[1].state = Idle THEN 1 ELSE 2

----------------------------------------------------------------------------

Init ==
  /\ list = <<>>
  /\ next_id = 1

AddBack ==
  /\ Len(list) < Capacity
  /\ list' = Inserted(list, Len(list) + 1, NewCommand(next_id))
  /\ next_id' = NextId(next_id)

AddPriority ==
  /\ Len(list) < Capacity
  /\ list' = Inserted(list, PriorityPlace(list), NewCommand(next_id))
  /\ next_id' = NextId(next_id)

RemoveFront ==
  /\ list # <<>>
  /\ list' = [i \in 1..(Len(list) - 1) |-> list[i + 1]]
  /\ UNCHANGED next_id

SetFrontState(s) ==
  /\ list # <<>>
  /\ list' = [list EXCEPT ![1].state = s]
  /\ UNCHANGED next_id

Next ==
  \/ AddBack
  \/ AddPriority
  \/ RemoveFront
  \/ \E s \in States : SetFrontState(s)

Spec == Init /\ [][Next]_listVars
============================================================================
