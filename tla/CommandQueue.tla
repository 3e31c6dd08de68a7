---------------------------- MODULE CommandQueue ----------------------------
(***************************************************************************)
(* src/queue.zig: the zero-allocation command queue.  A fixed array of     *)
(* Capacity slots, the slot of the front command and the number of live    *)
(* commands; every position is taken modulo the array's length.            *)
(***************************************************************************)
EXTENDS Integers, Sequences

CONSTANTS
  Capacity, MaxId, States, Idle,
  Undefined  \* what a slot holds before it is first written (`undefined`)

ASSUME CapacityAssumption == Capacity \in Nat /\ Capacity >= 2
ASSUME MaxIdAssumption == MaxId \in Nat \ {0}
ASSUME StatesAssumption == Idle \in States

VARIABLES
  commands,  \* the slots
  head,      \* slot of the front command
  count,     \* live commands
  next_id,   \* id the next command gets
  wrapped    \* history: next_id has started again at 1

vars == <<commands, head, count, next_id, wrapped>>

Slots == 0..(Capacity - 1)

Command == [id : 1..MaxId, state : States]

NewCommand(id) == [id |-> id, state |-> Idle]

(* The slot of the command at position i, counted from 0 at the front. *)
Slot(i) == (head + i) % Capacity

(* The position a slot is at. *)
Position(s) == (s + Capacity - head) % Capacity

getFront == commands[head]

IncrementPastEnd(id) == id + 1
NextId(id) == IF id = MaxId THEN 1 ELSE id + 1

----------------------------------------------------------------------------

Init ==
  /\ commands = [s \in Slots |-> Undefined]
  /\ head = 0
  /\ count = 0
  /\ next_id = 1
  /\ wrapped = FALSE

IssueId ==
  /\ next_id' = NextId(next_id)
  /\ wrapped' = (wrapped \/ next_id = MaxId)

(* pushBack fails with QueueFull, and changes nothing, when count = Capacity. *)
PushBack ==
  /\ count < Capacity
  /\ IssueId
  /\ commands' = [commands EXCEPT ![Slot(count)] = NewCommand(next_id)]
  /\ count' = count + 1
  /\ UNCHANGED head

PopFront ==
  /\ count > 0
  /\ head' = Slot(1)
  /\ count' = count - 1
  /\ UNCHANGED <<commands, next_id, wrapped>>

(* The position a priority command takes: the front, or just behind a       *)
(* front command that is in progress.                                       *)
PlaceIgnoringProgress == 0
Place == IF count = 0 \/ getFront.state = Idle THEN 0 ELSE 1

(* The slide to the right runs from the back, so each slot behind Place     *)
(* gets what the slot in front of it held before.                           *)
SlideOneShort ==
  [s \in Slots |-> IF Position(s) \in (Place + 1)..(count - 1)
                   THEN commands[Slot(Position(s) - 1)] ELSE commands[s]]
SlideFromFront ==
  [s \in Slots |-> IF Position(s) \in (Place + 1)..count
                   THEN commands[Slot(Place)] ELSE commands[s]]
Slide ==
  [s \in Slots |-> IF Position(s) \in (Place + 1)..count
                   THEN commands[Slot(Position(s) - 1)] ELSE commands[s]]

PlaceAtFront ==
  /\ count < Capacity
  /\ IssueId
  /\ commands' = [Slide EXCEPT ![Slot(Place)] = NewCommand(next_id)]
  /\ count' = count + 1
  /\ UNCHANGED head

(* tesla_queue_set_front_state: the callers move the front through its states. *)
SetFrontState(s) ==
  /\ count > 0
  /\ commands' = [commands EXCEPT ![head].state = s]
  /\ UNCHANGED <<head, count, next_id, wrapped>>

Next ==
  \/ PushBack
  \/ PopFront
  \/ PlaceAtFront
  \/ \E s \in States : SetFrontState(s)

Spec == Init /\ [][Next]_vars
----------------------------------------------------------------------------

TypeOK ==
  /\ commands \in [Slots -> Command \cup {Undefined}]
  /\ head \in Slots
  /\ count \in 0..Capacity
  /\ next_id \in 1..MaxId
  /\ wrapped \in BOOLEAN
  /\ \A i \in 0..(count - 1) : commands[Slot(i)] \in Command

(* The live commands, front first. *)
Contents == [i \in 1..count |-> commands[Slot(i - 1)]]

List == INSTANCE CommandList WITH list <- Contents

(* The ring buffer behaves as the bounded priority list: nothing is lost,   *)
(* duplicated or reordered when a position wraps past the end of the array  *)
(* or a priority command slides the others back (queue.zig:85-176).         *)
ImplementsList == List!Spec

(* "Unique identifier" (queue.zig:64): no two live commands share an id     *)
(* until the 32-bit counter has started again; the component's callbacks    *)
(* are keyed by it.                                                         *)
UniqueIds ==
  ~wrapped => \A i, j \in 0..(count - 1) :
    commands[Slot(i)].id = commands[Slot(j)].id => i = j

(* A priority command never displaces one that is in progress: a started    *)
(* front command stays in front until it is popped (queue.zig:112-176).     *)
InProgressKeepsFront ==
  [][count > 0 /\ getFront.state # Idle /\ count' >= count
       => getFront'.id = getFront.id]_vars
============================================================================
