------------------------- MODULE CommandQueueProofs -------------------------
(***************************************************************************)
(* The ring buffer of CommandQueue, for every capacity: its types, the     *)
(* uniqueness of ids, and that it implements CommandList.                  *)
(***************************************************************************)
EXTENDS CommandQueue, TLAPS

----------------------------------------------------------------------------
(* Positions and slots are two views of the array, one the inverse of the   *)
(* other.                                                                  *)

(* A sum of two numbers below the modulus wraps at most once. *)
LEMMA WrapOnce ==
  ASSUME NEW n \in Nat, n > 0, NEW a \in Nat, a < 2 * n
  PROVE  a % n = IF a < n THEN a ELSE a - n
BY SMT

(* Taking a position modulo the length wraps it at most once. *)
LEMMA SlotValue ==
  ASSUME TypeOK, NEW i \in 0..Capacity
  PROVE  /\ Slot(i) = IF head + i < Capacity THEN head + i
                                             ELSE head + i - Capacity
         /\ Slot(i) \in Slots
<1>1. /\ head \in Nat /\ head < Capacity
      /\ i \in Nat /\ i <= Capacity /\ Capacity \in Nat
  BY CapacityAssumption DEF TypeOK, Slots
<1>2. (head + i) % Capacity = IF head + i < Capacity THEN head + i
                                                    ELSE head + i - Capacity
  BY <1>1, SMT
<1> QED
  BY <1>1, <1>2 DEF Slot, Slots

(* The position of a slot, without the modulus. *)
LEMMA PositionValue ==
  ASSUME TypeOK, NEW s \in Slots
  PROVE  /\ Position(s) = IF s >= head THEN s - head ELSE s + Capacity - head
         /\ Position(s) \in 0..(Capacity - 1)
<1>1. /\ head \in Nat /\ head < Capacity
      /\ s \in Nat /\ s < Capacity /\ Capacity \in Nat
  BY CapacityAssumption DEF TypeOK, Slots
<1>2. (s + Capacity - head) % Capacity =
        IF s >= head THEN s - head ELSE s + Capacity - head
  BY <1>1, SMT
<1> QED
  BY <1>1, <1>2 DEF Position

(* Position inverts Slot on the positions of the array. *)
LEMMA PositionOfSlot ==
  ASSUME TypeOK, NEW i \in 0..(Capacity - 1)
  PROVE  Position(Slot(i)) = i
<1>1. /\ head \in Nat /\ head < Capacity
      /\ i \in Nat /\ i < Capacity /\ Capacity \in Nat
  BY CapacityAssumption DEF TypeOK, Slots
<1>2. /\ Slot(i) = IF head + i < Capacity THEN head + i
                                          ELSE head + i - Capacity
      /\ Slot(i) \in Slots
  BY <1>1, SlotValue
<1>3. Position(Slot(i)) = IF Slot(i) >= head THEN Slot(i) - head
                                             ELSE Slot(i) + Capacity - head
  BY <1>2, PositionValue
<1> QED
  BY <1>1, <1>2, <1>3

(* Different positions are different slots. *)
LEMMA SlotInjective ==
  ASSUME TypeOK, NEW i \in 0..(Capacity - 1), NEW j \in 0..(Capacity - 1),
         Slot(i) = Slot(j)
  PROVE  i = j
BY PositionOfSlot

----------------------------------------------------------------------------
(* What each operation leaves at each live position. *)

(* pushBack: the new command at the back, the rest untouched. *)
LEMMA PushBackContents ==
  ASSUME TypeOK, PushBack, NEW i \in 0..count
  PROVE  commands'[Slot(i)'] = IF i = count THEN NewCommand(next_id)
                                            ELSE commands[Slot(i)]
<1>1. count \in 0..(Capacity - 1) /\ i \in 0..(Capacity - 1)
  BY CapacityAssumption DEF TypeOK, PushBack
<1>2. Slot(i)' = Slot(i)
  BY DEF PushBack, Slot
<1>3. Slot(i) \in Slots /\ Slot(count) \in Slots
  BY <1>1, SlotValue, CapacityAssumption
<1>4. i # count => Slot(i) # Slot(count)
  BY <1>1, SlotInjective
<1> QED
  BY <1>2, <1>3, <1>4 DEF PushBack, TypeOK

(* popFront: every position moves one towards the front. *)
LEMMA PopFrontContents ==
  ASSUME TypeOK, PopFront, NEW i \in 0..(count - 2)
  PROVE  commands'[Slot(i)'] = commands[Slot(i + 1)]
<1>1. /\ count \in 1..Capacity /\ i + 1 \in 0..Capacity /\ 1 \in 0..Capacity
      /\ i \in Nat /\ i < Capacity /\ Capacity \in Nat
      /\ head \in Nat /\ head < Capacity
  BY CapacityAssumption DEF TypeOK, PopFront, Slots
<1>2. head' = IF head + 1 < Capacity THEN head + 1 ELSE head + 1 - Capacity
  BY <1>1, SlotValue DEF PopFront
<1> DEFINE h == head'
<1>3. h \in Nat /\ h < Capacity
  BY <1>1, <1>2
<1> HIDE DEF h
<1>4. (h + i) % Capacity = IF h + i < Capacity THEN h + i ELSE h + i - Capacity
  BY <1>1, <1>3, WrapOnce
<1>5. Slot(i + 1) = IF head + (i + 1) < Capacity THEN head + (i + 1)
                                               ELSE head + (i + 1) - Capacity
  BY <1>1, SlotValue
<1>6. Slot(i)' = Slot(i + 1)
  BY <1>1, <1>2, <1>4, <1>5 DEF Slot, h
<1> QED
  BY <1>6 DEF PopFront

(* placeAtFront: positions before Place keep their command, Place holds the *)
(* new one, and the ones behind it hold what was one position in front.     *)
LEMMA PlaceAtFrontContents ==
  ASSUME TypeOK, PlaceAtFront, NEW i \in 0..count
  PROVE  commands'[Slot(i)'] = IF i < Place THEN commands[Slot(i)]
                               ELSE IF i = Place THEN NewCommand(next_id)
                               ELSE commands[Slot(i - 1)]
<1>1. /\ count \in 0..(Capacity - 1) /\ i \in 0..(Capacity - 1)
      /\ Place \in 0..(Capacity - 1) /\ Place <= count /\ Place \in Nat
      /\ Capacity \in Nat
  BY CapacityAssumption DEF TypeOK, PlaceAtFront, Place
<1>2. Slot(i)' = Slot(i)
  BY DEF PlaceAtFront, Slot
<1>3. Slot(i) \in Slots /\ Slot(Place) \in Slots
  BY <1>1, SlotValue, CapacityAssumption
<1>4. i # Place => Slot(i) # Slot(Place)
  BY <1>1, SlotInjective
<1>5. Slide[Slot(i)] = IF i \in (Place + 1)..count THEN commands[Slot(i - 1)]
                                                 ELSE commands[Slot(i)]
  BY <1>1, <1>3, PositionOfSlot DEF Slide
<1>6. commands'[Slot(i)] = IF i = Place THEN NewCommand(next_id)
                                        ELSE Slide[Slot(i)]
  BY <1>3, <1>4 DEF PlaceAtFront, Slide
<1> QED
  BY <1>1, <1>2, <1>5, <1>6

(* tesla_queue_set_front_state: only the front changes. *)
LEMMA SetFrontStateContents ==
  ASSUME TypeOK, NEW st \in States, SetFrontState(st), NEW i \in 0..(count - 1)
  PROVE  commands'[Slot(i)'] =
           IF i = 0 THEN [commands[Slot(0)] EXCEPT !.state = st]
                    ELSE commands[Slot(i)]
<1>1. /\ i \in 0..(Capacity - 1) /\ 0 \in 0..(Capacity - 1) /\ 0 \in 0..Capacity
      /\ i \in 0..Capacity /\ head \in Nat /\ head < Capacity
  BY CapacityAssumption DEF TypeOK, SetFrontState, Slots
<1>2. Slot(0) = head
  BY <1>1, SlotValue
<1>3. Slot(i)' = Slot(i)
  BY DEF SetFrontState, Slot
<1>4. Slot(i) \in Slots /\ (i # 0 => Slot(i) # head)
  BY <1>1, <1>2, SlotValue, SlotInjective
<1> QED
  BY <1>2, <1>3, <1>4 DEF SetFrontState, TypeOK

----------------------------------------------------------------------------

(* Every reachable state of the queue is well typed: in particular the live *)
(* positions hold commands, never memory that was not written.             *)
THEOREM TypeCorrect == Spec => []TypeOK
<1>1. Init => TypeOK
  <2> SUFFICES ASSUME Init PROVE TypeOK
    OBVIOUS
  <2>1. 0..(count - 1) = {} /\ 0 \in Slots /\ 0 \in 0..Capacity
    BY CapacityAssumption DEF Init, Slots
  <2>2. 1 \in 1..MaxId
    BY MaxIdAssumption
  <2> QED
    BY <2>1, <2>2 DEF Init, TypeOK
<1>2. TypeOK /\ [Next]_vars => TypeOK'
  <2> SUFFICES ASSUME TypeOK, [Next]_vars
               PROVE  TypeOK'
    OBVIOUS
  <2>0. NewCommand(next_id) \in Command
    BY StatesAssumption DEF TypeOK, NewCommand, Command
  <2>1. IssueId => next_id' \in 1..MaxId /\ wrapped' \in BOOLEAN
    BY MaxIdAssumption DEF IssueId, NextId, TypeOK
  <2>2. CASE PushBack
    <3>1. \A i \in 0..(count' - 1) : commands'[Slot(i)'] \in Command
      <4> TAKE i \in 0..(count' - 1)
      <4>1. i \in 0..count /\ (i # count => i \in 0..(count - 1))
        BY <2>2 DEF PushBack, TypeOK
      <4> QED
        BY <4>1, <2>0, <2>2, PushBackContents DEF TypeOK
    <3>2. commands' \in [Slots -> Command \cup {Undefined}]
      BY <2>0, <2>2 DEF PushBack, TypeOK
    <3> QED
      BY <2>1, <2>2, <3>1, <3>2, CapacityAssumption DEF PushBack, TypeOK
  <2>3. CASE PopFront
    <3>1. \A i \in 0..(count' - 1) : commands'[Slot(i)'] \in Command
      <4> TAKE i \in 0..(count' - 1)
      <4>1. i \in 0..(count - 2) /\ i + 1 \in 0..(count - 1)
        BY <2>3 DEF PopFront, TypeOK
      <4> QED
        BY <4>1, <2>3, PopFrontContents DEF TypeOK
    <3>2. head' \in Slots
      BY <2>3, SlotValue, CapacityAssumption DEF PopFront
    <3> QED
      BY <2>3, <3>1, <3>2, CapacityAssumption DEF PopFront, TypeOK
  <2>4. CASE PlaceAtFront
    <3>1. \A i \in 0..(count' - 1) : commands'[Slot(i)'] \in Command
      <4> TAKE i \in 0..(count' - 1)
      <4>1. /\ i \in 0..count
            /\ i < Place => i \in 0..(count - 1)
            /\ i >= Place /\ i # Place => i - 1 \in 0..(count - 1)
        BY <2>4 DEF PlaceAtFront, Place, TypeOK
      <4>2. Place \in Nat
        BY DEF Place
      <4> QED
        BY <4>1, <4>2, <2>0, <2>4, PlaceAtFrontContents DEF TypeOK
    <3>2. Slide \in [Slots -> Command \cup {Undefined}]
      <4> SUFFICES ASSUME NEW s \in Slots
                   PROVE  Slide[s] \in Command \cup {Undefined}
        BY DEF Slide
      <4>1. CASE Position(s) \in (Place + 1)..count
        <5>1. Position(s) \in 0..(Capacity - 1) /\ Place \in Nat
          BY PositionValue DEF Place
        <5>2. Position(s) - 1 \in 0..Capacity
          BY <4>1, <5>1, CapacityAssumption
        <5> QED
          BY <4>1, <5>2, SlotValue DEF Slide, TypeOK
      <4> QED
        BY <4>1 DEF Slide, TypeOK
    <3>3. commands' \in [Slots -> Command \cup {Undefined}]
      BY <2>0, <2>4, <3>2 DEF PlaceAtFront
    <3> QED
      BY <2>1, <2>4, <3>1, <3>3, CapacityAssumption DEF PlaceAtFront, TypeOK
  <2>5. ASSUME NEW st \in States, SetFrontState(st)
        PROVE  TypeOK'
    <3>1. /\ head \in Slots
          /\ 0 \in 0..(count - 1) /\ 0 \in 0..Capacity
      BY <2>5, CapacityAssumption DEF SetFrontState, TypeOK
    <3>2. Slot(0) = head
      BY <3>1, SlotValue, CapacityAssumption DEF Slots
    <3>3. [commands[head] EXCEPT !.state = st] \in Command
      BY <3>1, <3>2, <2>5 DEF TypeOK, Command
    <3>4. \A i \in 0..(count' - 1) : commands'[Slot(i)'] \in Command
      BY <2>5, <3>2, <3>3, SetFrontStateContents DEF SetFrontState, TypeOK
    <3>5. commands' \in [Slots -> Command \cup {Undefined}]
      BY <2>5, <3>3 DEF SetFrontState, TypeOK
    <3> QED
      BY <2>5, <3>4, <3>5 DEF SetFrontState, TypeOK
  <2>6. CASE UNCHANGED vars
    BY <2>6 DEF vars, TypeOK, Slot
  <2> QED
    BY <2>2, <2>3, <2>4, <2>5, <2>6 DEF Next
<1> QED
  BY <1>1, <1>2, PTL DEF Spec

----------------------------------------------------------------------------

(* While the counter has not started again, every live id was issued before *)
(* next_id: the strengthening that makes uniqueness inductive.             *)
IdsIssued ==
  ~wrapped => \A i \in 0..(count - 1) : commands[Slot(i)].id < next_id

(* UniqueIds for every capacity and id width: a callback looked up by the   *)
(* front's id is that command's own until 2^32 - 1 commands have passed.   *)
THEOREM IdsStayUnique == Spec => []UniqueIds
<1> DEFINE Inv == IdsIssued /\ UniqueIds
<1>1. Init => Inv
  <2> SUFFICES ASSUME Init PROVE Inv
    OBVIOUS
  <2>1. 0..(count - 1) = {}
    BY DEF Init
  <2> QED
    BY <2>1 DEF IdsIssued, UniqueIds
<1>2. TypeOK /\ Inv /\ [Next]_vars => Inv'
  <2> SUFFICES ASSUME TypeOK, Inv, [Next]_vars, ~wrapped'
               PROVE  Inv'
    BY DEF IdsIssued, UniqueIds
  <2>1. ASSUME IssueId
        PROVE  next_id' = next_id + 1 /\ ~wrapped
    BY <2>1 DEF IssueId, NextId
  <2>2. NewCommand(next_id).id = next_id /\ next_id \in Nat
    BY MaxIdAssumption DEF NewCommand, TypeOK
  <2>3. CASE PushBack
    <3>1. ~wrapped /\ next_id' = next_id + 1 /\ count' = count + 1 /\ count \in Nat
      BY <2>1, <2>3, CapacityAssumption DEF PushBack, TypeOK
    <3>2. \A i \in 0..count : commands'[Slot(i)'].id =
            IF i = count THEN next_id ELSE commands[Slot(i)].id
      BY <2>2, <2>3, PushBackContents
    <3>3. \A i \in 0..count : i # count =>
            /\ i \in 0..(count - 1)
            /\ commands[Slot(i)].id \in Nat /\ commands[Slot(i)].id < next_id
      BY <3>1, MaxIdAssumption DEF IdsIssued, TypeOK, Command
    <3>4. 0..(count' - 1) = 0..count
      BY <3>1
    <3>5. IdsIssued'
      BY <2>2, <3>1, <3>2, <3>3, <3>4 DEF IdsIssued
    <3>6. UniqueIds'
      BY <2>2, <3>1, <3>2, <3>3, <3>4 DEF UniqueIds
    <3> QED
      BY <3>5, <3>6
  <2>4. CASE PopFront
    <3>1. /\ ~wrapped /\ next_id' = next_id /\ count' = count - 1
          /\ count \in Nat /\ count > 0
      BY <2>4, CapacityAssumption DEF PopFront, TypeOK
    <3>2. \A i \in 0..(count' - 1) :
            /\ i \in 0..(count - 2) /\ i + 1 \in 0..(count - 1)
            /\ commands'[Slot(i)'] = commands[Slot(i + 1)]
      BY <2>4, <3>1, PopFrontContents
    <3>3. IdsIssued'
      BY <3>1, <3>2 DEF IdsIssued
    <3>4. UniqueIds'
      <4> SUFFICES ASSUME NEW i \in 0..(count' - 1), NEW j \in 0..(count' - 1),
                          commands'[Slot(i)'].id = commands'[Slot(j)'].id
                   PROVE  i = j
        BY DEF UniqueIds
      <4>1. i + 1 = j + 1
        BY <3>1, <3>2 DEF UniqueIds
      <4> QED
        BY <4>1
    <3> QED
      BY <3>3, <3>4
  <2>5. CASE PlaceAtFront
    <3>1. /\ ~wrapped /\ next_id' = next_id + 1 /\ count' = count + 1
          /\ count \in Nat /\ Place \in {0, 1} /\ Place <= count
      BY <2>1, <2>5, CapacityAssumption DEF PlaceAtFront, TypeOK, Place
    <3> DEFINE From(i) == IF i < Place THEN i ELSE i - 1
    <3>2. \A i \in 0..count : commands'[Slot(i)'].id =
            IF i = Place THEN next_id ELSE commands[Slot(From(i))].id
      <4> TAKE i \in 0..count
      <4> QED
        BY <2>2, <2>5, <3>1, PlaceAtFrontContents
    <3>3. \A i \in 0..count : i # Place =>
            /\ From(i) \in 0..(count - 1)
            /\ commands[Slot(From(i))].id \in Nat
            /\ commands[Slot(From(i))].id < next_id
      <4> SUFFICES ASSUME NEW i \in 0..count, i # Place
                   PROVE  From(i) \in 0..(count - 1)
        BY <3>1, MaxIdAssumption DEF IdsIssued, TypeOK, Command
      <4> QED
        BY <3>1
    <3>4. 0..(count' - 1) = 0..count
      BY <3>1
    <3>5. IdsIssued'
      BY <2>2, <3>1, <3>2, <3>3, <3>4 DEF IdsIssued
    <3>6. UniqueIds'
      <4> SUFFICES ASSUME NEW i \in 0..count, NEW j \in 0..count,
                          commands'[Slot(i)'].id = commands'[Slot(j)'].id
                   PROVE  i = j
        BY <3>4 DEF UniqueIds
      <4>1. CASE i = Place \/ j = Place
        BY <4>1, <2>2, <3>2, <3>3
      <4>2. CASE i # Place /\ j # Place
        <5>1. From(i) = From(j)
          BY <4>2, <3>1, <3>2, <3>3 DEF UniqueIds
        <5> QED
          BY <5>1, <4>2, <3>1
      <4> QED
        BY <4>1, <4>2
    <3> QED
      BY <3>5, <3>6
  <2>6. ASSUME NEW st \in States, SetFrontState(st)
        PROVE  Inv'
    <3>1. /\ count' = count /\ next_id' = next_id /\ ~wrapped
          /\ count > 0
      BY <2>6 DEF SetFrontState
    <3>2. \A i \in 0..(count - 1) :
            commands'[Slot(i)'].id = commands[Slot(i)].id
      <4> TAKE i \in 0..(count - 1)
      <4>1. commands[Slot(i)] \in Command
        BY DEF TypeOK
      <4> QED
        BY <4>1, <2>6, SetFrontStateContents DEF Command
    <3> QED
      BY <3>1, <3>2 DEF IdsIssued, UniqueIds
  <2>7. CASE UNCHANGED vars
    BY <2>7 DEF vars, IdsIssued, UniqueIds, Slot
  <2> QED
    BY <2>3, <2>4, <2>5, <2>6, <2>7 DEF Next
<1> QED
  BY <1>1, <1>2, TypeCorrect, PTL DEF Spec

(* The front slot is position 0. *)
LEMMA FrontSlot ==
  ASSUME TypeOK
  PROVE  Slot(0) = head
<1>1. 0 \in 0..Capacity /\ head \in Nat /\ head < Capacity
  BY CapacityAssumption DEF TypeOK, Slots
<1> QED
  BY <1>1, SlotValue

(* InProgressKeepsFront for every capacity: a step that pops nothing leaves *)
(* a started command in front.                                             *)
THEOREM NoPreemption == Spec => InProgressKeepsFront
<1> DEFINE A == count > 0 /\ getFront.state # Idle /\ count' >= count
                  => getFront'.id = getFront.id
<1>1. TypeOK /\ [Next]_vars => [A]_vars
  <2> SUFFICES ASSUME TypeOK, Next,
                      count > 0, getFront.state # Idle, count' >= count
               PROVE  commands'[head'].id = commands[head].id
    BY DEF getFront
  <2>0. count \in Nat /\ Slot(0) = head /\ 0 \in 0..count /\ 0 \in 0..(count - 1)
    BY CapacityAssumption, FrontSlot DEF TypeOK
  <2>1. CASE PushBack
    BY <2>0, <2>1, PushBackContents DEF PushBack, Slot
  <2>2. CASE PopFront
    BY <2>0, <2>2 DEF PopFront
  <2>3. CASE PlaceAtFront
    <3>1. Place = 1
      BY <2>0 DEF Place
    <3> QED
      BY <2>0, <2>3, <3>1, PlaceAtFrontContents DEF PlaceAtFront, Slot
  <2>4. ASSUME NEW st \in States, SetFrontState(st)
        PROVE  commands'[head'].id = commands[head].id
    <3>1. commands[Slot(0)] \in Command
      BY <2>0 DEF TypeOK
    <3> QED
      BY <2>0, <2>4, <3>1, SetFrontStateContents DEF SetFrontState, Slot, Command
  <2> QED
    BY <2>1, <2>2, <2>3, <2>4 DEF Next
<1> QED
  BY <1>1, TypeCorrect, PTL DEF Spec, InProgressKeepsFront

----------------------------------------------------------------------------
(* Refinement: the array read from head is the abstract list. *)

LEMMA ContentsIsList ==
  ASSUME TypeOK
  PROVE  /\ Contents \in Seq(Command)
         /\ Len(Contents) = count
         /\ count = 0 <=> Contents = <<>>
<1>1. count \in Nat
  BY CapacityAssumption DEF TypeOK
<1>2. \A i \in 1..count : commands[Slot(i - 1)] \in Command
  BY <1>1 DEF TypeOK
<1>3. Contents \in Seq(Command)
  BY <1>1, <1>2 DEF Contents
<1>4. Len(Contents) = count
  BY <1>1 DEF Contents
<1> QED
  BY <1>1, <1>3, <1>4

(* ImplementsList for every capacity: each operation of the ring buffer is  *)
(* the same operation of the abstract list.                                *)
THEOREM RingImplementsList == Spec => ImplementsList
<1>1. Init => List!Init
  <2> SUFFICES ASSUME Init PROVE Contents = <<>> /\ next_id = 1
    BY DEF List!Init
  <2>1. count = 0
    BY DEF Init
  <2> QED
    BY <2>1 DEF Init, Contents
<1>2. TypeOK /\ TypeOK' /\ [Next]_vars => [List!Next]_<<Contents, next_id>>
  <2> SUFFICES ASSUME TypeOK, TypeOK', [Next]_vars
               PROVE  List!Next \/ UNCHANGED <<Contents, next_id>>
    OBVIOUS
  <2>0. /\ count \in Nat /\ count' \in Nat
        /\ Len(Contents) = count
        /\ count = 0 <=> Contents = <<>>
        /\ \A i \in 1..count : Contents[i] = commands[Slot(i - 1)]
        /\ Contents' = [i \in 1..count' |-> commands'[Slot(i - 1)']]
        /\ List!NewCommand(next_id) = NewCommand(next_id)
    BY CapacityAssumption, ContentsIsList
       DEF TypeOK, Contents, List!NewCommand, NewCommand
  <2>1. ASSUME IssueId PROVE next_id' = List!NextId(next_id)
    BY <2>1 DEF IssueId, NextId, List!NextId
  <2>2. CASE PushBack
    <3>1. count' = count + 1 /\ count < Capacity
      BY <2>2 DEF PushBack
    <3>2. \A i \in 1..(count + 1) :
            commands'[Slot(i - 1)'] = IF i < count + 1 THEN Contents[i]
                                                       ELSE NewCommand(next_id)
      <4> TAKE i \in 1..(count + 1)
      <4>1. i - 1 \in 0..count /\ (i < count + 1 => i \in 1..count)
            /\ (i - 1 = count <=> ~(i < count + 1))
        BY <2>0
      <4> QED
        BY <4>1, <2>0, <2>2, PushBackContents
    <3>3. Contents' = List!Inserted(Contents, Len(Contents) + 1, NewCommand(next_id))
      BY <2>0, <3>1, <3>2 DEF List!Inserted
    <3> QED
      BY <2>0, <2>1, <2>2, <3>1, <3>3 DEF PushBack, List!AddBack, List!Next
  <2>3. CASE PopFront
    <3>1. count' = count - 1 /\ count > 0
      BY <2>3 DEF PopFront
    <3>2. \A i \in 1..(count - 1) : commands'[Slot(i - 1)'] = Contents[i + 1]
      <4> TAKE i \in 1..(count - 1)
      <4>1. i - 1 \in 0..(count - 2) /\ i + 1 \in 1..count
            /\ (i - 1) + 1 = i /\ (i + 1) - 1 = i
        BY <2>0
      <4> QED
        BY <4>1, <2>0, <2>3, PopFrontContents
    <3>3. Contents' = [i \in 1..(Len(Contents) - 1) |-> Contents[i + 1]]
      BY <2>0, <3>1, <3>2
    <3> QED
      BY <2>0, <2>3, <3>1, <3>3 DEF PopFront, List!RemoveFront, List!Next
  <2>4. CASE PlaceAtFront
    <3>1. count' = count + 1 /\ count < Capacity /\ Place \in {0, 1} /\ Place <= count
      BY <2>0, <2>4 DEF PlaceAtFront, Place
    <3>2. List!PriorityPlace(Contents) = Place + 1
      <4>1. count > 0 => Contents[1] = getFront
        BY <2>0, FrontSlot DEF getFront
      <4> QED
        BY <4>1, <2>0 DEF List!PriorityPlace, Place
    <3>3. \A i \in 1..(count + 1) :
            commands'[Slot(i - 1)'] = IF i < Place + 1 THEN Contents[i]
                                      ELSE IF i = Place + 1 THEN NewCommand(next_id)
                                      ELSE Contents[i - 1]
      <4> TAKE i \in 1..(count + 1)
      <4>1. /\ i - 1 \in 0..count
            /\ i < Place + 1 => i \in 1..count
            /\ i < Place + 1 <=> i - 1 < Place
            /\ i = Place + 1 <=> i - 1 = Place
            /\ ~(i < Place + 1) /\ i # Place + 1 => i - 1 \in 1..count
        BY <2>0, <3>1
      <4> QED
        BY <4>1, <2>0, <2>4, PlaceAtFrontContents
    <3>4. Contents' = List!Inserted(Contents, Place + 1, NewCommand(next_id))
      BY <2>0, <3>1, <3>3 DEF List!Inserted
    <3> QED
      BY <2>0, <2>1, <2>4, <3>1, <3>2, <3>4
         DEF PlaceAtFront, List!AddPriority, List!Next
  <2>5. ASSUME NEW st \in States, SetFrontState(st)
        PROVE  List!Next
    <3>1. count' = count /\ count > 0 /\ next_id' = next_id
      BY <2>5 DEF SetFrontState
    <3>2. \A i \in 1..count :
            commands'[Slot(i - 1)'] = IF i = 1 THEN [Contents[1] EXCEPT !.state = st]
                                               ELSE Contents[i]
      <4> TAKE i \in 1..count
      <4>1. i - 1 \in 0..(count - 1) /\ (i - 1 = 0 <=> i = 1) /\ 1 \in 1..count
            /\ 1 - 1 = 0
        BY <2>0, <3>1
      <4> QED
        BY <4>1, <2>0, <2>5, SetFrontStateContents
    <3>3. Contents' = [Contents EXCEPT ![1].state = st]
      BY <2>0, <3>1, <3>2 DEF Contents
    <3>4. Contents # <<>>
      BY <2>0, <3>1
    <3>5. List!SetFrontState(st)
      BY <3>1, <3>3, <3>4 DEF List!SetFrontState
    <3> QED
      BY <2>5, <3>5 DEF List!Next
  <2>6. CASE UNCHANGED vars
    BY <2>6 DEF vars, Contents, Slot
  <2> QED
    BY <2>2, <2>3, <2>4, <2>5, <2>6 DEF Next
<1> QED
  BY <1>1, <1>2, TypeCorrect, PTL DEF Spec, ImplementsList, List!Spec, List!listVars
=============================================================================
