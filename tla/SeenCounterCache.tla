-------------------------- MODULE SeenCounterCache --------------------------
(***************************************************************************)
(* The replay check of src/session.zig: a fixed array of the request id    *)
(* and counter pairs accepted last, overwritten in a circle.               *)
(***************************************************************************)
EXTENDS Integers, Sequences

CONSTANTS
  Window,     \* slots of the cache (16 in the code)
  Responses,  \* the pairs of request id and response counter
  Zero        \* the pair the slots are initialized with

ASSUME WindowAssumption == Window \in Nat \ {0}
ASSUME ZeroAssumption == Zero \in Responses

VARIABLES
  slots, head, count,
  offered,   \* the pair of the latest validateAndAdd,
  returned   \* and what it returned

vars == <<slots, head, count, offered, returned>>

Indices == 0..(Window - 1)

(* The slot written i acceptances before the latest one. *)
Back(i) == (head + Window - i) % Window

(* The scan starts at head, the slot written last, and takes as many slots as *)
(* hold a pair.                                                              *)
ScanWholeArray(r) == \E i \in Indices : slots[Back(i)] = r
ScanSkipsHead(r) == \E i \in 1..(count - 1) : slots[Back(i)] = r
Seen(r) == \E i \in 0..(count - 1) : slots[Back(i)] = r

CountOnAndOn == count + 1
Grown == IF count < Window THEN count + 1 ELSE count

----------------------------------------------------------------------------

Init ==
  /\ slots = [s \in Indices |-> Zero]
  /\ head = 0
  /\ count = 0
  /\ offered \in Responses
  /\ returned = FALSE

Refuse(r) ==
  /\ Seen(r)
  /\ offered' = r
  /\ returned' = FALSE
  /\ UNCHANGED <<slots, head, count>>

Add(r) ==
  /\ ~Seen(r)
  /\ head' = (head + 1) % Window
  /\ slots' = [slots EXCEPT ![head'] = r]
  /\ count' = Grown
  /\ offered' = r
  /\ returned' = TRUE

validateAndAdd(r) == Refuse(r) \/ Add(r)

Next == \E r \in Responses : validateAndAdd(r)

Spec == Init /\ [][Next]_vars
----------------------------------------------------------------------------

TypeOK ==
  /\ slots \in [Indices -> Responses]
  /\ head \in Indices
  /\ count \in 0..Window
  /\ offered \in Responses
  /\ returned \in BOOLEAN

(* The pairs the cache holds, the latest first. *)
Contents == [i \in 1..count |-> slots[Back(i - 1)]]

Recent == INSTANCE RecentResponses WITH recent <- Contents, accepted <- returned

(* "It tracks up to 16 of the most recent request ID and counter pairings"    *)
(* (session.zig:5-7): a pair is refused exactly when it is one of the Window   *)
(* accepted last, also while the array still holds its initial zeros and after *)
(* it has been written all the way round.                                     *)
ImplementsWindow == Recent!Spec

(* No pair is accepted twice within the window: the pairs the cache holds are  *)
(* all different (session.zig:27-43).                                         *)
NoReplayInWindow ==
  \A i, j \in 0..(count - 1) : slots[Back(i)] = slots[Back(j)] => i = j
============================================================================
