----------------------- MODULE SeenCounterCacheProofs -----------------------
(***************************************************************************)
(* The replay check, for every window: its types, that it never accepts a  *)
(* pair it remembers, and that it implements RecentResponses.              *)
(***************************************************************************)
EXTENDS SeenCounterCache, TLAPS

(* The index i steps before head, without the modulus. *)
LEMMA BackValue ==
  ASSUME TypeOK, NEW i \in Indices
  PROVE  /\ Back(i) = IF i <= head THEN head - i ELSE head + Window - i
         /\ Back(i) \in Indices
<1>1. /\ head \in Nat /\ head < Window
      /\ i \in Nat /\ i < Window /\ Window \in Nat
  BY WindowAssumption DEF TypeOK, Indices
<1>2. (head + Window - i) % Window = IF i <= head THEN head - i ELSE head + Window - i
  BY <1>1, SMT
<1> QED
  BY <1>1, <1>2 DEF Back, Indices

(* The slot an acceptance writes. *)
LEMMA NextHead ==
  ASSUME TypeOK, NEW r \in Responses, Add(r)
  PROVE  /\ head' = IF head + 1 < Window THEN head + 1 ELSE 0
         /\ head' \in Indices
<1>1. head \in Nat /\ head < Window /\ Window \in Nat
  BY WindowAssumption DEF TypeOK, Indices
<1>2. (head + 1) % Window = IF head + 1 < Window THEN head + 1 ELSE 0
  BY <1>1, SMT
<1> QED
  BY <1>1, <1>2 DEF Add, Indices

LEMMA TypeInit == Init => TypeOK
<1> SUFFICES ASSUME Init PROVE TypeOK
  OBVIOUS
<1>1. slots \in [Indices -> Responses]
  BY ZeroAssumption DEF Init
<1>2. head \in Indices /\ count \in 0..Window
  BY WindowAssumption DEF Init, Indices
<1> QED
  BY <1>1, <1>2 DEF Init, TypeOK

LEMMA TypeStep == TypeOK /\ [Next]_vars => TypeOK'
<1> SUFFICES ASSUME TypeOK, [Next]_vars PROVE TypeOK'
  OBVIOUS
<1>1. ASSUME NEW r \in Responses, Add(r) PROVE TypeOK'
  <2>1. head' \in Indices
    BY <1>1, NextHead
  <2>2. slots' \in [Indices -> Responses]
    BY <1>1, <2>1 DEF Add, TypeOK
  <2>3. count' \in 0..Window
    BY <1>1, WindowAssumption DEF Add, Grown, TypeOK
  <2> QED
    BY <1>1, <2>1, <2>2, <2>3 DEF Add, TypeOK
<1>2. ASSUME NEW r \in Responses, Refuse(r) PROVE TypeOK'
  BY <1>2 DEF Refuse, TypeOK
<1>3. ASSUME UNCHANGED vars PROVE TypeOK'
  BY <1>3 DEF vars, TypeOK
<1> QED
  BY <1>1, <1>2, <1>3 DEF Next, validateAndAdd

(* Head, count and slots stay in range, for every window (session.zig:8-44). *)
THEOREM TypeCorrect == Spec => []TypeOK
BY TypeInit, TypeStep, PTL DEF Spec

----------------------------------------------------------------------------
(* An acceptance puts the new pair at the head and moves the others one step  *)
(* away from it.                                                             *)
LEMMA AddContents ==
  ASSUME TypeOK, NEW r \in Responses, Add(r), NEW i \in 0..(count' - 1)
  PROVE  slots'[Back(i)'] = IF i = 0 THEN r ELSE slots[Back(i - 1)]
<1>1. /\ head \in Nat /\ head < Window /\ Window \in Nat /\ count \in 0..Window
      /\ i \in Nat /\ i < Window
  BY WindowAssumption DEF TypeOK, Indices, Add, Grown
<1>2. head' = (IF head + 1 < Window THEN head + 1 ELSE 0) /\ head' \in Indices
  BY NextHead
<1>3. TypeOK'
  BY TypeStep DEF Next, validateAndAdd
<1>4. i \in Indices
  BY <1>1 DEF Indices
<1>5. Back(i)' = IF i <= head' THEN head' - i ELSE head' + Window - i
  <2> DEFINE h == head'
  <2>1. h \in Nat /\ h < Window
    BY <1>1, <1>2 DEF Indices
  <2> HIDE DEF h
  <2>2. (h + Window - i) % Window = IF i <= h THEN h - i ELSE h + Window - i
    BY <1>1, <2>1, SMT
  <2> QED
    BY <2>2 DEF Back, h
<1>6. CASE i = 0
  <2>1. Back(i)' = head'
    BY <1>1, <1>2, <1>5, <1>6 DEF Indices
  <2> QED
    BY <1>2, <1>6, <2>1 DEF Add, TypeOK
<1>7. CASE i # 0
  <2>1. i - 1 \in Indices
    BY <1>1, <1>7 DEF Indices
  <2>2. /\ Back(i - 1) = IF i - 1 <= head THEN head - (i - 1)
                                          ELSE head + Window - (i - 1)
        /\ Back(i - 1) \in Indices
    BY <2>1, BackValue
  <2>3. Back(i)' = Back(i - 1) /\ Back(i)' # head'
    BY <1>1, <1>2, <1>5, <1>7, <2>2
  <2> QED
    BY <1>2, <1>7, <2>2, <2>3 DEF Add, TypeOK
<1> QED
  BY <1>6, <1>7

(* Nothing that is already remembered is added. *)
LEMMA ReplayStep == TypeOK /\ NoReplayInWindow /\ [Next]_vars => NoReplayInWindow'
<1> SUFFICES ASSUME TypeOK, NoReplayInWindow, [Next]_vars PROVE NoReplayInWindow'
  OBVIOUS
<1>1. ASSUME NEW r \in Responses, Add(r) PROVE NoReplayInWindow'
  <2> SUFFICES ASSUME NEW i \in 0..(count' - 1), NEW j \in 0..(count' - 1),
                      slots'[Back(i)'] = slots'[Back(j)']
               PROVE  i = j
    BY DEF NoReplayInWindow
  <2>1. /\ slots'[Back(i)'] = IF i = 0 THEN r ELSE slots[Back(i - 1)]
        /\ slots'[Back(j)'] = IF j = 0 THEN r ELSE slots[Back(j - 1)]
    BY <1>1, AddContents
  <2>2. /\ count \in Nat /\ count' \in Nat /\ count' <= count + 1
        /\ i \in Nat /\ i < count' /\ j \in Nat /\ j < count'
    BY <1>1, WindowAssumption DEF TypeOK, Add, Grown
  <2>3. /\ i # 0 => i - 1 \in 0..(count - 1)
        /\ j # 0 => j - 1 \in 0..(count - 1)
    BY <2>2
  <2>4. \A k \in 0..(count - 1) : slots[Back(k)] # r
    BY <1>1 DEF Add, Seen
  <2>5. i = 0 <=> j = 0
    BY <2>1, <2>3, <2>4
  <2>6. i # 0 => i - 1 = j - 1
    BY <2>1, <2>3, <2>5 DEF NoReplayInWindow
  <2> QED
    BY <2>2, <2>5, <2>6
<1>2. ASSUME NEW r \in Responses, Refuse(r) PROVE NoReplayInWindow'
  BY <1>2 DEF Refuse, NoReplayInWindow, Back
<1>3. ASSUME UNCHANGED vars PROVE NoReplayInWindow'
  BY <1>3 DEF vars, NoReplayInWindow, Back
<1> QED
  BY <1>1, <1>2, <1>3 DEF Next, validateAndAdd

(* No pair is accepted twice within the window (session.zig:27-43). *)
THEOREM NoReplay == Spec => []NoReplayInWindow
<1>1. Init => NoReplayInWindow
  BY DEF Init, NoReplayInWindow
<1> QED
  BY <1>1, TypeInit, TypeStep, ReplayStep, PTL DEF Spec

----------------------------------------------------------------------------
(* Refinement *)

LEMMA ContentsLength ==
  ASSUME TypeOK
  PROVE  Len(Contents) = count /\ DOMAIN Contents = 1..count
BY DEF TypeOK, Contents

(* Being remembered is being found by the scan. *)
LEMMA RememberedIsSeen ==
  ASSUME TypeOK, NEW r \in Responses
  PROVE  Recent!Remembered(r) <=> Seen(r)
<1>1. count \in Nat
  BY DEF TypeOK
<1>2. ASSUME NEW i \in 1..count, Contents[i] = r PROVE Seen(r)
  <2>1. i - 1 \in 0..(count - 1) /\ slots[Back(i - 1)] = r
    BY <1>1, <1>2 DEF Contents
  <2> QED
    BY <2>1 DEF Seen
<1>3. ASSUME NEW k \in 0..(count - 1), slots[Back(k)] = r
      PROVE  \E i \in 1..count : Contents[i] = r
  <2>1. k + 1 \in 1..count /\ (k + 1) - 1 = k
    BY <1>1
  <2>2. Contents[k + 1] = slots[Back(k)]
    BY <2>1 DEF Contents
  <2> QED
    BY <1>3, <2>1, <2>2
<1> QED
  BY <1>2, <1>3, ContentsLength DEF Recent!Remembered, Seen

LEMMA RefinesInit == Init => Recent!Init
<1> SUFFICES ASSUME Init
             PROVE Contents = <<>> /\ offered \in Responses /\ returned = FALSE
  BY DEF Recent!Init
<1>1. Contents = [i \in 1..0 |-> slots[Back(i - 1)]]
  BY DEF Init, Contents
<1>2. 1..0 = {}
  OBVIOUS
<1>3. Contents = <<>>
  BY <1>1, <1>2
<1> QED
  BY <1>3 DEF Init

(* Elements are counted from 1, steps back from 0. *)
LEMMA ListIndex ==
  ASSUME NEW n \in Nat, NEW m \in Nat, n <= m + 1, NEW i \in 1..n
  PROVE  /\ i - 1 \in 0..(n - 1)
         /\ i # 1 => i - 1 \in 1..m
         /\ i - 1 = 0 <=> i = 1
OBVIOUS

LEMMA RefinesAdd ==
  ASSUME TypeOK, NEW r \in Responses, Add(r)
  PROVE  Recent!Accept(r)
<1>1. Contents' = [i \in 1..(count') |-> slots'[Back(i - 1)']]
  BY DEF Contents, Back
<1>2. count' = IF count < Window THEN count + 1 ELSE Window
  BY WindowAssumption DEF Add, Grown, TypeOK
<1>3. ASSUME NEW i \in 1..(count')
      PROVE  slots'[Back(i - 1)'] = IF i = 1 THEN r ELSE Contents[i - 1]
  <2>1. count \in Nat /\ count' \in Nat /\ count' <= count + 1
    BY <1>2, WindowAssumption DEF TypeOK
  <2>2. /\ i - 1 \in 0..(count' - 1)
        /\ i # 1 => i - 1 \in 1..count
        /\ i - 1 = 0 <=> i = 1
    BY <2>1, ListIndex
  <2>3. slots'[Back(i - 1)'] = IF i - 1 = 0 THEN r ELSE slots[Back((i - 1) - 1)]
    BY <2>2, AddContents
  <2>4. i # 1 => Contents[i - 1] = slots[Back((i - 1) - 1)]
    BY <2>2 DEF Contents
  <2> QED
    BY <2>2, <2>3, <2>4
<1>4. Contents' = Recent!Remember(Contents, r)
  <2>1. Len(Contents) = count
    BY ContentsLength
  <2>2. Recent!Remember(Contents, r)
          = [i \in 1..(count') |-> IF i = 1 THEN r ELSE Contents[i - 1]]
    BY <1>2, <2>1 DEF Recent!Remember
  <2> QED
    BY <1>1, <1>3, <2>2
<1> QED
  BY <1>4, RememberedIsSeen DEF Recent!Accept, Add

LEMMA RefinesRefuse ==
  ASSUME TypeOK, NEW r \in Responses, Refuse(r)
  PROVE  Recent!Refuse(r)
<1>1. Contents' = Contents
  BY DEF Refuse, Contents, Back
<1> QED
  BY <1>1, RememberedIsSeen DEF Recent!Refuse, Refuse

LEMMA RefinesStep == TypeOK /\ [Next]_vars => [Recent!Next]_(Recent!recentVars)
<1> SUFFICES ASSUME TypeOK, [Next]_vars PROVE [Recent!Next]_(Recent!recentVars)
  OBVIOUS
<1>1. ASSUME NEW r \in Responses, Add(r) PROVE Recent!Next
  BY <1>1, RefinesAdd DEF Recent!Next
<1>2. ASSUME NEW r \in Responses, Refuse(r) PROVE Recent!Next
  BY <1>2, RefinesRefuse DEF Recent!Next
<1>3. ASSUME UNCHANGED vars PROVE UNCHANGED Recent!recentVars
  BY <1>3 DEF vars, Recent!recentVars, Contents, Back
<1> QED
  BY <1>1, <1>2, <1>3 DEF Next, validateAndAdd

(* The circular array refuses exactly the Window pairs accepted last, for      *)
(* every window (session.zig:8-44).                                           *)
THEOREM CacheImplementsWindow == Spec => ImplementsWindow
<1>1. Spec => Recent!Spec
  BY RefinesInit, RefinesStep, TypeInit, TypeStep, PTL DEF Spec, Recent!Spec
<1> QED
  BY <1>1 DEF ImplementsWindow
============================================================================
