----------------------- MODULE MessageTransportProofs -----------------------
(***************************************************************************)
(* What arrives through the chunks is a lossy, ordered channel of whole    *)
(* messages, and what leaves keeps its order, for messages and buffers of  *)
(* any length.                                                             *)
(***************************************************************************)
EXTENDS MessageTransport, TLAPS

(* Chunks keep the order in which the vehicle cut them. *)
Before(c, d) ==
  \/ c.message < d.message
  \/ c.message = d.message /\ c.part < d.part /\ c.size = d.size

Sorted(s) == \A i, j \in 1..Len(s) : i < j => Before(s[i], s[j])
Ahead(s, t) == \A i \in 1..Len(s) : \A j \in 1..Len(t) : Before(s[i], t[j])

(* They are proper chunks of messages after the first d of the n offered. *)
Fresh(s, d, n) ==
  \A i \in 1..Len(s) : s[i].part <= s[i].size /\ d < s[i].message /\ s[i].message <= n

Arranged(b, q, a, d, n) ==
  /\ Sorted(b) /\ Sorted(q) /\ Sorted(a)
  /\ Ahead(b, q) /\ Ahead(b, a) /\ Ahead(q, a)
  /\ Fresh(b, d, n) /\ Fresh(q, d, n) /\ Fresh(a, d, n)

(* The latest message that was put together. *)
Done == IF responses # <<>> /\ Head(responses) # Garbled THEN Head(responses) ELSE latest

OneAnswer == Len(responses) <= 1
OnlyNewer == latest <= Done /\ Done <= offered
NewIsNewer == responses # <<>> /\ Head(responses) # Garbled => latest < Head(responses)
InOrder == Arranged(readBuffer, readQueue, air, Done, offered)

(* The write queue ends with the end of a message. *)
WrittenWhole == writeQueue # <<>> => writeQueue[Len(writeQueue)].part = writeQueue[Len(writeQueue)].size

IInv ==
  /\ TypeOK /\ NothingToTidy /\ OneAnswer /\ OnlyNewer /\ NewIsNewer
  /\ InOrder /\ WrittenWhole /\ WritesInOrder

USE PartsAssumption, BufferAssumption, BoundsAssumption

----------------------------------------------------------------------------
(* Sequences of chunks.                                                      *)

LEMMA TailFacts ==
  ASSUME NEW S, NEW s \in Seq(S), s # <<>>
  PROVE  /\ Head(s) \in S /\ Head(s) = s[1]
         /\ Tail(s) \in Seq(S) /\ Len(Tail(s)) = Len(s) - 1 /\ Len(s) \in Nat \ {0}
         /\ \A i \in 1..Len(Tail(s)) : Tail(s)[i] = s[i + 1] /\ i + 1 \in 1..Len(s)
OBVIOUS

LEMMA AppendFacts ==
  ASSUME NEW S, NEW s \in Seq(S), NEW e \in S
  PROVE  /\ Append(s, e) \in Seq(S) /\ Len(Append(s, e)) = Len(s) + 1
         /\ \A i \in 1..Len(s) : Append(s, e)[i] = s[i]
         /\ Append(s, e)[Len(s) + 1] = e
         /\ \A i \in 1..(Len(s) + 1) : i \in 1..Len(s) \/ i = Len(s) + 1
         /\ Len(s) \in Nat
OBVIOUS

LEMMA NothingLeft ==
  ASSUME NEW S, NEW s \in Seq(S), Len(s) = 0
  PROVE  s = <<>>
OBVIOUS

LEMMA EmptyFits == <<>> \in Seq(InChunk) /\ Len(<<>>) <= BufferParts
OBVIOUS

LEMMA EmptyArranged ==
  ASSUME NEW d, NEW n
  PROVE  Sorted(<<>>) /\ Fresh(<<>>, d, n)
BY DEF Sorted, Fresh

LEMMA EmptyAhead ==
  ASSUME NEW s
  PROVE  Ahead(<<>>, s) /\ Ahead(s, <<>>)
BY DEF Ahead

LEMMA Cleared ==
  ASSUME NEW b, NEW q, NEW a, NEW d, NEW n, Arranged(b, q, a, d, n)
  PROVE  Arranged(<<>>, q, a, d, n)
BY EmptyArranged, EmptyAhead DEF Arranged

LEMMA Cut ==
  ASSUME NEW b, NEW q, NEW a, NEW d, NEW n, Arranged(b, q, a, d, n)
  PROVE  Arranged(b, q, <<>>, d, n)
BY EmptyArranged, EmptyAhead DEF Arranged

(* The first chunk of t goes to the end of s. *)
LEMMA MovedPair ==
  ASSUME NEW s \in Seq(InChunk), NEW t \in Seq(InChunk), t # <<>>, NEW d, NEW n,
         Sorted(s), Sorted(t), Ahead(s, t), Fresh(s, d, n), Fresh(t, d, n)
  PROVE  /\ Sorted(Append(s, Head(t))) /\ Sorted(Tail(t))
         /\ Ahead(Append(s, Head(t)), Tail(t))
         /\ Fresh(Append(s, Head(t)), d, n) /\ Fresh(Tail(t), d, n)
<1> DEFINE u == Append(s, Head(t))
           v == Tail(t)
<1>1. /\ Head(t) \in InChunk /\ Head(t) = t[1] /\ v \in Seq(InChunk)
      /\ Len(t) \in Nat \ {0} /\ Len(v) = Len(t) - 1
      /\ \A i \in 1..Len(v) : v[i] = t[i + 1] /\ i + 1 \in 1..Len(t)
  BY TailFacts
<1>2. /\ u \in Seq(InChunk) /\ Len(u) = Len(s) + 1 /\ Len(s) \in Nat
      /\ \A i \in 1..Len(s) : u[i] = s[i]
      /\ u[Len(s) + 1] = t[1]
      /\ \A i \in 1..Len(u) : i \in 1..Len(s) \/ i = Len(s) + 1
  BY <1>1, AppendFacts
<1>3. 1 \in 1..Len(t)
  BY <1>1
<1> HIDE DEF u, v
<1>4. Sorted(u)
  BY <1>2, <1>3 DEF Sorted, Ahead
<1>5. Sorted(v)
  BY <1>1 DEF Sorted
<1>6. Ahead(u, v)
  BY <1>1, <1>2, <1>3 DEF Ahead, Sorted
<1>7. Fresh(u, d, n) /\ Fresh(v, d, n)
  BY <1>1, <1>2, <1>3 DEF Fresh
<1> QED
  BY <1>4, <1>5, <1>6, <1>7 DEF u, v

(* What was ahead of t, or t ahead of, is so of its parts. *)
LEMMA MovedBefore ==
  ASSUME NEW s \in Seq(InChunk), NEW t \in Seq(InChunk), NEW w \in Seq(InChunk), t # <<>>,
         Ahead(w, s), Ahead(w, t)
  PROVE  Ahead(w, Append(s, Head(t))) /\ Ahead(w, Tail(t))
BY TailFacts, AppendFacts DEF Ahead

LEMMA MovedAfter ==
  ASSUME NEW s \in Seq(InChunk), NEW t \in Seq(InChunk), NEW w \in Seq(InChunk), t # <<>>,
         Ahead(s, w), Ahead(t, w)
  PROVE  Ahead(Append(s, Head(t)), w) /\ Ahead(Tail(t), w)
BY TailFacts, AppendFacts DEF Ahead

LEMMA Buffered ==
  ASSUME NEW b \in Seq(InChunk), NEW q \in Seq(InChunk), NEW a \in Seq(InChunk),
         NEW d, NEW n, Arranged(b, q, a, d, n), q # <<>>
  PROVE  Arranged(Append(b, Head(q)), Tail(q), a, d, n)
BY MovedPair, MovedAfter DEF Arranged

LEMMA Queued ==
  ASSUME NEW b \in Seq(InChunk), NEW q \in Seq(InChunk), NEW a \in Seq(InChunk),
         NEW d, NEW n, Arranged(b, q, a, d, n), a # <<>>
  PROVE  Arranged(b, Append(q, Head(a)), Tail(a), d, n)
BY MovedPair, MovedBefore DEF Arranged

(* The chunks of a message of n parts. *)
LEMMA NotificationFacts ==
  ASSUME NEW m \in Nat \ {0}, NEW k \in Sizes, NEW headers \in [1..k -> Headers]
  PROVE  /\ Notifications(m, headers) \in Seq(InChunk)
         /\ Len(Notifications(m, headers)) = k
         /\ \A i \in 1..k : Notifications(m, headers)[i] =
              [message |-> m, part |-> i, size |-> k, header |-> headers[i]]
<1>1. k \in Nat /\ 1..k \subseteq Sizes /\ k \in Sizes
  BY DEF Sizes
<1>2. headers \in Seq(Headers) /\ Len(headers) = k
  BY <1>1
<1> DEFINE c == Notifications(m, headers)
<1>3. c = [i \in 1..k |-> [message |-> m, part |-> i, size |-> k, header |-> headers[i]]]
  BY <1>2 DEF Notifications
<1>4. \A i \in 1..k : [message |-> m, part |-> i, size |-> k, header |-> headers[i]] \in InChunk
  BY <1>1 DEF InChunk
<1> HIDE DEF c
<1>5. c \in [1..k -> InChunk]
  BY <1>3, <1>4
<1>6. c \in Seq(InChunk) /\ Len(c) = k
  BY <1>1, <1>5
<1> QED
  BY <1>3, <1>6 DEF c

LEMMA Offered ==
  ASSUME NEW b \in Seq(InChunk), NEW q \in Seq(InChunk), NEW d \in Nat, NEW n \in Nat,
         d <= n, Arranged(b, q, <<>>, d, n),
         NEW k \in Sizes, NEW headers \in [1..k -> Headers]
  PROVE  Arranged(b, q, Notifications(n + 1, headers), d, n + 1)
<1> DEFINE c == Notifications(n + 1, headers)
<1>1. n + 1 \in Nat \ {0}
  OBVIOUS
<1>2. /\ c \in Seq(InChunk) /\ Len(c) = k
      /\ \A i \in 1..k : c[i] = [message |-> n + 1, part |-> i, size |-> k, header |-> headers[i]]
  BY <1>1, NotificationFacts
<1> HIDE DEF c
<1>3. \A i \in 1..k : c[i].message = n + 1 /\ c[i].part = i /\ c[i].size = k
  BY <1>2
<1>4. k \in Nat
  BY DEF Sizes
<1>5. Sorted(c) /\ Fresh(c, d, n + 1)
  BY <1>2, <1>3, <1>4 DEF Sorted, Fresh, Before
<1>6. ASSUME NEW s \in Seq(InChunk), Fresh(s, d, n)
      PROVE  Fresh(s, d, n + 1) /\ Ahead(s, c)
  <2>1. \A i \in 1..Len(s) : s[i] \in InChunk
    OBVIOUS
  <2>2. \A i \in 1..Len(s) : s[i].message \in Nat /\ s[i].message <= n
    BY <1>6, <2>1 DEF InChunk, Fresh
  <2> QED
    BY <1>6, <1>2, <1>3, <2>2 DEF Fresh, Ahead, Before
<1>7. Fresh(b, d, n) /\ Fresh(q, d, n)
  BY DEF Arranged
<1> QED
  BY <1>5, <1>6, <1>7 DEF Arranged, c

(* A whole message was parsed: it is newer than d, and all that follows is newer  *)
(* still.                                                                     *)
LEMMA Taken ==
  ASSUME NEW b \in Seq(InChunk), NEW q \in Seq(InChunk), NEW a \in Seq(InChunk),
         NEW d \in Nat, NEW n \in Nat, Arranged(b, q, a, d, n), b # <<>>, Whole(b)
  PROVE  /\ Head(b).message \in Nat \ {0}
         /\ d < Head(b).message /\ Head(b).message <= n
         /\ Arranged(<<>>, q, a, Head(b).message, n)
<1> DEFINE k == Len(b)
           m == Head(b).message
<1>1. k \in Nat \ {0} /\ Head(b) = b[1] /\ b[1] \in InChunk /\ b[k] \in InChunk
  BY TailFacts
<1>2. 1 \in 1..k /\ k \in 1..k
  BY <1>1
<1>3. m \in Nat \ {0} /\ d < m /\ m <= n
  BY <1>1, <1>2 DEF Arranged, Fresh, InChunk
<1>4. b[1].size = k /\ b[1].message = m /\ b[1].part = 1 /\ b[k].message = m /\ b[k].part = k
  BY <1>1, <1>2 DEF Whole
<1>5. b[k].size = k
  <2>1. CASE k = 1
    BY <2>1, <1>4
  <2>2. CASE k # 1
    <3>1. 1 < k
      <4>1. k \in Nat \ {0}
        BY <1>1
      <4> HIDE DEF k
      <4> QED
        BY <4>1, <2>2
    <3>2. Before(b[1], b[k])
      <4>1. Sorted(b)
        BY DEF Arranged
      <4> QED
        BY <4>1, <1>2, <3>1 DEF Sorted
    <3> QED
      BY <3>2, <1>3, <1>4 DEF Before
  <2> QED
    BY <2>1, <2>2
<1> HIDE DEF k, m
<1>6. ASSUME NEW s \in Seq(InChunk), Ahead(b, s), Fresh(s, d, n)
      PROVE  Fresh(s, m, n)
  <2> SUFFICES ASSUME NEW i \in 1..Len(s)
               PROVE  s[i].part <= s[i].size /\ m < s[i].message /\ s[i].message <= n
    BY DEF Fresh
  <2>1. s[i] \in InChunk
    OBVIOUS
  <2>2. s[i].message \in Nat \ {0} /\ s[i].part \in Sizes /\ s[i].size \in Sizes
    BY <2>1 DEF InChunk
  <2>3. Before(b[k], s[i])
    BY <1>2, <1>6 DEF Ahead, k
  <2>4. s[i].part <= s[i].size /\ s[i].message <= n
    BY <1>6 DEF Fresh
  <2> QED
    BY <1>1, <1>3, <1>4, <1>5, <2>2, <2>3, <2>4 DEF Before, Sizes
<1>7. Fresh(q, m, n) /\ Fresh(a, m, n)
  BY <1>6 DEF Arranged
<1> QED
  BY <1>3, <1>7, EmptyArranged, EmptyAhead DEF Arranged, m
----------------------------------------------------------------------------
(* The write queue.                                                          *)

Linked(s) == \A i \in 1..(Len(s) - 1) : Follows(s[i], s[i + 1])
EndsWhole(s) == s # <<>> => s[Len(s)].part = s[Len(s)].size

(* What may follow the chunk written last on this connection. *)
Joins(c, s) ==
  c # NoChunk => IF s = <<>> THEN c.part = c.size ELSE Follows(c, s[1])

LEMMA WritesMeaning ==
  /\ WritesInOrder <=> Linked(writeQueue) /\ Joins(onAir, writeQueue)
  /\ WrittenWhole <=> EndsWhole(writeQueue)
BY DEF WritesInOrder, WrittenWhole, Linked, EndsWhole, Joins

LEMMA ChunkFacts ==
  ASSUME NEW m \in Nat \ {0}, NEW k \in Sizes
  PROVE  /\ Chunks(m, k) \in Seq(OutChunk) /\ Len(Chunks(m, k)) = k /\ k \in Nat \ {0}
         /\ Chunks(m, k)[1].part = 1
         /\ Linked(Chunks(m, k)) /\ EndsWhole(Chunks(m, k))
<1> DEFINE c == Chunks(m, k)
<1>1. k \in Nat \ {0} /\ 1..k \subseteq Sizes
  BY DEF Sizes
<1>2. c = [i \in 1..k |-> [message |-> m, part |-> i, size |-> k]]
  BY DEF Chunks
<1>3. \A i \in 1..k : [message |-> m, part |-> i, size |-> k] \in OutChunk
  BY <1>1 DEF OutChunk
<1> HIDE DEF c
<1>4. c \in [1..k -> OutChunk]
  BY <1>2, <1>3
<1>5. c \in Seq(OutChunk) /\ Len(c) = k
  BY <1>1, <1>4
<1>6. \A i \in 1..k : c[i].message = m /\ c[i].part = i /\ c[i].size = k
  BY <1>2
<1>7. Linked(c) /\ EndsWhole(c) /\ c[1].part = 1
  BY <1>1, <1>5, <1>6 DEF Linked, EndsWhole, Follows
<1> QED
  BY <1>1, <1>5, <1>7 DEF c

LEMMA WholeAppended ==
  ASSUME NEW S, NEW s \in Seq(S), NEW t \in Seq(S), t # <<>>, t[1].part = 1,
         Linked(s), EndsWhole(s), Linked(t), EndsWhole(t),
         NEW c, Joins(c, s)
  PROVE  /\ s \o t \in Seq(S)
         /\ Linked(s \o t) /\ EndsWhole(s \o t) /\ Joins(c, s \o t)
<1> DEFINE u == s \o t
           k == Len(s)
           l == Len(t)
<1>1. /\ u \in Seq(S) /\ Len(u) = k + l /\ k \in Nat /\ l \in Nat \ {0}
      /\ \A i \in 1..k : u[i] = s[i]
      /\ \A i \in 1..l : u[k + i] = t[i]
      /\ k = 0 <=> s = <<>>
  OBVIOUS
<1> HIDE DEF u, k, l
<1>2. u # <<>>
  BY <1>1
<1>3. EndsWhole(u)
  <2>1. u[k + l] = t[l]
    BY <1>1
  <2> QED
    BY <1>1, <2>1 DEF EndsWhole, l
<1>4. Linked(u)
  <2> SUFFICES ASSUME NEW i \in 1..(k + l - 1)
               PROVE  Follows(u[i], u[i + 1])
    BY <1>1 DEF Linked
  <2>1. CASE i < k
    <3>1. i \in 1..(k - 1) /\ i \in 1..k /\ i + 1 \in 1..k
      BY <1>1, <2>1
    <3> QED
      BY <1>1, <3>1 DEF Linked, k
  <2>2. CASE i = k
    <3>1. u[i] = s[k] /\ u[i + 1] = t[1] /\ s # <<>>
      BY <1>1, <2>2
    <3>2. s[k].part = s[k].size
      BY <3>1 DEF EndsWhole, k
    <3> QED
      BY <3>1, <3>2 DEF Follows
  <2>3. CASE k < i
    <3> DEFINE j == i - k
    <3>1. j \in 1..(l - 1) /\ j \in 1..l /\ j + 1 \in 1..l /\ i = k + j /\ i + 1 = k + (j + 1)
      BY <1>1, <2>3
    <3>2. u[i] = t[j] /\ u[i + 1] = t[j + 1]
      BY <1>1, <3>1
    <3> QED
      BY <3>1, <3>2 DEF Linked, l
  <2> QED
    BY <1>1, <2>1, <2>2, <2>3
<1>5. Joins(c, u)
  <2>1. CASE s = <<>>
    <3>1. u[1] = t[1]
      <4>1. u[k + 1] = t[1] /\ k = 0
        BY <1>1, <2>1
      <4> QED
        BY <4>1
    <3> QED
      BY <1>2, <2>1, <3>1 DEF Joins, Follows
  <2>2. CASE s # <<>>
    <3>1. u[1] = s[1]
      BY <1>1, <2>2
    <3> QED
      BY <1>2, <2>2, <3>1 DEF Joins
  <2> QED
    BY <2>1, <2>2
<1> QED
  BY <1>1, <1>3, <1>4, <1>5 DEF u

LEMMA FrontWritten ==
  ASSUME NEW s \in Seq(OutChunk), s # <<>>, Linked(s), EndsWhole(s)
  PROVE  /\ Tail(s) \in Seq(OutChunk) /\ Head(s) \in OutChunk
         /\ Linked(Tail(s)) /\ EndsWhole(Tail(s)) /\ Joins(Head(s), Tail(s))
<1> DEFINE t == Tail(s)
<1>1. /\ Head(s) \in OutChunk /\ Head(s) = s[1]
      /\ t \in Seq(OutChunk) /\ Len(t) = Len(s) - 1 /\ Len(s) \in Nat \ {0}
      /\ \A i \in 1..Len(t) : t[i] = s[i + 1]
  BY TailFacts
<1> HIDE DEF t
<1>0. t = <<>> <=> Len(t) = 0
  BY <1>1
<1>2. Linked(t)
  <2> SUFFICES ASSUME NEW i \in 1..(Len(t) - 1)
               PROVE  Follows(t[i], t[i + 1])
    BY DEF Linked
  <2>1. i \in 1..Len(t) /\ i + 1 \in 1..Len(t) /\ i + 1 \in 1..(Len(s) - 1)
    BY <1>1
  <2>2. t[i] = s[i + 1] /\ t[i + 1] = s[(i + 1) + 1]
    BY <1>1, <2>1
  <2> QED
    BY <2>1, <2>2 DEF Linked
<1>3. EndsWhole(t)
  <2> SUFFICES ASSUME t # <<>>
               PROVE  t[Len(t)].part = t[Len(t)].size
    BY DEF EndsWhole
  <2>1. Len(t) \in 1..Len(t) /\ t[Len(t)] = s[Len(s)]
    BY <1>1, <1>0
  <2> QED
    BY <2>1 DEF EndsWhole
<1>4. Joins(Head(s), t)
  <2>1. CASE t = <<>>
    <3>1. Len(s) = 1
      BY <1>1, <1>0, <2>1
    <3> QED
      BY <1>1, <2>1, <3>1 DEF Joins, EndsWhole
  <2>2. CASE t # <<>>
    <3>1. 1 \in 1..(Len(s) - 1) /\ 1 \in 1..Len(t)
      BY <1>1, <1>0, <2>2
    <3>2. Follows(s[1], s[2]) /\ t[1] = s[2]
      BY <1>1, <3>1 DEF Linked
    <3> QED
      BY <1>1, <2>2, <3>2 DEF Joins
  <2> QED
    BY <2>1, <2>2
<1> QED
  BY <1>1, <1>2, <1>3, <1>4 DEF t

----------------------------------------------------------------------------
(* The steps.                                                                *)

LEMMA ReadingUntouched ==
  ASSUME IInv, UNCHANGED <<air, readQueue, readBuffer, responses, offered, latest>>
  PROVE  OneAnswer' /\ OnlyNewer' /\ NewIsNewer' /\ InOrder'
BY DEF IInv, OneAnswer, OnlyNewer, NewIsNewer, InOrder, Done

LEMMA WritingUntouched ==
  ASSUME IInv, UNCHANGED <<writeQueue, onAir>>
  PROVE  WrittenWhole' /\ WritesInOrder'
BY DEF IInv, WrittenWhole, WritesInOrder

LEMMA WritingMeaning ==
  /\ Linked(writeQueue') /\ EndsWhole(writeQueue') => WrittenWhole'
  /\ Linked(writeQueue') /\ Joins(onAir', writeQueue') => WritesInOrder'
BY DEF WritesInOrder, WrittenWhole, Linked, EndsWhole, Joins

(* No answer waits outside process_response_queue. *)
LEMMA NoAnswer ==
  ASSUME IInv, phase # "respond"
  PROVE  responses = <<>> /\ Done = latest /\ DropFirst(responses) = <<>>
BY DEF IInv, NothingToTidy, Done, DropFirst

(* A state without an answer needs no more than its chunks in order. *)
LEMMA QuietReading ==
  ASSUME responses' = <<>>, latest' <= offered', latest' \in Nat,
         Arranged(readBuffer', readQueue', air', latest', offered')
  PROVE  OneAnswer' /\ OnlyNewer' /\ NewIsNewer' /\ InOrder' /\ NothingToTidy'
<1>1. (Done = latest)'
  BY DEF Done
<1> QED
  BY <1>1 DEF OneAnswer, OnlyNewer, NewIsNewer, InOrder, NothingToTidy

LEMMA InitOK == Init => IInv
<1> SUFFICES ASSUME Init
             PROVE  IInv
  OBVIOUS
<1> USE DEF Init
<1>1. TypeOK
  BY DEF TypeOK
<1>2. Done = 0
  BY DEF Done
<1>3. NothingToTidy /\ OneAnswer /\ OnlyNewer /\ NewIsNewer
  BY <1>2 DEF NothingToTidy, OneAnswer, OnlyNewer, NewIsNewer
<1>4. InOrder
  BY EmptyArranged, EmptyAhead DEF InOrder, Arranged
<1>5. WrittenWhole /\ WritesInOrder
  BY DEF WrittenWhole, WritesInOrder
<1> QED
  BY <1>1, <1>3, <1>4, <1>5 DEF IInv

LEMMA ReadStep ==
  ASSUME IInv, process_ble_read_queue
  PROVE  IInv'
<1> USE DEF process_ble_read_queue, readVars, writeVars
<1>1. TypeOK
  BY DEF IInv
<1>2. responses = <<>> /\ Done = latest
  BY NoAnswer
<1>3. Arranged(readBuffer, readQueue, air, latest, offered) /\ latest <= offered
  BY <1>2 DEF IInv, InOrder, OnlyNewer
<1>4. WrittenWhole' /\ WritesInOrder'
  BY WritingUntouched
<1>5. CASE NoChunkToRead
  <2>1. TypeOK' /\ NothingToTidy'
    BY <1>1, <1>2, <1>5 DEF TypeOK, NothingToTidy, NoChunkToRead
  <2> QED
    BY <1>4, <1>5, <2>1, ReadingUntouched DEF IInv, NoChunkToRead
<1>6. CASE Overflow
  <2>1. TypeOK'
    BY <1>1, <1>6 DEF TypeOK, Overflow, ClearedWhenFull
  <2>2. Arranged(readBuffer', readQueue', air', latest', offered')
    BY <1>3, <1>6, Cleared DEF Overflow, ClearedWhenFull
  <2>3. responses' = <<>> /\ latest' <= offered' /\ latest' \in Nat
    BY <1>1, <1>2, <1>3, <1>6 DEF Overflow, TypeOK
  <2> QED
    BY <1>4, <2>1, <2>2, <2>3, QuietReading DEF IInv
<1>7. CASE Collect
  <2>1. readQueue \in Seq(InChunk) /\ readBuffer \in Seq(InChunk) /\ air \in Seq(InChunk)
    BY <1>1 DEF TypeOK
  <2>2. Appended \in Seq(InChunk) /\ Len(Appended) = Len(readBuffer) + 1 /\ Tail(readQueue) \in Seq(InChunk)
    BY <1>7, <2>1, TailFacts, AppendFacts DEF Collect, Appended
  <2>3. Len(Appended) <= BufferParts /\ Appended # <<>>
    BY <1>7, <2>1, <2>2 DEF Collect, HasRoom
  <2>4. Arranged(Appended, readQueue', air', latest, offered)
    BY <1>3, <1>7, <2>1, Buffered DEF Collect, Appended
  <2>5. readQueue' \in Seq(InChunk)
    BY <1>7, <2>2 DEF Collect
  <2>6. CASE ~Complete(Appended)
    <3>1. readBuffer' = Appended /\ responses' = <<>>
      BY <1>2, <1>7, <2>6 DEF Collect
    <3>2. TypeOK'
      BY <1>1, <1>2, <2>2, <2>3, <2>5, <3>1 DEF TypeOK
    <3>3. latest' <= offered' /\ latest' \in Nat
      BY <1>1, <1>3 DEF TypeOK
    <3> QED
      BY <1>4, <2>4, <3>1, <3>2, <3>3, QuietReading DEF IInv
  <2>7. CASE Complete(Appended)
    <3>1. readBuffer' = <<>>
      BY <1>7, <2>7 DEF Collect
    <3>2. PICK parsed \in Parsed(Appended) : responses' = <<>> \o parsed
      BY <1>2, <1>7, <2>7 DEF Collect
    <3>3. CASE Whole(Appended)
      <4> DEFINE m == Head(Appended).message
      <4>1. /\ m \in Nat \ {0} /\ latest < m /\ m <= offered
            /\ Arranged(<<>>, readQueue', air', m, offered)
        BY <1>1, <2>1, <2>2, <2>3, <2>4, <2>5, <3>3, Taken DEF TypeOK
      <4> HIDE DEF m
      <4>2. parsed = <<m>>
        BY <3>2, <3>3 DEF Parsed, m
      <4>3. responses' = <<m>>
        BY <3>2, <4>1, <4>2
      <4>4. Done' = m /\ Head(responses') = m /\ responses' # <<>> /\ Len(responses') = 1
        <5>1. Head(<<m>>) = m /\ <<m>> # <<>> /\ Len(<<m>>) = 1
          OBVIOUS
        <5>2. Head(responses') = m /\ responses' # <<>> /\ Len(responses') = 1
          BY <4>3, <5>1
        <5>3. m # Garbled
          BY <4>1 DEF Garbled
        <5>4. Done' = Head(responses')
          BY <5>2, <5>3 DEF Done
        <5> QED
          BY <5>2, <5>4
      <4>5. responses' \in Seq(Nat)
        BY <4>1, <4>3
      <4>6. TypeOK'
        BY <1>1, <2>5, <3>1, <4>5 DEF TypeOK
      <4>7. OneAnswer' /\ OnlyNewer' /\ NewIsNewer' /\ NothingToTidy'
        <5>1. latest \in Nat /\ offered \in Nat
          BY <1>1 DEF TypeOK
        <5> QED
          BY <4>1, <4>4, <5>1 DEF OneAnswer, OnlyNewer, NewIsNewer, NothingToTidy
      <4>8. InOrder'
        BY <3>1, <4>1, <4>4 DEF InOrder
      <4> QED
        BY <1>4, <4>6, <4>7, <4>8 DEF IInv
    <3>4. CASE ~Whole(Appended)
      <4>1. responses' = <<>> \/ responses' = <<Garbled>>
        BY <3>2, <3>4 DEF Parsed, Garbled
      <4>2. responses' \in Seq(Nat) /\ Len(responses') <= 1
        <5>1. <<Garbled>> \in Seq(Nat) /\ Len(<<Garbled>>) = 1
          BY DEF Garbled
        <5>2. <<>> \in Seq(Nat) /\ Len(<<>>) <= 1
          OBVIOUS
        <5>3. CASE responses' = <<>>
          BY <5>2, <5>3
        <5>4. CASE responses' = <<Garbled>>
          BY <5>1, <5>4
        <5> QED
          BY <4>1, <5>3, <5>4
      <4>3. responses' = <<>> \/ Head(responses') = Garbled
        BY <4>1
      <4>4. Done' = latest'
        BY <4>3 DEF Done
      <4>5. TypeOK'
        BY <1>1, <2>5, <3>1, <4>2 DEF TypeOK
      <4>6. OneAnswer' /\ OnlyNewer' /\ NewIsNewer' /\ NothingToTidy'
        BY <1>1, <1>3, <4>2, <4>3, <4>4 DEF OneAnswer, OnlyNewer, NewIsNewer, NothingToTidy, TypeOK
      <4>7. InOrder'
        BY <2>4, <3>1, <4>4, Cleared DEF InOrder
      <4> QED
        BY <1>4, <4>5, <4>6, <4>7 DEF IInv
    <3> QED
      BY <3>3, <3>4
  <2> QED
    BY <2>6, <2>7
<1> QED
  BY <1>5, <1>6, <1>7

LEMMA ResponseStep ==
  ASSUME IInv, process_response_queue
  PROVE  IInv'
<1> USE DEF process_response_queue, writeVars
<1>1. TypeOK /\ OneAnswer /\ OnlyNewer /\ NewIsNewer /\ InOrder
  BY DEF IInv
<1>2. WrittenWhole' /\ WritesInOrder'
  BY WritingUntouched
<1>3. responses' = <<>>
  <2>1. CASE responses = <<>>
    BY <2>1
  <2>2. CASE responses # <<>>
    <3>1. Len(Tail(responses)) = 0 /\ Tail(responses) \in Seq(Nat)
      <4>1. responses \in Seq(Nat) /\ Len(responses) <= 1
        BY <1>1 DEF TypeOK, OneAnswer
      <4>2. Tail(responses) \in Seq(Nat) /\ Len(Tail(responses)) = Len(responses) - 1
        BY <2>2, <4>1, TailFacts
      <4>3. Len(responses) \in Nat /\ Len(Tail(responses)) \in Nat
        BY <4>1, <4>2
      <4> QED
        BY <4>1, <4>2, <4>3
    <3>2. Tail(responses) = <<>>
      BY <3>1, NothingLeft
    <3> QED
      BY <2>2, <3>2 DEF AfterTaking, TidyUp, DropFirst
  <2> QED
    BY <2>1, <2>2
<1>4. latest' = Done /\ latest' \in Nat
  <2>1. CASE responses = <<>>
    BY <1>1, <2>1 DEF Done, TypeOK
  <2>2. CASE responses # <<>> /\ Head(responses) = Garbled
    BY <1>1, <2>2 DEF Done, TypeOK
  <2>3. CASE responses # <<>> /\ Head(responses) # Garbled
    <3>1. Head(responses) \in Nat
      BY <1>1, <2>3 DEF TypeOK
    <3> QED
      BY <2>3, <3>1 DEF Done
  <2> QED
    BY <2>1, <2>2, <2>3
<1>5. readBuffer' = readBuffer \/ readBuffer' = <<>>
  BY DEF TidyUp
<1>6. Arranged(readBuffer', readQueue', air', latest', offered') /\ latest' <= offered'
  BY <1>1, <1>4, <1>5, Cleared DEF InOrder, OnlyNewer
<1>7. TypeOK'
  <2>1. arrivals' \in Nat /\ waiting' \in Nat
    BY <1>1 DEF TypeOK, TidyUp
  <2>2. readBuffer' \in Seq(InChunk) /\ Len(readBuffer') <= BufferParts
    BY <1>1, <1>5, EmptyFits DEF TypeOK
  <2> QED
    BY <1>1, <1>3, <1>4, <2>1, <2>2 DEF TypeOK
<1> QED
  BY <1>2, <1>3, <1>4, <1>6, <1>7, QuietReading DEF IInv

(* The buffer is cleared or left alone, and no answer waits. *)
LEMMA ClearingStep ==
  ASSUME IInv, phase # "respond", responses' = <<>>,
         readBuffer' = readBuffer \/ readBuffer' = <<>>,
         UNCHANGED <<air, readQueue, offered, latest>>
  PROVE  /\ OneAnswer' /\ OnlyNewer' /\ NewIsNewer' /\ InOrder' /\ NothingToTidy'
         /\ readBuffer' \in Seq(InChunk) /\ Len(readBuffer') <= BufferParts
<1>1. TypeOK /\ InOrder /\ OnlyNewer /\ Done = latest
  BY NoAnswer DEF IInv
<1>2. Arranged(readBuffer', readQueue', air', latest', offered') /\ latest' <= offered'
  BY <1>1, Cleared DEF InOrder, OnlyNewer
<1>3. latest' \in Nat
  BY <1>1 DEF TypeOK
<1>4. readBuffer' \in Seq(InChunk) /\ Len(readBuffer') <= BufferParts
  BY <1>1, EmptyFits DEF TypeOK
<1> QED
  BY <1>2, <1>3, <1>4, QuietReading

LEMMA WriteBLEStep ==
  ASSUME IInv, writeBLE
  PROVE  /\ WrittenWhole' /\ WritesInOrder'
         /\ writeQueue' \in Seq(OutChunk) /\ sent' \in Nat /\ onAir' = onAir
<1>1. /\ writeQueue \in Seq(OutChunk) /\ sent \in Nat
      /\ Linked(writeQueue) /\ Joins(onAir, writeQueue) /\ EndsWhole(writeQueue)
  BY WritesMeaning DEF IInv, TypeOK
<1>2. PICK n \in Sizes : writeQueue' = writeQueue \o Chunks(sent + 1, n)
  BY DEF writeBLE
<1>3. sent + 1 \in Nat \ {0} /\ sent' = sent + 1 /\ onAir' = onAir
  BY <1>1 DEF writeBLE
<1> DEFINE c == Chunks(sent + 1, n)
<1>4. /\ c \in Seq(OutChunk) /\ Len(c) = n /\ n \in Nat \ {0} /\ c[1].part = 1
      /\ Linked(c) /\ EndsWhole(c)
  BY <1>3, ChunkFacts
<1> HIDE DEF c
<1>5. c # <<>>
  BY <1>4
<1>6. /\ writeQueue' \in Seq(OutChunk)
      /\ Linked(writeQueue') /\ EndsWhole(writeQueue') /\ Joins(onAir, writeQueue')
  BY <1>1, <1>2, <1>4, <1>5, WholeAppended DEF c
<1> QED
  BY <1>1, <1>3, <1>6, WritingMeaning

LEMMA CommandStep ==
  ASSUME IInv, process_command_queue
  PROVE  IInv'
<1> USE DEF process_command_queue, writeVars
<1>1. TypeOK
  BY DEF IInv
<1>2. responses = <<>> /\ DropFirst(responses) = <<>>
  BY NoAnswer
<1>3. responses' = <<>> /\ (readBuffer' = readBuffer \/ readBuffer' = <<>>)
  BY <1>2 DEF TidyUp
<1>4. /\ OneAnswer' /\ OnlyNewer' /\ NewIsNewer' /\ InOrder' /\ NothingToTidy'
      /\ readBuffer' \in Seq(InChunk) /\ Len(readBuffer') <= BufferParts
  BY <1>3, ClearingStep
<1>5. waiting' \in Nat
  BY <1>1 DEF TypeOK, TidyUp
<1>6. /\ WrittenWhole' /\ WritesInOrder'
      /\ writeQueue' \in Seq(OutChunk) /\ sent' \in Nat /\ onAir' = onAir
  <2>1. CASE writeBLE
    BY <2>1, WriteBLEStep
  <2>2. CASE UNCHANGED writeVars
    BY <1>1, <2>2, WritingUntouched DEF TypeOK
  <2> QED
    BY <2>1, <2>2
<1>7. TypeOK'
  BY <1>1, <1>3, <1>4, <1>5, <1>6 DEF TypeOK
<1> QED
  BY <1>4, <1>6, <1>7 DEF IInv

LEMMA WriteStep ==
  ASSUME IInv, process_ble_write_queue
  PROVE  IInv'
<1> USE DEF process_ble_write_queue, readVars
<1>1. TypeOK /\ WrittenWhole /\ WritesInOrder
  BY DEF IInv
<1>2. OneAnswer' /\ OnlyNewer' /\ NewIsNewer' /\ InOrder'
  BY ReadingUntouched
<1>3. NothingToTidy'
  BY NoAnswer DEF NothingToTidy
<1>4. /\ WrittenWhole' /\ WritesInOrder'
      /\ writeQueue' \in Seq(OutChunk) /\ onAir' \in OutChunk \cup {NoChunk}
  <2>1. CASE UNCHANGED <<writeQueue, onAir>>
    BY <1>1, <2>1, WritingUntouched DEF TypeOK
  <2>2. CASE writeQueue # <<>> /\ onAir' = Head(writeQueue) /\ writeQueue' = Tail(writeQueue)
    <3>1. writeQueue \in Seq(OutChunk) /\ Linked(writeQueue) /\ EndsWhole(writeQueue)
      BY <1>1, WritesMeaning DEF TypeOK
    <3> QED
      BY <2>2, <3>1, FrontWritten, WritingMeaning
  <2> QED
    BY <2>1, <2>2 DEF AfterRefusedWrite
<1>5. TypeOK'
  BY <1>1, <1>4 DEF TypeOK
<1> QED
  BY <1>2, <1>3, <1>4, <1>5 DEF IInv

LEMMA DisconnectedLoopStep ==
  ASSUME IInv, LoopDisconnected
  PROVE  IInv'
<1> USE DEF LoopDisconnected, writeVars
<1>1. TypeOK
  BY DEF IInv
<1>2. responses' = <<>> /\ readBuffer' = <<>>
  BY NoAnswer DEF TidyUp
<1>3. /\ OneAnswer' /\ OnlyNewer' /\ NewIsNewer' /\ InOrder' /\ NothingToTidy'
      /\ readBuffer' \in Seq(InChunk) /\ Len(readBuffer') <= BufferParts
  BY <1>2, ClearingStep
<1>4. WrittenWhole' /\ WritesInOrder'
  BY WritingUntouched
<1>5. waiting' \in Nat
  BY <1>1 DEF TypeOK, TidyUp
<1>6. TypeOK'
  BY <1>1, <1>2, <1>3, <1>5 DEF TypeOK
<1> QED
  BY <1>3, <1>4, <1>6 DEF IInv

LEMMA OfferStep ==
  ASSUME IInv, Offer
  PROVE  IInv'
<1> USE DEF Offer, BetweenLoops, writeVars
<1>1. TypeOK
  BY DEF IInv
<1>2. responses = <<>> /\ Done = latest
  BY NoAnswer
<1>3. Arranged(readBuffer, readQueue, <<>>, latest, offered) /\ latest <= offered
  BY <1>2 DEF IInv, InOrder, OnlyNewer
<1>4. PICK k \in Sizes : \E headers \in [1..k -> Headers] : air' = Notifications(offered + 1, headers)
  OBVIOUS
<1>5. PICK headers \in [1..k -> Headers] : air' = Notifications(offered + 1, headers)
  BY <1>4
<1>6. /\ readBuffer \in Seq(InChunk) /\ readQueue \in Seq(InChunk)
      /\ latest \in Nat /\ offered \in Nat /\ offered + 1 \in Nat \ {0}
  BY <1>1 DEF TypeOK
<1>7. air' \in Seq(InChunk)
  BY <1>5, <1>6, NotificationFacts
<1>8. Arranged(readBuffer', readQueue', air', latest', offered')
  BY <1>3, <1>5, <1>6, Offered
<1>9. responses' = <<>> /\ latest' <= offered' /\ latest' \in Nat
  BY <1>2, <1>3, <1>6
<1>10. TypeOK'
  BY <1>1, <1>6, <1>7 DEF TypeOK
<1>11. WrittenWhole' /\ WritesInOrder'
  BY WritingUntouched
<1> QED
  BY <1>8, <1>9, <1>10, <1>11, QuietReading DEF IInv

LEMMA NotifyStep ==
  ASSUME IInv, Notify
  PROVE  IInv'
<1> USE DEF Notify, BetweenLoops, writeVars
<1>1. TypeOK
  BY DEF IInv
<1>2. responses = <<>> /\ Done = latest
  BY NoAnswer
<1>3. Arranged(readBuffer, readQueue, air, latest, offered) /\ latest <= offered
  BY <1>2 DEF IInv, InOrder, OnlyNewer
<1>4. /\ readBuffer \in Seq(InChunk) /\ readQueue \in Seq(InChunk) /\ air \in Seq(InChunk)
      /\ latest \in Nat /\ offered \in Nat
  BY <1>1 DEF TypeOK
<1>5. air' \in Seq(InChunk) /\ readQueue' \in Seq(InChunk)
  BY <1>4, TailFacts, AppendFacts
<1>6. Arranged(readBuffer', readQueue', air', latest', offered')
  BY <1>3, <1>4, Queued
<1>7. responses' = <<>> /\ latest' <= offered' /\ latest' \in Nat
  BY <1>2, <1>3, <1>4
<1>8. TypeOK'
  BY <1>1, <1>5 DEF TypeOK
<1>9. WrittenWhole' /\ WritesInOrder'
  BY WritingUntouched
<1> QED
  BY <1>6, <1>7, <1>8, <1>9, QuietReading DEF IInv

LEMMA EnqueueStep ==
  ASSUME IInv, Enqueue \/ Established
  PROVE  IInv'
<1> USE DEF Enqueue, Established, BetweenLoops, readVars, writeVars
<1>1. TypeOK'
  BY DEF IInv, TypeOK
<1>2. NothingToTidy'
  BY NoAnswer DEF NothingToTidy
<1> QED
  BY <1>1, <1>2, ReadingUntouched, WritingUntouched DEF IInv

LEMMA SendStep ==
  ASSUME IInv, SendDirectly
  PROVE  IInv'
<1> USE DEF SendDirectly, BetweenLoops, readVars
<1>1. /\ WrittenWhole' /\ WritesInOrder'
      /\ writeQueue' \in Seq(OutChunk) /\ sent' \in Nat /\ onAir' = onAir
  BY WriteBLEStep
<1>2. TypeOK'
  BY <1>1 DEF IInv, TypeOK
<1>3. NothingToTidy'
  BY NoAnswer DEF NothingToTidy
<1> QED
  BY <1>1, <1>2, <1>3, ReadingUntouched DEF IInv

LEMMA DisconnectedStep ==
  ASSUME IInv, Disconnected
  PROVE  IInv'
<1> USE DEF Disconnected, BetweenLoops
<1>1. TypeOK
  BY DEF IInv
<1>2. responses = <<>> /\ Done = latest
  BY NoAnswer
<1>3. Arranged(readBuffer', readQueue', air', latest', offered')
  BY <1>2, Cut DEF IInv, InOrder
<1>4. responses' = <<>> /\ latest' <= offered' /\ latest' \in Nat
  BY <1>1, <1>2 DEF IInv, OnlyNewer, TypeOK
<1>5. TypeOK'
  BY <1>1 DEF TypeOK
<1>6. WrittenWhole' /\ WritesInOrder'
  BY DEF IInv, WrittenWhole, WritesInOrder
<1> QED
  BY <1>3, <1>4, <1>5, <1>6, QuietReading DEF IInv

LEMMA StepOK == IInv /\ [Next]_vars => IInv'
<1> SUFFICES ASSUME IInv, [Next]_vars
             PROVE  IInv'
  OBVIOUS
<1>1. CASE Loop
  BY <1>1, ReadStep, ResponseStep, CommandStep, WriteStep, DisconnectedLoopStep DEF Loop
<1>2. CASE Offer \/ Notify \/ Enqueue \/ SendDirectly \/ Established \/ Disconnected
  BY <1>2, OfferStep, NotifyStep, EnqueueStep, SendStep, DisconnectedStep
<1>3. CASE UNCHANGED vars
  <2>1. TypeOK' /\ NothingToTidy'
    BY <1>3 DEF IInv, TypeOK, NothingToTidy, vars
  <2> QED
    BY <1>3, <2>1, ReadingUntouched, WritingUntouched DEF IInv, vars
<1> QED
  BY <1>1, <1>2, <1>3 DEF Next

LEMMA Invariance == Spec => []IInv
BY InitOK, StepOK, PTL DEF Spec

(* Queues, buffer and messages stay well formed, and the buffer within its size     *)
(* (cpp:526-617).                                                             *)
THEOREM TypesKept == Spec => []TypeOK
<1>1. IInv => TypeOK
  BY DEF IInv
<1> QED
  BY <1>1, Invariance, PTL

(* Tidying up after a command never finds an answer to throw away (.h:341).        *)
THEOREM TidyingIsIdle == Spec => []NothingToTidy
<1>1. IInv => NothingToTidy
  BY DEF IInv
<1> QED
  BY <1>1, Invariance, PTL

(* Refused writes and lost connections tear at most the first message of the write  *)
(* queue (cpp:526-545, 1506-1525).                                              *)
THEOREM WritesKeepOrder == Spec => []WritesInOrder
<1>1. IInv => WritesInOrder
  BY DEF IInv
<1> QED
  BY <1>1, Invariance, PTL

----------------------------------------------------------------------------
(* Only a torn message is lost.                                              *)

(* The first chunk of a message announces how many there are. *)
Announcing(s) == \A i \in 1..Len(s) : s[i].part = 1 => s[i].header = s[i].size

(* The first k chunks of one message, k being as many as there are. *)
Begun(s) ==
  \A i \in 1..Len(s) : s[i].message = s[1].message /\ s[i].part = i /\ s[i].size = s[1].size

(* A buffer is parsed as soon as it is complete, and while its chunks follow one    *)
(* another from the first of a message they are that message's.                   *)
Announced == Announcing(readBuffer) /\ Announcing(readQueue) /\ Announcing(air)
Incomplete == readBuffer # <<>> => Len(readBuffer) < readBuffer[1].header
BeginsOne ==
  readBuffer # <<>> /\ readBuffer[1].part = 1 /\ Linked(readBuffer) => Begun(readBuffer)

Collecting == Announced /\ Incomplete /\ BeginsOne

LEMMA Elements ==
  ASSUME NEW s \in Seq(InChunk)
  PROVE  \A i \in 1..Len(s) :
           /\ s[i] \in InChunk
           /\ s[i].message \in Nat \ {0} /\ s[i].part \in Sizes /\ s[i].size \in Sizes
<1> TAKE i \in 1..Len(s)
<1>1. s[i] \in InChunk
  OBVIOUS
<1> QED
  BY <1>1 DEF InChunk

LEMMA HeadAnnounces ==
  ASSUME NEW s \in Seq(InChunk), s # <<>>, Announcing(s)
  PROVE  Announcing(Tail(s)) /\ (Head(s).part = 1 => Head(s).header = Head(s).size)
BY TailFacts DEF Announcing

LEMMA AppendAnnounces ==
  ASSUME NEW s \in Seq(InChunk), Announcing(s),
         NEW e \in InChunk, e.part = 1 => e.header = e.size
  PROVE  Announcing(Append(s, e))
<1>1. /\ Len(Append(s, e)) = Len(s) + 1 /\ Len(s) \in Nat
      /\ \A i \in 1..Len(s) : Append(s, e)[i] = s[i]
      /\ Append(s, e)[Len(s) + 1] = e
      /\ \A i \in 1..(Len(s) + 1) : i \in 1..Len(s) \/ i = Len(s) + 1
  BY AppendFacts
<1> QED
  BY <1>1 DEF Announcing

LEMMA EmptyAnnounces == Announcing(<<>>)
BY DEF Announcing

(* A chunk joins a buffer that has begun one message. *)
LEMMA OneMore ==
  ASSUME NEW b \in Seq(InChunk), NEW e \in InChunk,
         b # <<>> /\ b[1].part = 1 /\ Linked(b) => Begun(b),
         b # <<>> => Len(b) < b[1].header,
         Announcing(b),
         Sorted(Append(b, e)),
         Append(b, e)[1].part = 1, Linked(Append(b, e))
  PROVE  Begun(Append(b, e))
<1> DEFINE u == Append(b, e)
           k == Len(b)
<1>1. /\ u \in Seq(InChunk) /\ Len(u) = k + 1 /\ k \in Nat
      /\ \A i \in 1..k : u[i] = b[i]
      /\ u[k + 1] = e
      /\ \A i \in 1..(k + 1) : i \in 1..k \/ i = k + 1
  BY AppendFacts
<1>2. k = 0 <=> b = <<>>
  OBVIOUS
<1>3. Linked(u) /\ u[1].part = 1 /\ Sorted(u)
  OBVIOUS
<1>4. \A i \in 1..k : b[i].message \in Nat /\ b[i].part \in Sizes /\ b[i].size \in Sizes
  BY Elements
<1>5. b # <<>> => k < b[1].header
  OBVIOUS
<1> HIDE DEF u, k
<1>6. CASE b = <<>>
  <2>1. Len(u) = 1 /\ k = 0
    BY <1>1, <1>2, <1>6
  <2>2. \A i \in 1..Len(u) : i = 1
    BY <2>1
  <2> QED
    BY <1>3, <2>2 DEF Begun, u
<1>7. CASE b # <<>>
  <2>1. k \in 1..k /\ 1 \in 1..k /\ k \in 1..(Len(u) - 1) /\ k + 1 \in 1..Len(u) /\ k < k + 1
    BY <1>1, <1>2, <1>7
  <2>2. b[1].part = 1 /\ b[1].header = b[1].size
    BY <1>1, <1>3, <2>1 DEF Announcing, k
  <2>3. Linked(b)
    <3> SUFFICES ASSUME NEW i \in 1..(k - 1) PROVE Follows(b[i], b[i + 1])
      BY DEF Linked, k
    <3>1. i \in 1..k /\ i + 1 \in 1..k /\ i \in 1..(Len(u) - 1)
      BY <1>1
    <3> QED
      BY <1>1, <1>3, <3>1 DEF Linked
  <2>4. Begun(b)
    BY <1>7, <2>2, <2>3
  <2>5. \A i \in 1..k : b[i].message = b[1].message /\ b[i].part = i /\ b[i].size = b[1].size
    BY <2>4 DEF Begun, k
  <2>6. b[k].part = k /\ b[k].size = b[1].size /\ b[k].message = b[1].message /\ k < b[1].size
    BY <1>5, <1>7, <2>1, <2>2, <2>5
  <2>7. b[k].part # b[k].size
    BY <1>1, <1>4, <2>1, <2>6 DEF Sizes
  <2>8. Follows(u[k], u[k + 1])
    BY <1>3, <2>1 DEF Linked
  <2>9. e.message = b[k].message /\ e.part = k + 1
    BY <1>1, <2>1, <2>6, <2>7, <2>8 DEF Follows
  <2>10. Before(b[k], e)
    BY <1>1, <1>3, <2>1 DEF Sorted
  <2>11. e.size = b[k].size
    <3>1. b[k].message \in Nat
      BY <1>4, <2>1
    <3> QED
      BY <2>9, <2>10, <3>1 DEF Before
  <2>12. \A i \in 1..Len(u) :
           u[i].message = b[1].message /\ u[i].part = i /\ u[i].size = b[1].size
    <3> TAKE i \in 1..Len(u)
    <3>1. CASE i \in 1..k
      BY <1>1, <2>5, <3>1
    <3>2. CASE i = k + 1
      BY <1>1, <2>6, <2>9, <2>11, <3>2
    <3> QED
      BY <1>1, <3>1, <3>2
  <2>13. 1 \in 1..Len(u)
    BY <1>1, <2>1
  <2> QED
    BY <2>12, <2>13 DEF Begun, u
<1> QED
  BY <1>6, <1>7

LEMMA CollectingStep ==
  ASSUME IInv, Collecting, [Next]_vars
  PROVE  Collecting'
<1>1. /\ readBuffer \in Seq(InChunk) /\ readQueue \in Seq(InChunk) /\ air \in Seq(InChunk)
      /\ Sorted(readBuffer) /\ Sorted(readQueue) /\ Ahead(readBuffer, readQueue)
  BY DEF IInv, TypeOK, InOrder, Arranged
<1> USE DEF Collecting
<1>2. ASSUME readBuffer' = readBuffer \/ readBuffer' = <<>>,
             Announcing(readQueue'), Announcing(air')
      PROVE  Collecting'
  BY <1>2, EmptyAnnounces DEF Announced, Incomplete, BeginsOne
<1>3. Announcing(readQueue) /\ Announcing(air) /\ Announcing(readBuffer)
  BY DEF Announced
<1>4. CASE process_ble_read_queue
  <2>1. CASE NoChunkToRead \/ Overflow
    BY <1>2, <1>3, <1>4, <2>1 DEF process_ble_read_queue, NoChunkToRead, Overflow, ClearedWhenFull
  <2>2. CASE Collect
    <3>1. /\ readQueue # <<>> /\ readQueue' = Tail(readQueue) /\ air' = air
          /\ \/ ~Complete(Appended) /\ readBuffer' = Appended
             \/ readBuffer' = <<>>
      BY <1>4, <2>2 DEF process_ble_read_queue, Collect
    <3>2. Announcing(readQueue') /\ Announcing(air')
      BY <1>1, <1>3, <3>1, HeadAnnounces
    <3>3. CASE readBuffer' = <<>>
      BY <1>2, <3>2, <3>3
    <3>4. CASE ~Complete(Appended) /\ readBuffer' = Appended
      <4> DEFINE e == Head(readQueue)
      <4>1. e \in InChunk /\ (e.part = 1 => e.header = e.size)
        BY <1>1, <1>3, <3>1, TailFacts, HeadAnnounces
      <4>2. Announcing(Append(readBuffer, e))
        BY <1>1, <1>3, <4>1, AppendAnnounces
      <4>3. Sorted(Append(readBuffer, e))
        BY <1>1, <3>1, MovedPair DEF IInv, InOrder, Arranged
      <4>4. Append(readBuffer, e) \in Seq(InChunk) /\ Len(Append(readBuffer, e)) = Len(readBuffer) + 1
            /\ Append(readBuffer, e) # <<>>
        BY <1>1, <4>1, AppendFacts
      <4>5. readBuffer' = Append(readBuffer, e)
        BY <3>4 DEF Appended
      <4> HIDE DEF e
      <4>6. Incomplete'
        <5>1. Head(readBuffer') = readBuffer'[1] /\ Len(readBuffer') \in Nat
          BY <4>4, <4>5
        <5>2. readBuffer'[1] \in InChunk
          BY <4>4, <4>5
        <5>3. readBuffer'[1].header \in Nat
          BY <5>2, BufferAssumption DEF InChunk, Headers, TooLong
        <5> QED
          BY <3>4, <5>1, <5>3 DEF Incomplete, Complete
      <4>7. BeginsOne'
        BY <1>1, <1>3, <4>1, <4>3, <4>5, OneMore DEF Incomplete, BeginsOne
      <4> QED
        BY <3>2, <4>2, <4>5, <4>6, <4>7 DEF Announced
    <3> QED
      BY <3>1, <3>3, <3>4
  <2> QED
    BY <1>4, <2>1, <2>2 DEF process_ble_read_queue
<1>5. CASE process_response_queue \/ process_command_queue \/ process_ble_write_queue \/ LoopDisconnected
  <2>1. UNCHANGED <<readQueue, air>> /\ (readBuffer' = readBuffer \/ readBuffer' = <<>>)
    BY <1>5 DEF process_response_queue, process_command_queue, process_ble_write_queue,
                LoopDisconnected, TidyUp, readVars
  <2> QED
    BY <1>2, <1>3, <2>1
<1>6. CASE Offer
  <2>1. PICK k \in Sizes : \E headers \in [1..k -> Headers] :
          headers[1] = k /\ air' = Notifications(offered + 1, headers)
    BY <1>6 DEF Offer
  <2>2. PICK headers \in [1..k -> Headers] :
          headers[1] = k /\ air' = Notifications(offered + 1, headers)
    BY <2>1
  <2>3. offered + 1 \in Nat \ {0}
    BY DEF IInv, TypeOK
  <2>4. Announcing(air')
    <3> DEFINE s == Notifications(offered + 1, headers)
    <3>1. Len(s) = k /\ \A i \in 1..k :
            s[i] = [message |-> offered + 1, part |-> i, size |-> k, header |-> headers[i]]
      BY <2>3, NotificationFacts
    <3> HIDE DEF s
    <3>2. \A i \in 1..k : s[i].part = i /\ s[i].size = k /\ s[i].header = headers[i]
      BY <3>1
    <3>3. Announcing(s)
      BY <2>2, <3>1, <3>2 DEF Announcing
    <3> QED
      BY <2>2, <3>3 DEF s
  <2> QED
    BY <1>2, <1>3, <1>6, <2>4 DEF Offer
<1>7. CASE Notify
  <2>1. Announcing(Tail(air)) /\ Announcing(Append(readQueue, Head(air)))
    BY <1>1, <1>3, <1>7, HeadAnnounces, AppendAnnounces, TailFacts DEF Notify
  <2> QED
    BY <1>2, <1>7, <2>1 DEF Notify
<1>8. CASE Enqueue \/ SendDirectly \/ Established \/ UNCHANGED vars
  BY <1>2, <1>3, <1>8 DEF Enqueue, SendDirectly, Established, readVars, vars
<1>9. CASE Disconnected
  BY <1>2, <1>3, <1>9, EmptyAnnounces DEF Disconnected
<1> QED
  BY <1>4, <1>5, <1>6, <1>7, <1>8, <1>9 DEF Next, Loop

LEMMA InitCollecting == Init => Collecting
BY EmptyAnnounces DEF Init, Collecting, Announced, Incomplete, BeginsOne

----------------------------------------------------------------------------
(* Streams of whole messages.                                                *)

LEMMA JoinFacts ==
  ASSUME NEW S, NEW s \in Seq(S), NEW t \in Seq(S)
  PROVE  /\ s \o t \in Seq(S) /\ Len(s \o t) = Len(s) + Len(t)
         /\ Len(s) \in Nat /\ Len(t) \in Nat
         /\ \A i \in 1..Len(s) : (s \o t)[i] = s[i]
         /\ \A i \in 1..Len(t) : (s \o t)[Len(s) + i] = t[i]
         /\ s \o <<>> = s /\ <<>> \o s = s
OBVIOUS

(* The first part of a stream of whole messages begins with a message ... *)
LEMMA CleanPrefix ==
  ASSUME NEW s \in Seq(InChunk), NEW t \in Seq(InChunk), Clean(s \o t), s # <<>>
  PROVE  s[1].part = 1 /\ Linked(s)
<1> DEFINE u == s \o t
           k == Len(s)
           l == Len(t)
<1>1. /\ Len(u) = k + l /\ k \in Nat \ {0} /\ l \in Nat
      /\ \A i \in 1..k : u[i] = s[i]
      /\ u # <<>>
  BY JoinFacts
<1>2. u[1].part = 1 /\ Linked(u)
  BY <1>1 DEF Clean, Linked
<1> HIDE DEF u, k, l
<1>3. s[1].part = 1
  BY <1>1, <1>2
<1>4. Linked(s)
  <2> SUFFICES ASSUME NEW i \in 1..(k - 1) PROVE Follows(s[i], s[i + 1])
    BY DEF Linked, k
  <2>1. i \in 1..(k + l - 1) /\ i \in 1..k /\ i + 1 \in 1..k
    BY <1>1
  <2>2. Follows(u[i], u[i + 1])
    BY <1>1, <1>2, <2>1 DEF Linked
  <2>3. u[i] = s[i] /\ u[i + 1] = s[i + 1]
    BY <1>1, <2>1
  <2> QED
    BY <2>2, <2>3
<1> QED
  BY <1>3, <1>4

(* ... and what follows a whole message is a stream of whole messages. *)
LEMMA CleanSuffix ==
  ASSUME NEW s \in Seq(InChunk), NEW t \in Seq(InChunk), Clean(s \o t), s # <<>>,
         s[Len(s)].part = s[Len(s)].size
  PROVE  Clean(t)
<1> DEFINE u == s \o t
           k == Len(s)
           l == Len(t)
<1>1. /\ Len(u) = k + l /\ k \in Nat \ {0} /\ l \in Nat
      /\ \A i \in 1..k : u[i] = s[i]
      /\ \A i \in 1..l : u[k + i] = t[i]
      /\ u # <<>> /\ (t # <<>> => l # 0)
  BY JoinFacts
<1>2. u[Len(u)].part = u[Len(u)].size /\ Linked(u)
  BY <1>1 DEF Clean, Linked
<1>3. s[k].part = s[k].size
  OBVIOUS
<1> HIDE DEF u, k, l
<1>4. ASSUME t # <<>>
      PROVE  t[1].part = 1 /\ t[l].part = t[l].size /\ Linked(t)
  <2>1. k \in 1..(k + l - 1) /\ k \in 1..k /\ 1 \in 1..l /\ l \in 1..l
    BY <1>1, <1>4
  <2>2. u[k] = s[k] /\ u[k + 1] = t[1] /\ u[k + l] = t[l]
    BY <1>1, <2>1
  <2>3. Follows(u[k], u[k + 1])
    BY <1>1, <1>2, <2>1 DEF Linked
  <2>4. t[1].part = 1
    BY <1>3, <2>2, <2>3 DEF Follows
  <2>5. t[l].part = t[l].size
    BY <1>1, <1>2, <2>2
  <2>6. Linked(t)
    <3> SUFFICES ASSUME NEW i \in 1..(l - 1) PROVE Follows(t[i], t[i + 1])
      BY DEF Linked, l
    <3>1. /\ i \in 1..l /\ i + 1 \in 1..l /\ k + i \in 1..(k + l - 1)
          /\ k + (i + 1) = (k + i) + 1
      BY <1>1
    <3>2. u[k + i] = t[i] /\ u[(k + i) + 1] = t[i + 1]
      BY <1>1, <3>1
    <3> QED
      BY <1>1, <1>2, <3>1, <3>2 DEF Linked
  <2> QED
    BY <2>4, <2>5, <2>6
<1> QED
  BY <1>4 DEF Clean, Linked, l

LEMMA CleanAppended ==
  ASSUME NEW s \in Seq(InChunk), NEW t \in Seq(InChunk), Clean(s), Clean(t)
  PROVE  Clean(s \o t)
<1>1. CASE s = <<>> \/ t = <<>>
  BY <1>1, JoinFacts
<1>2. CASE s # <<>> /\ t # <<>>
  <2>1. s[1].part = 1 /\ t[1].part = 1 /\ Linked(s) /\ Linked(t) /\ EndsWhole(s) /\ EndsWhole(t)
    BY <1>2 DEF Clean, Linked, EndsWhole
  <2>2. Linked(s \o t) /\ EndsWhole(s \o t)
    <3>1. Joins(NoChunk, s)
      BY DEF Joins
    <3> QED
      BY <1>2, <2>1, <3>1, WholeAppended
  <2>3. (s \o t)[1] = s[1]
    BY <1>2, JoinFacts
  <2> QED
    BY <2>1, <2>2, <2>3 DEF Clean, Linked, EndsWhole
<1> QED
  BY <1>1, <1>2

LEMMA MessagesJoined ==
  ASSUME NEW s \in Seq(InChunk), NEW t \in Seq(InChunk)
  PROVE  MessagesOf(s \o t) = MessagesOf(s) \cup MessagesOf(t)
<1> DEFINE u == s \o t
           k == Len(s)
           l == Len(t)
<1>1. /\ Len(u) = k + l /\ k \in Nat /\ l \in Nat
      /\ \A i \in 1..k : u[i] = s[i]
      /\ \A i \in 1..l : u[k + i] = t[i]
  BY JoinFacts
<1> HIDE DEF u, k, l
<1>2. ASSUME NEW i \in 1..(k + l)
      PROVE  u[i].message \in MessagesOf(s) \cup MessagesOf(t)
  <2>1. CASE i <= k
    <3>1. i \in 1..k
      BY <1>1, <2>1
    <3> QED
      BY <1>1, <3>1 DEF MessagesOf, k
  <2>2. CASE k < i
    <3>1. i - k \in 1..l /\ i = k + (i - k)
      BY <1>1, <2>2
    <3>2. u[i] = t[i - k]
      BY <1>1, <3>1
    <3> QED
      BY <3>1, <3>2 DEF MessagesOf, l
  <2> QED
    BY <1>1, <2>1, <2>2
<1>3. ASSUME NEW i \in 1..k
      PROVE  s[i].message \in MessagesOf(u)
  <2>1. i \in 1..Len(u)
    BY <1>1
  <2> QED
    BY <1>1, <2>1 DEF MessagesOf
<1>4. ASSUME NEW i \in 1..l
      PROVE  t[i].message \in MessagesOf(u)
  <2>1. k + i \in 1..Len(u)
    BY <1>1
  <2> QED
    BY <1>1, <2>1 DEF MessagesOf
<1>5. MessagesOf(u) \subseteq MessagesOf(s) \cup MessagesOf(t)
  BY <1>1, <1>2 DEF MessagesOf
<1>6. MessagesOf(s) \subseteq MessagesOf(u) /\ MessagesOf(t) \subseteq MessagesOf(u)
  BY <1>3, <1>4 DEF MessagesOf, k, l
<1> QED
  BY <1>5, <1>6 DEF u

(* Moving a chunk from the front of t to the back of s leaves the stream as it is. *)
LEMMA Passed ==
  ASSUME NEW s \in Seq(InChunk), NEW t \in Seq(InChunk), t # <<>>
  PROVE  Append(s, Head(t)) \o Tail(t) = s \o t
OBVIOUS

LEMMA Associated ==
  ASSUME NEW s \in Seq(InChunk), NEW t \in Seq(InChunk), NEW w \in Seq(InChunk)
  PROVE  (s \o t) \o w = s \o (t \o w)
OBVIOUS

LEMMA AppendedBehind ==
  ASSUME NEW s \in Seq(InChunk), NEW t \in Seq(InChunk), NEW e \in InChunk
  PROVE  s \o Append(t, e) = Append(s \o t, e)
OBVIOUS

----------------------------------------------------------------------------
(* A step that tears no message loses none.                                   *)

Kept(s, t) == Clean(t) /\ \A m \in MessagesOf(s) : m \in MessagesOf(t) \/ responses' = <<m>>

(* While the stream is clean, the buffer has room. *)
LEMMA NeverFull ==
  ASSUME IInv, Collecting, Clean(Stream)
  PROVE  /\ HasRoom
         /\ readBuffer # <<>> => readBuffer[1].part = 1 /\ Linked(readBuffer)
<1>1. readBuffer \in Seq(InChunk) /\ readQueue \in Seq(InChunk) /\ air \in Seq(InChunk)
  BY DEF IInv, TypeOK
<1>2. Stream = readBuffer \o (readQueue \o air) /\ readQueue \o air \in Seq(InChunk)
  BY <1>1, Associated, JoinFacts DEF Stream
<1>3. CASE readBuffer = <<>>
  <2>1. Len(readBuffer) = 0
    BY <1>3
  <2>2. 0 + 1 <= BufferParts
    BY PartsAssumption, BufferAssumption
  <2> QED
    BY <1>3, <2>1, <2>2 DEF HasRoom
<1>4. CASE readBuffer # <<>>
  <2>1. readBuffer[1].part = 1 /\ Linked(readBuffer)
    BY <1>1, <1>2, <1>4, CleanPrefix
  <2>2. 1 \in 1..Len(readBuffer) /\ Len(readBuffer) \in Nat
    BY <1>1, <1>4
  <2>3. readBuffer[1].header = readBuffer[1].size /\ readBuffer[1].size \in Sizes
    BY <1>1, <2>1, <2>2, Elements DEF Collecting, Announced, Announcing
  <2>4. Len(readBuffer) < readBuffer[1].size
    BY <1>4, <2>3 DEF Collecting, Incomplete
  <2> QED
    BY <1>4, <2>1, <2>2, <2>3, <2>4, BufferAssumption, PartsAssumption DEF HasRoom, Sizes
<1> QED
  BY <1>3, <1>4

(* A message put together from a clean stream is a whole one, and goes on. *)
LEMMA TakenWhole ==
  ASSUME IInv, Collecting, Clean(Stream), Collect, phase = "read", UNCHANGED air
  PROVE  Kept(Stream, Stream')
<1>1. /\ readBuffer \in Seq(InChunk) /\ readQueue \in Seq(InChunk) /\ air \in Seq(InChunk)
      /\ Sorted(readBuffer) /\ Sorted(readQueue) /\ Ahead(readBuffer, readQueue)
      /\ Fresh(readBuffer, Done, offered) /\ Fresh(readQueue, Done, offered)
      /\ Announcing(readBuffer) /\ Announcing(readQueue)
  BY DEF IInv, TypeOK, InOrder, Arranged, Collecting, Announced
<1> DEFINE e == Head(readQueue)
           b == Append(readBuffer, e)
           q == Tail(readQueue)
           r == q \o air
<1>2. readQueue # <<>> /\ readQueue' = q
  BY DEF Collect
<1>3. q \in Seq(InChunk) /\ e \in InChunk /\ (e.part = 1 => e.header = e.size)
  BY <1>1, <1>2, TailFacts, HeadAnnounces
<1>4. Sorted(b)
  BY <1>1, <1>2, MovedPair
<1>5. b \o q = readBuffer \o readQueue
  BY <1>1, <1>2, Passed
<1> HIDE DEF e, q
<1>6. b \in Seq(InChunk) /\ Len(b) = Len(readBuffer) + 1 /\ Len(readBuffer) \in Nat /\ Announcing(b)
      /\ \A i \in 1..Len(readBuffer) : b[i] = readBuffer[i]
  BY <1>1, <1>3, AppendFacts, AppendAnnounces
<1>7. r \in Seq(InChunk)
  BY <1>1, <1>3, JoinFacts
<1>8. readBuffer # <<>> /\ readBuffer[1].part = 1 /\ Linked(readBuffer) => Begun(readBuffer)
  BY DEF Collecting, BeginsOne
<1>9. readBuffer # <<>> => Len(readBuffer) < readBuffer[1].header
  BY DEF Collecting, Incomplete
<1>10. b[1].part = 1 /\ Linked(b) => Begun(b)
  BY <1>1, <1>3, <1>4, <1>8, <1>9, OneMore
<1>11. \/ ~Complete(b) /\ readBuffer' = b
       \/ /\ Complete(b) /\ readBuffer' = <<>>
          /\ \E parsed \in Parsed(b) : responses' = responses \o parsed
  BY DEF Collect, Appended, e
<1> HIDE DEF b
<1>12. b # <<>>
  BY <1>6
<1>13. Stream = b \o r
  <2>1. (b \o q) \o air = b \o r
    BY <1>1, <1>3, <1>6, Associated
  <2> QED
    BY <1>5, <2>1 DEF Stream
<1>14. CASE ~Complete(b) /\ readBuffer' = b
  <2>1. Stream' = b \o r
    BY <1>1, <1>2, <1>3, <1>6, <1>14, Associated DEF Stream
  <2> QED
    BY <1>13, <2>1 DEF Kept
<1>15. CASE /\ Complete(b) /\ readBuffer' = <<>>
            /\ \E parsed \in Parsed(b) : responses' = responses \o parsed
  <2>1. Stream' = r
    BY <1>1, <1>2, <1>3, <1>15, JoinFacts DEF Stream
  <2>2. PICK parsed \in Parsed(b) : responses' = responses \o parsed
    BY <1>15
  <2>3. responses = <<>>
    BY NoAnswer
  <2>4. b[1].part = 1 /\ Linked(b)
    BY <1>6, <1>7, <1>12, <1>13, CleanPrefix
  <2>5. Begun(b)
    BY <1>10, <2>4
  <2> HIDE DEF r
  <2> DEFINE k == Len(b)
  <2>6. k \in Nat \ {0} /\ 1 \in 1..k /\ k \in 1..k /\ Head(b) = b[1]
    BY <1>6, <1>12
  <2>7. b[1].header = b[1].size /\ b[1].size \in Sizes /\ b[1].message \in Nat \ {0}
    BY <1>6, <2>4, <2>6, Elements DEF Announcing
  <2>8. k <= b[1].size
    <3>1. CASE readBuffer = <<>>
      <4>1. k = 1
        BY <1>6, <3>1
      <4> QED
        BY <2>7, <4>1 DEF Sizes
    <3>2. CASE readBuffer # <<>>
      <4>1. 1 \in 1..Len(readBuffer)
        BY <1>1, <3>2
      <4>2. Len(readBuffer) < b[1].size
        BY <1>6, <1>9, <2>7, <3>2, <4>1
      <4> QED
        BY <1>6, <2>7, <4>2 DEF Sizes
    <3> QED
      BY <3>1, <3>2
  <2>9. k = b[1].size
    BY <1>15, <2>6, <2>7, <2>8 DEF Complete, Sizes
  <2>10. \A i \in 1..k : b[i].message = b[1].message /\ b[i].part = i /\ b[i].size = k
    BY <2>5, <2>9 DEF Begun
  <2>11. Whole(b) /\ b[k].part = b[k].size
    BY <2>6, <2>9, <2>10 DEF Whole
  <2>12. responses' = <<b[1].message>>
    <3>1. parsed = <<b[1].message>>
      BY <2>2, <2>6, <2>11 DEF Parsed
    <3> QED
      BY <2>2, <2>3, <2>7, <3>1
  <2>13. Clean(r)
    BY <1>6, <1>7, <1>12, <1>13, <2>11, CleanSuffix
  <2>14. MessagesOf(b) = {b[1].message}
    BY <2>6, <2>10 DEF MessagesOf
  <2>15. MessagesOf(Stream) = {b[1].message} \cup MessagesOf(r)
    BY <1>6, <1>7, <1>13, <2>14, MessagesJoined
  <2> QED
    BY <2>1, <2>12, <2>13, <2>15 DEF Kept
<1> QED
  BY <1>11, <1>14, <1>15

LEMMA OfferedWhole ==
  ASSUME IInv, Clean(Stream), Offer
  PROVE  Kept(Stream, Stream')
<1>1. readBuffer \in Seq(InChunk) /\ readQueue \in Seq(InChunk) /\ offered + 1 \in Nat \ {0}
  BY DEF IInv, TypeOK
<1>2. readBuffer \o readQueue \in Seq(InChunk) /\ Stream = readBuffer \o readQueue
  BY <1>1, JoinFacts DEF Offer, Stream
<1>3. PICK k \in Sizes : \E headers \in [1..k -> Headers] : air' = Notifications(offered + 1, headers)
  BY DEF Offer
<1>4. PICK headers \in [1..k -> Headers] : air' = Notifications(offered + 1, headers)
  BY <1>3
<1> DEFINE c == Notifications(offered + 1, headers)
<1>5. c \in Seq(InChunk) /\ Len(c) = k /\ \A i \in 1..k :
        c[i] = [message |-> offered + 1, part |-> i, size |-> k, header |-> headers[i]]
  BY <1>1, NotificationFacts
<1>6. Stream' = (readBuffer \o readQueue) \o c
  BY <1>4 DEF Offer, Stream
<1> HIDE DEF c
<1>7. \A i \in 1..k : c[i].message = offered + 1 /\ c[i].part = i /\ c[i].size = k
  BY <1>5
<1>8. k \in Nat \ {0}
  BY DEF Sizes
<1>9. Clean(c)
  BY <1>5, <1>7, <1>8 DEF Clean, Follows
<1>10. Clean(Stream')
  BY <1>2, <1>5, <1>6, <1>9, CleanAppended
<1>11. MessagesOf(Stream') = MessagesOf(Stream) \cup MessagesOf(c)
  BY <1>2, <1>5, <1>6, MessagesJoined
<1> QED
  BY <1>10, <1>11 DEF Kept

LEMMA NotifiedWhole ==
  ASSUME IInv, Notify
  PROVE  Stream' = Stream
<1>1. /\ readBuffer \in Seq(InChunk) /\ readQueue \in Seq(InChunk) /\ air \in Seq(InChunk)
      /\ air # <<>> /\ Head(air) \in InChunk
  BY TailFacts DEF IInv, TypeOK, Notify
<1>2. readBuffer \o readQueue \in Seq(InChunk)
  BY <1>1, JoinFacts
<1>3. readBuffer \o Append(readQueue, Head(air)) = Append(readBuffer \o readQueue, Head(air))
  BY <1>1, AppendedBehind
<1>4. Append(readBuffer \o readQueue, Head(air)) \o Tail(air) = (readBuffer \o readQueue) \o air
  BY <1>1, <1>2, Passed
<1> QED
  BY <1>3, <1>4 DEF Notify, Stream

LEMMA TornStep ==
  ASSUME IInv, Collecting, [Next]_vars, Clean(Stream), ~Torn
  PROVE  Kept(Stream, Stream')
<1>1. ASSUME UNCHANGED <<readBuffer, readQueue, air>>
      PROVE  Kept(Stream, Stream')
  BY <1>1 DEF Stream, Kept
<1>2. CASE process_ble_read_queue
  <2>1. CASE NoChunkToRead
    BY <1>1, <1>2, <2>1 DEF process_ble_read_queue, NoChunkToRead
  <2>2. CASE Overflow
    BY <2>2, NeverFull DEF Overflow
  <2>3. CASE Collect
    BY <1>2, <2>3, TakenWhole DEF process_ble_read_queue
  <2> QED
    BY <1>2, <2>1, <2>2, <2>3 DEF process_ble_read_queue
<1>3. CASE process_response_queue \/ process_command_queue \/ process_ble_write_queue
  <2>1. UNCHANGED <<readQueue, air>> /\ (readBuffer' = readBuffer \/ readBuffer' = <<>>) /\ phase # "read"
    BY <1>3 DEF process_response_queue, process_command_queue, process_ble_write_queue, TidyUp, readVars
  <2>2. readBuffer' = readBuffer
    BY <2>1 DEF Torn
  <2> QED
    BY <1>1, <2>1, <2>2
<1>4. CASE LoopDisconnected
  <2>1. UNCHANGED <<readQueue, air>> /\ readBuffer' = <<>> /\ readBuffer = <<>>
    BY <1>4 DEF LoopDisconnected, TidyUp, Torn
  <2> QED
    BY <1>1, <2>1
<1>5. CASE Offer
  BY <1>5, OfferedWhole
<1>6. CASE Notify
  <2>1. Stream' = Stream
    BY <1>6, NotifiedWhole
  <2> QED
    BY <2>1 DEF Kept
<1>7. CASE Enqueue \/ SendDirectly \/ Established \/ UNCHANGED vars
  BY <1>1, <1>7 DEF Enqueue, SendDirectly, Established, readVars, vars
<1>8. CASE Disconnected
  <2>1. air = <<>> /\ air' = <<>> /\ UNCHANGED <<readBuffer, readQueue>>
    BY <1>8 DEF Disconnected, Torn
  <2> QED
    BY <1>1, <2>1
<1> QED
  BY <1>2, <1>3, <1>4, <1>5, <1>6, <1>7, <1>8 DEF Next, Loop

LEMMA CollectingInvariance == Spec => [](IInv /\ Collecting)
<1>1. Init => IInv /\ Collecting
  BY InitOK, InitCollecting
<1>2. IInv /\ Collecting /\ [Next]_vars => (IInv /\ Collecting)'
  BY StepOK, CollectingStep
<1> QED
  BY <1>1, <1>2, PTL DEF Spec

(* While the chunks on their way are whole messages and none is torn, the buffer    *)
(* never overflows, no length is misread, and every message goes on to the handlers *)
(* (cpp:547-607).                                                             *)
THEOREM NothingElseLost == Spec => OnlyTornIsLost
<1>1. IInv /\ Collecting /\ [Next]_vars =>
        [Clean(Stream) /\ ~Torn =>
           /\ Clean(Stream')
           /\ \A m \in MessagesOf(Stream) :
                m \in MessagesOf(Stream') \/ responses' = <<m>>]_vars
  BY TornStep DEF Kept
<1> QED
  BY <1>1, CollectingInvariance, PTL DEF Spec, OnlyTornIsLost

----------------------------------------------------------------------------
(* The refinement.                                                           *)

LEMMA ChannelStep == IInv /\ [Next]_vars => [Channel!Next]_(Channel!channelVars)
<1> SUFFICES ASSUME IInv, [Next]_vars
             PROVE  [Channel!Next]_(Channel!channelVars)
  OBVIOUS
<1> USE DEF Channel!Next, Channel!channelVars
<1>1. CASE process_response_queue
  <2>1. CASE responses # <<>> /\ Head(responses) # Garbled
    <3>1. latest < Head(responses) /\ Head(responses) <= offered
      BY <2>1 DEF IInv, NewIsNewer, OnlyNewer, Done
    <3>2. latest \in Nat /\ offered \in Nat /\ Head(responses) \in Nat
      BY <2>1 DEF IInv, TypeOK
    <3>3. latest' = Head(responses) /\ arrivals' = arrivals + 1 /\ offered' = offered
      BY <1>1, <2>1 DEF process_response_queue
    <3> QED
      BY <3>1, <3>2, <3>3 DEF Channel!Arrive
  <2>2. CASE responses = <<>> \/ Head(responses) = Garbled
    BY <1>1, <2>2 DEF process_response_queue
  <2> QED
    BY <2>1, <2>2
<1>2. CASE Offer
  BY <1>2 DEF Offer, Channel!Send
<1>3. CASE process_ble_read_queue \/ process_command_queue \/ process_ble_write_queue \/ LoopDisconnected
  BY <1>3 DEF process_ble_read_queue, process_command_queue, process_ble_write_queue,
              LoopDisconnected, readVars
<1>4. CASE Notify \/ Enqueue \/ SendDirectly \/ Established \/ Disconnected
  BY <1>4 DEF Notify, Enqueue, SendDirectly, Established, Disconnected, readVars
<1>5. CASE UNCHANGED vars
  BY <1>5 DEF vars
<1> QED
  BY <1>1, <1>2, <1>3, <1>4, <1>5 DEF Next, Loop

(* Whatever is torn, the vehicle's messages that reach the handlers are messages it *)
(* sent, whole, in order and each once (cpp:547-617).                            *)
THEOREM TransportImplementsChannel == Spec => ImplementsChannel
<1>1. Init => Channel!Init
  BY DEF Init, Channel!Init
<1> QED
  BY <1>1, Invariance, ChannelStep, PTL DEF Spec, ImplementsChannel, Channel!Spec
============================================================================
