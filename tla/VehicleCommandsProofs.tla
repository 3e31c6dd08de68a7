----------------------- MODULE VehicleCommandsProofs -----------------------
(***************************************************************************)
(* What the command pipeline keeps true for every capacity, every timeout  *)
(* and every retry limit.  The invariant says what a command can be like   *)
(* (Sound), that only the front one has been touched, that the front one's *)
(* session backs its state, and that callbacks and commands correspond.    *)
(***************************************************************************)
EXTENDS VehicleCommands, TLAPS

Pristine(c) == c.state = "IDLE" /\ c.sent = 0 /\ c.retry = 0

(* The states a command of each domain goes through. *)
OnPath(c) ==
  IF DomainOf(c.kind) = "VCSEC"
  THEN /\ c.state \notin {"WAITING_FOR_INFOTAINMENT_AUTH",
                          "WAITING_FOR_INFOTAINMENT_AUTH_RESPONSE",
                          "WAITING_FOR_WAKE", "WAITING_FOR_GET_POST_SET"}
       /\ c.state = "WAITING_FOR_WAKE_RESPONSE" => c.kind = "wake"
  ELSE c.state \notin {"WAITING_FOR_VCSEC_AUTH", "WAITING_FOR_VCSEC_AUTH_RESPONSE"}

(* The least time n transmissions take. *)
Cost(n) == n * (MaxLatency + 1)

(* The transmissions already made are a latency apart and began after the    *)
(* command was started.                                                      *)
Spaced(c) ==
  c.sent >= 1 =>
    /\ Cost(c.sent - 1) <= CommandTimeout
    /\ c.started <= CommandTimeout => Cost(c.sent - 1) + c.tx <= c.started

(* A status request follows a lock or unlock, once after each.               *)
Checked(c) ==
  /\ c.checks <= IF c.kind \in Locking THEN c.sent ELSE 0
  /\ c.state = "WAITING_FOR_LOCK_RESPONSE"
       => c.kind \in Locking /\ (c.done = 0 => c.checks < c.sent)

Sound(c) ==
  /\ c.state = "IDLE" => Pristine(c)
  /\ c.state = "WAITING_FOR_INFOTAINMENT_AUTH_RESPONSE" => c.retry <= MaxRetries
  /\ OnPath(c)
  /\ Spaced(c)
  /\ Checked(c)

QueueOK(q) ==
  /\ q \in Seq(Command)
  /\ Len(q) <= Capacity
  /\ \A i \in 1..Len(q) : Sound(q[i]) /\ (i > 1 => Pristine(q[i]))
  /\ \A i, j \in 1..Len(q) : q[i].id = q[j].id => i = j

IdsOf(q) == {q[i].id : i \in 1..Len(q)}

Backed(q, p) == q # <<>> /\ PastAuth(q[1]) => p[DomainOf(q[1].kind)]

Environment ==
  /\ peer \in [Domains -> BOOLEAN]
  /\ asleep \in BOOLEAN /\ unlocked \in BOOLEAN
  /\ link \in {"down", "open", "established"}
  /\ phase \in {"top", "command"}
  /\ phase = "command" => link = "established"

IInv ==
  /\ QueueOK(queue)
  /\ callbacks = IdsOf(queue)
  /\ Backed(queue, peer)
  /\ Environment

----------------------------------------------------------------------------
(* The arithmetic of transmissions.                                          *)

(* One more transmission costs one more latency.                             *)
LEMMA CostStep ==
  ASSUME NEW n \in Nat
  PROVE  Cost(n) \in Nat /\ Cost(n + 1) = Cost(n) + (MaxLatency + 1) /\ Cost(0) = 0
  BY TimingAssumption DEF Cost

(* What fits into the overall timeout is what the budget allows.             *)
LEMMA CostBounds ==
  ASSUME NEW n \in Nat, n >= 1, Cost(n - 1) <= CommandTimeout
  PROVE  n <= CommandTimeout \div (MaxLatency + 1) + 1
<1> DEFINE z == MaxLatency + 1
           q == CommandTimeout \div z
<1>1. z \in Nat /\ z > 0 /\ CommandTimeout \in Nat
  BY TimingAssumption
<1>2. q \in Nat /\ CommandTimeout < (q + 1) * z
  <2> HIDE DEF z
  <2> QED BY <1>1
<1>3. (n - 1) * z <= CommandTimeout
  BY DEF Cost
<1> HIDE DEF z, q
<1>4. ASSUME n - 1 >= q + 1 PROVE FALSE
  <2>1. PICK k \in Nat : n - 1 = (q + 1) + k
    BY <1>2, <1>4
  <2>2. (n - 1) * z = (q + 1) * z + k * z
    BY <1>1, <1>2, <2>1
  <2>3. k * z \in Nat /\ (q + 1) * z \in Nat
    BY <1>1, <1>2, <2>1
  <2> QED
    BY <1>1, <1>2, <1>3, <2>2, <2>3
<1>5. n <= q + 1
  BY <1>2, <1>4
<1> QED
  BY <1>5 DEF q, z
----------------------------------------------------------------------------
(* What each change of the queue keeps.                                      *)

(* Replacing the front by a sound command with the same id.                  *)
LEMMA ChangeFront ==
  ASSUME NEW q, QueueOK(q), q # <<>>,
         NEW c \in Command, Sound(c), c.id = q[1].id
  PROVE  /\ QueueOK([q EXCEPT ![1] = c])
         /\ IdsOf([q EXCEPT ![1] = c]) = IdsOf(q)
         /\ [q EXCEPT ![1] = c] # <<>>
         /\ [q EXCEPT ![1] = c][1] = c
<1> DEFINE r == [q EXCEPT ![1] = c]
<1>1. q \in Seq(Command) /\ Len(q) \in Nat /\ Len(q) >= 1 /\ 1 \in 1..Len(q)
  BY DEF QueueOK
<1>2. r \in Seq(Command) /\ Len(r) = Len(q) /\ r[1] = c
      /\ \A i \in 1..Len(q) : i # 1 => r[i] = q[i]
  BY <1>1
<1> HIDE DEF r
<1>3. \A i \in 1..Len(q) : r[i].id = q[i].id
  BY <1>1, <1>2
<1>4. QueueOK(r)
  BY <1>1, <1>2, <1>3 DEF QueueOK
<1>5. IdsOf(r) = IdsOf(q)
  BY <1>2, <1>3 DEF IdsOf
<1> QED
  BY <1>1, <1>2, <1>4, <1>5 DEF r

(* Taking the front off leaves an untouched command in front, and takes one   *)
(* id away.                                                                   *)
LEMMA DropFront ==
  ASSUME NEW q, QueueOK(q), q # <<>>
  PROVE  /\ QueueOK(Tail(q))
         /\ IdsOf(Tail(q)) = IdsOf(q) \ {q[1].id}
         /\ \A i \in 1..Len(Tail(q)) : Pristine(Tail(q)[i])
         /\ Len(Tail(q)) = Len(q) - 1
<1>1. q \in Seq(Command) /\ Len(q) \in Nat /\ Len(q) >= 1 /\ 1 \in 1..Len(q)
  BY DEF QueueOK
<1>2. Tail(q) \in Seq(Command) /\ Len(Tail(q)) = Len(q) - 1
      /\ \A i \in 1..(Len(q) - 1) : Tail(q)[i] = q[i + 1] /\ i + 1 \in 1..Len(q)
  BY <1>1
<1>3. \A i \in 1..Len(Tail(q)) : Sound(Tail(q)[i]) /\ Pristine(Tail(q)[i])
  BY <1>1, <1>2 DEF QueueOK
<1>5. \A i, j \in 1..Len(Tail(q)) : Tail(q)[i].id = Tail(q)[j].id => i = j
  <2> TAKE i, j \in 1..Len(Tail(q))
  <2>1. Tail(q)[i].id = Tail(q)[j].id => i + 1 = j + 1
    BY <1>1, <1>2 DEF QueueOK
  <2> QED
    BY <1>1, <1>2, <2>1
<1>6. QueueOK(Tail(q))
  BY <1>1, <1>2, <1>3, <1>5, CapacityAssumption DEF QueueOK
<1>4. IdsOf(Tail(q)) = IdsOf(q) \ {q[1].id}
  <2>1. \A x \in IdsOf(Tail(q)) : x \in IdsOf(q) /\ x # q[1].id
    BY <1>1, <1>2 DEF IdsOf, QueueOK
  <2>2. ASSUME NEW x \in IdsOf(q), x # q[1].id PROVE x \in IdsOf(Tail(q))
    <3>1. PICK i \in 1..Len(q) : q[i].id = x
      BY DEF IdsOf
    <3>2. i - 1 \in 1..(Len(q) - 1) /\ (i - 1) + 1 = i
      BY <1>1, <2>2, <3>1
    <3>3. Tail(q)[i - 1].id = x
      BY <1>2, <3>1, <3>2
    <3> QED
      BY <1>2, <3>2, <3>3 DEF IdsOf
  <2> QED
    BY <2>1, <2>2
<1> QED
  BY <1>2, <1>3, <1>4, <1>6

(* Adding a fresh, untouched command behind any command in progress.          *)
LEMMA InsertCommand ==
  ASSUME NEW q, QueueOK(q), Len(q) < Capacity,
         NEW k \in 1..(Len(q) + 1), k = 1 /\ q # <<>> => Pristine(q[1]),
         NEW c \in Command, Pristine(c), Sound(c), c.id \notin IdsOf(q)
  PROVE  /\ QueueOK(List!Inserted(q, k, c))
         /\ IdsOf(List!Inserted(q, k, c)) = IdsOf(q) \cup {c.id}
         /\ List!Inserted(q, k, c)[1] = IF k = 1 THEN c ELSE q[1]
<1> DEFINE r == List!Inserted(q, k, c)
<1>1. q \in Seq(Command) /\ Len(q) \in Nat
  BY DEF QueueOK
<1>2. r = [i \in 1..(Len(q) + 1) |->
             IF i < k THEN q[i] ELSE IF i = k THEN c ELSE q[i - 1]]
  BY DEF List!Inserted
<1>3. \A i \in 1..(Len(q) + 1) :
        /\ i < k => i \in 1..Len(q) /\ r[i] = q[i]
        /\ i = k => r[i] = c
        /\ i > k => i - 1 \in 1..Len(q) /\ r[i] = q[i - 1]
  BY <1>1, <1>2
<1>4. r \in Seq(Command) /\ Len(r) = Len(q) + 1
  <2>1. \A i \in 1..(Len(q) + 1) : r[i] \in Command
    BY <1>1, <1>3
  <2> QED
    BY <1>1, <1>2, <2>1
<1> HIDE DEF r
<1>5. \A i \in 1..Len(r) : Sound(r[i]) /\ (i > 1 => Pristine(r[i]))
  <2> TAKE i \in 1..Len(r)
  <2>1. CASE i < k
    BY <1>1, <1>3, <1>4, <2>1 DEF QueueOK
  <2>2. CASE i = k
    BY <1>3, <1>4, <2>2
  <2>3. CASE i > k
    <3>1. i - 1 \in 1..Len(q) /\ r[i] = q[i - 1]
      BY <1>3, <1>4, <2>3
    <3>2. Pristine(q[i - 1])
      BY <1>1, <2>3, <3>1 DEF QueueOK
    <3> QED
      BY <3>1, <3>2 DEF QueueOK
  <2> QED
    BY <1>1, <1>4, <2>1, <2>2, <2>3
<1>6. \A i \in 1..Len(q) : q[i].id # c.id
  BY DEF IdsOf
<1>7. \A i, j \in 1..Len(r) : r[i].id = r[j].id => i = j
  <2> DEFINE old(i) == IF i < k THEN i ELSE i - 1
  <2>1. \A i, j \in 1..Len(q) : q[i].id = q[j].id => i = j
    BY DEF QueueOK
  <2>2. \A i \in 1..Len(r) : i # k => old(i) \in 1..Len(q) /\ r[i] = q[old(i)]
    BY <1>1, <1>3, <1>4
  <2>3. \A i, j \in 1..Len(r) : i # k /\ j # k /\ old(i) = old(j) => i = j
    BY <1>1, <1>4
  <2> HIDE DEF old
  <2>4. r[k] = c
    BY <1>1, <1>3
  <2> TAKE i, j \in 1..Len(r)
  <2>5. CASE i # k /\ j # k
    BY <2>1, <2>2, <2>3, <2>5
  <2>6. CASE i = k \/ j = k
    BY <1>6, <2>2, <2>4, <2>6
  <2> QED
    BY <2>5, <2>6
<1>8. IdsOf(r) = IdsOf(q) \cup {c.id}
  <2>1. ASSUME NEW i \in 1..Len(r) PROVE r[i].id \in IdsOf(q) \cup {c.id}
    <3>1. i = k \/ \E j \in 1..Len(q) : r[i] = q[j]
      BY <1>1, <1>3, <1>4
    <3>2. i = k => r[i] = c
      BY <1>3, <1>4
    <3> QED
      BY <3>1, <3>2 DEF IdsOf
  <2>2. ASSUME NEW i \in 1..Len(q) PROVE \E j \in 1..Len(r) : r[j].id = q[i].id
    <3>1. CASE i < k
      BY <1>1, <1>3, <1>4, <3>1
    <3>2. CASE i >= k
      <4>1. i + 1 \in 1..(Len(q) + 1) /\ i + 1 > k /\ (i + 1) - 1 = i
        BY <1>1, <3>2
      <4> QED
        BY <1>3, <1>4, <4>1
    <3> QED
      BY <1>1, <3>1, <3>2
  <2>3. k \in 1..Len(r) /\ r[k].id = c.id
    BY <1>1, <1>3, <1>4
  <2>4. \A x \in IdsOf(q) : \E j \in 1..Len(r) : r[j].id = x
    BY <2>2 DEF IdsOf
  <2>5. \A x \in IdsOf(q) \cup {c.id} : x \in IdsOf(r)
    BY <2>3, <2>4 DEF IdsOf
  <2>6. \A x \in IdsOf(r) : x \in IdsOf(q) \cup {c.id}
    BY <2>1 DEF IdsOf
  <2> QED
    BY <2>5, <2>6
<1>9. r[1] = IF k = 1 THEN c ELSE q[1]
  BY <1>1, <1>3
<1>10. QueueOK(r)
  BY <1>1, <1>4, <1>5, <1>7, CapacityAssumption DEF QueueOK
<1> QED
  BY <1>8, <1>9, <1>10 DEF r

(* Time passing keeps commands sound: a command's age grows at least as fast  *)
(* as the age of its last transmission.                                       *)
LEMMA OlderSound ==
  ASSUME NEW c \in Command, Sound(c)
  PROVE  Older(c) \in Command /\ Sound(Older(c)) /\ (Pristine(c) => Pristine(Older(c)))
<1> DEFINE d == Older(c)
<1>1. /\ d.id = c.id /\ d.kind = c.kind /\ d.state = c.state /\ d.retry = c.retry
      /\ d.done = c.done /\ d.sent = c.sent /\ d.checks = c.checks
      /\ d.started = UpTo(c.started, CommandTimeout + 1)
      /\ d.tx = UpTo(c.tx, MaxLatency + 1)
  BY DEF Older, Command
<1>2. d \in Command
  <2>1. UpTo(c.started, CommandTimeout + 1) \in 0..(CommandTimeout + 1)
    BY TimingAssumption DEF UpTo, Command
  <2>2. UpTo(c.tx, MaxLatency + 1) \in 0..(MaxLatency + 1)
    BY TimingAssumption DEF UpTo, Command
  <2> QED
    BY <2>1, <2>2 DEF Older, Command
<1> HIDE DEF d
<1>3. Spaced(d)
  <2>1. ASSUME d.sent >= 1 PROVE Cost(d.sent - 1) \in Nat
    <3>1. d.sent - 1 \in Nat
      BY <1>2, <2>1 DEF Command
    <3> QED BY <3>1, CostStep
  <2>2. d.started >= c.started /\ (d.started <= CommandTimeout => d.started = c.started + 1)
        /\ d.tx <= c.tx + 1 /\ d.tx \in Nat /\ c.tx \in Nat /\ c.started \in Nat
    BY <1>1, TimingAssumption DEF UpTo, Command
  <2> QED
    BY <1>1, <2>1, <2>2, TimingAssumption DEF Sound, Spaced
<1>4. Sound(d) /\ (Pristine(c) => Pristine(d))
  BY <1>1, <1>3 DEF Sound, Pristine, OnPath, Checked
<1> QED
  BY <1>2, <1>4 DEF d

LEMMA AgeQueue ==
  ASSUME NEW q, QueueOK(q), q # <<>>
  PROVE  /\ QueueOK([i \in 1..Len(q) |-> Older(q[i])])
         /\ IdsOf([i \in 1..Len(q) |-> Older(q[i])]) = IdsOf(q)
         /\ [i \in 1..Len(q) |-> Older(q[i])] # <<>>
         /\ [i \in 1..Len(q) |-> Older(q[i])][1] = Older(q[1])
<1> DEFINE r == [i \in 1..Len(q) |-> Older(q[i])]
<1>1. q \in Seq(Command) /\ Len(q) \in Nat /\ Len(q) >= 1 /\ 1 \in 1..Len(q)
  BY DEF QueueOK
<1>2. \A i \in 1..Len(q) : q[i] \in Command /\ Sound(q[i])
  BY <1>1 DEF QueueOK
<1>3. \A i \in 1..Len(q) : Older(q[i]) \in Command /\ Sound(Older(q[i]))
        /\ (Pristine(q[i]) => Pristine(Older(q[i])))
  BY <1>2, OlderSound
<1>4. r \in Seq(Command) /\ Len(r) = Len(q) /\ r # <<>> /\ \A i \in 1..Len(q) : r[i] = Older(q[i])
  BY <1>1, <1>3
<1> HIDE DEF r
<1>5. \A i \in 1..Len(q) : r[i].id = q[i].id
  BY <1>2, <1>4 DEF Older, Command
<1>6. QueueOK(r)
  <2>1. \A i, j \in 1..Len(r) : r[i].id = r[j].id => i = j
    BY <1>4, <1>5 DEF QueueOK
  <2>2. \A i \in 1..Len(r) : Sound(r[i]) /\ (i > 1 => Pristine(r[i]))
    BY <1>3, <1>4 DEF QueueOK
  <2> QED
    BY <1>4, <2>1, <2>2 DEF QueueOK
<1>7. IdsOf(r) = IdsOf(q)
  BY <1>4, <1>5 DEF IdsOf
<1> QED
  BY <1>1, <1>4, <1>6, <1>7 DEF r

(* A fresh command is in order, and its id is new.                            *)
LEMMA NewIsSound ==
  ASSUME NEW id \in Ids, NEW kind \in AllKinds
  PROVE  /\ NewCommand(id, kind) \in Command
         /\ NewCommand(id, kind).id = id
         /\ Pristine(NewCommand(id, kind))
         /\ Sound(NewCommand(id, kind))
<1>1. NewCommand(id, kind) \in Command
  BY TimingAssumption, RetriesAssumption DEF NewCommand, Command, States
<1> QED
  BY <1>1 DEF NewCommand, Pristine, Sound, OnPath, Spaced, Checked

----------------------------------------------------------------------------
(* What each kind of step keeps.                                             *)

LEMMA FrontFacts ==
  ASSUME IInv, queue # <<>>
  PROVE  /\ Front \in Command /\ Sound(Front)
         /\ (PastAuth(Front) => peer[DomainOf(Front.kind)])
  BY DEF IInv, QueueOK, Front, Backed

LEMMA FrontStep ==
  ASSUME NEW c \in Command, Sound(c), c.id = Front.id,
         IInv, queue # <<>>, Environment', SetFront(c),
         PastAuth(c) => peer'[DomainOf(c.kind)]
  PROVE  IInv'
<1>1. QueueOK(queue') /\ IdsOf(queue') = IdsOf(queue) /\ queue' # <<>> /\ queue'[1] = c
  BY ChangeFront DEF IInv, SetFront, Front
<1>2. callbacks' = callbacks
  BY DEF SetFront
<1> QED
  BY <1>1, <1>2 DEF IInv, Backed

LEMMA PopStep ==
  ASSUME IInv, queue # <<>>, Environment', Pop
  PROVE  IInv'
<1>1. QueueOK(queue') /\ IdsOf(queue') = IdsOf(queue) \ {Front.id}
      /\ \A i \in 1..Len(queue') : Pristine(queue'[i])
  BY DropFront DEF IInv, Pop, Front
<1>2. callbacks' = callbacks \ {Front.id}
  BY DEF Pop
<1>3. queue' # <<>> => Pristine(queue'[1])
  BY <1>1 DEF QueueOK
<1>4. Backed(queue', peer')
  BY <1>3 DEF Backed, Pristine, PastAuth
<1> QED
  BY <1>1, <1>2, <1>4 DEF IInv

(* A step that leaves the queue alone and takes no session away.              *)
LEMMA QuietStep ==
  ASSUME IInv, UNCHANGED <<queue, callbacks>>, Environment',
         \A d \in Domains : peer[d] => peer'[d]
  PROVE  IInv'
<1>1. queue # <<>> => DomainOf(queue[1].kind) \in Domains
  BY DEF DomainOf, Domains
<1> QED
  BY <1>1 DEF IInv, Backed

(* One more transmission keeps the spacing.                                   *)
LEMMA TransmitSpaced ==
  ASSUME NEW c \in Command, Spaced(c), c.tx > MaxLatency, c.started <= CommandTimeout,
         NEW d \in Command, d.sent = c.sent + 1, d.tx = 0, d.started = c.started
  PROVE  Spaced(d)
<1>1. c.sent \in Nat /\ c.started \in Nat /\ c.tx \in Nat /\ MaxLatency \in Nat
      /\ CommandTimeout \in Nat
  BY TimingAssumption DEF Command
<1>2. CASE c.sent = 0
  <2>1. d.sent - 1 = 0 /\ Cost(0) = 0
    BY <1>2, CostStep
  <2> QED
    BY <1>1, <2>1 DEF Spaced
<1>3. CASE c.sent >= 1
  <2>1. c.sent - 1 \in Nat /\ (c.sent - 1) + 1 = c.sent /\ d.sent - 1 = c.sent
    BY <1>1, <1>3
  <2>2. Cost(c.sent) = Cost(c.sent - 1) + (MaxLatency + 1) /\ Cost(c.sent - 1) \in Nat
    BY <2>1, CostStep
  <2>3. Cost(c.sent - 1) + c.tx <= c.started
    BY <1>3 DEF Spaced
  <2> QED
    BY <1>1, <2>1, <2>2, <2>3 DEF Spaced
<1> QED
  BY <1>1, <1>2, <1>3

LEMMA AuthStates ==
  ASSUME NEW d
  PROVE  /\ AuthState(d) \in States \ {"IDLE"} /\ AuthResponseState(d) \in States \ {"IDLE"}
         /\ AuthState(d) # "WAITING_FOR_INFOTAINMENT_AUTH_RESPONSE"
         /\ AuthState(d) # "WAITING_FOR_LOCK_RESPONSE"
         /\ AuthResponseState(d) # "WAITING_FOR_LOCK_RESPONSE"
  BY DEF AuthState, AuthResponseState, States

(* The common guard of a step of the front command.                           *)
LEMMA ServingFacts ==
  ASSUME IInv, NEW s, Serving(s), peer' \in [Domains -> BOOLEAN]
  PROVE  /\ queue # <<>> /\ Front \in Command /\ Sound(Front) /\ Front.state = s
         /\ Front.started <= CommandTimeout
         /\ s \notin {"IDLE", "WAITING_FOR_LOCK_RESPONSE", "WAITING_FOR_GET_POST_SET"}
              => Front.tx > MaxLatency
         /\ PastAuth(Front) => peer[DomainOf(Front.kind)]
         /\ Environment'
<1>1. queue # <<>> /\ ~Abandoned /\ Due /\ Front.state = s /\ InCommandPhase
  BY DEF Serving
<1>2. Front \in Command /\ Sound(Front) /\ (PastAuth(Front) => peer[DomainOf(Front.kind)])
  BY <1>1, FrontFacts
<1>3. Front.started <= CommandTimeout
  BY <1>1, <1>2, TimingAssumption DEF Abandoned, Command
<1>4. s \notin {"IDLE", "WAITING_FOR_LOCK_RESPONSE", "WAITING_FOR_GET_POST_SET"}
        => Front.tx > MaxLatency
  BY <1>1 DEF Due, Quiet
<1>5. Environment'
  BY <1>1 DEF InCommandPhase, sensors, IInv, Environment
<1> QED
  BY <1>1, <1>2, <1>3, <1>4, <1>5

(* A change of the front command that sends nothing, although it may restart   *)
(* the latency timer.                                                        *)
LEMMA MoveStep ==
  ASSUME IInv, queue # <<>>, Environment',
         NEW c \in Command, SetFront(c),
         c.id = Front.id, c.kind = Front.kind, c.started = Front.started,
         c.sent = Front.sent, c.checks = Front.checks, c.tx = Front.tx \/ c.tx = 0,
         c.state \notin {"IDLE", "WAITING_FOR_LOCK_RESPONSE"}, OnPath(c),
         c.state = "WAITING_FOR_INFOTAINMENT_AUTH_RESPONSE" => c.retry <= MaxRetries,
         PastAuth(c) => peer'[DomainOf(Front.kind)]
  PROVE  IInv'
<1>1. Front \in Command /\ Sound(Front)
  BY FrontFacts
<1>2. Spaced(c)
  <2>1. ASSUME c.sent >= 1 PROVE Cost(c.sent - 1) \in Nat
    <3>1. c.sent - 1 \in Nat
      BY <2>1 DEF Command
    <3> QED BY <3>1, CostStep
  <2>2. Front.tx \in Nat /\ c.tx \in Nat /\ c.started \in Nat
    BY <1>1, TimingAssumption DEF Command
  <2> QED
    BY <1>1, <2>1, <2>2, TimingAssumption DEF Sound, Spaced
<1>3. Checked(c)
  BY <1>1 DEF Sound, Checked
<1>4. Sound(c)
  BY <1>2, <1>3 DEF Sound
<1> QED
  BY <1>4, FrontStep

(* A change of the front command that sends something for it.                  *)
LEMMA SendStep ==
  ASSUME IInv, queue # <<>>, Environment',
         NEW c \in Command, SetFront(c),
         Front.tx > MaxLatency, Front.started <= CommandTimeout,
         c.id = Front.id, c.kind = Front.kind, c.started = Front.started,
         c.sent = Front.sent + 1, c.checks = Front.checks, c.tx = 0,
         c.state # "IDLE", OnPath(c),
         c.state = "WAITING_FOR_LOCK_RESPONSE" => c.kind \in Locking,
         c.state = "WAITING_FOR_INFOTAINMENT_AUTH_RESPONSE" => c.retry <= MaxRetries,
         PastAuth(c) => peer'[DomainOf(Front.kind)]
  PROVE  IInv'
<1>1. Front \in Command /\ Sound(Front)
  BY FrontFacts
<1>2. Spaced(c)
  BY <1>1, TransmitSpaced DEF Sound
<1>3. Checked(c)
  <2>1. Front.sent \in Nat /\ Front.checks \in Nat /\ Checked(Front)
    BY <1>1 DEF Sound, Command
  <2> QED
    BY <2>1 DEF Checked
<1>4. Sound(c)
  BY <1>2, <1>3 DEF Sound
<1> QED
  BY <1>4, FrontStep

(* The fields of the front command one of those steps writes.                  *)
LEMMA FrontFields ==
  ASSUME IInv, queue # <<>>
  PROVE  /\ Front \in Command /\ Front.retry \in Nat /\ Front.sent \in Nat
         /\ Front.sent + 1 \in Nat /\ 0 \in 0..(MaxLatency + 1)
         /\ 0 \in 0..(MaxRetries + 1)
         /\ (Front.retry <= MaxRetries => Front.retry + 1 \in 0..(MaxRetries + 1))
BY FrontFacts, TimingAssumption, RetriesAssumption DEF Command

----------------------------------------------------------------------------
(* process_command_queue: one lemma per action.                               *)

LEMMA StartIdleStep == ASSUME IInv, StartIdle PROVE IInv'
<1> DEFINE c == [Front EXCEPT !.started = 0, !.state = AuthState(DomainOf(Front.kind))]
<1>1. Serving("IDLE") /\ peer' = peer /\ peer \in [Domains -> BOOLEAN]
  BY DEF StartIdle, IInv, Environment
<1>2. queue # <<>> /\ Front \in Command /\ Sound(Front) /\ Front.state = "IDLE" /\ Environment'
  BY <1>1, ServingFacts
<1>3. CASE asleep /\ Front.kind = "get"
  BY <1>2, <1>3, PopStep DEF StartIdle
<1>4. CASE ~(asleep /\ Front.kind = "get")
  <2>0. 0 \in 0..(CommandTimeout + 1) /\ AuthState(DomainOf(Front.kind)) \in States
    BY TimingAssumption, AuthStates
  <2>1. c \in Command /\ c.id = Front.id
    BY <1>2, <2>0 DEF Command
  <2>2. Sound(c) /\ ~PastAuth(c)
    BY <1>2 DEF Sound, Pristine, OnPath, Spaced, Checked, AuthState, DomainOf, PastAuth, Command
  <2>3. SetFront(c)
    BY <1>4 DEF StartIdle
  <2> QED
    BY <1>2, <2>1, <2>2, <2>3, FrontStep
<1> QED
  BY <1>3, <1>4

(* sendSessionInfoRequest from the authentication state of the domain.        *)
LEMMA RequestSessionStep ==
  ASSUME NEW d \in Domains, IInv, Serving(AuthState(d)), RequestSession(d), UNCHANGED peer
  PROVE  IInv'
<1> DEFINE c == [Transmitted(Front, AuthResponseState(d)) EXCEPT !.retry = @ + 1]
<1>1. peer' \in [Domains -> BOOLEAN]
  BY DEF IInv, Environment
<1>2. /\ queue # <<>> /\ Front \in Command /\ Sound(Front) /\ Front.state = AuthState(d)
      /\ Front.started <= CommandTimeout /\ Environment' /\ Front.tx > MaxLatency
  BY <1>1, ServingFacts DEF AuthState
<1>3. CASE Front.retry < MaxRetries
  <2>0. Front.retry + 1 \in 0..(MaxRetries + 1) /\ Front.retry + 1 <= MaxRetries
    BY <1>2, <1>3, RetriesAssumption DEF Command
  <2>1. /\ c \in Command /\ c.id = Front.id /\ c.kind = Front.kind
        /\ c.state = AuthResponseState(d) /\ c.retry = Front.retry + 1
        /\ c.sent = Front.sent + 1 /\ c.tx = 0 /\ c.started = Front.started
        /\ c.checks = Front.checks
    BY <1>2, <2>0, FrontFields, AuthStates DEF Transmitted, Command
  <2> HIDE DEF c
  <2>2. OnPath(c) /\ ~PastAuth(c) /\ c.state # "IDLE"
    BY <1>2, <2>1 DEF Sound, OnPath, PastAuth, AuthState, AuthResponseState
  <2>3. SetFront(c)
    BY <1>3 DEF RequestSession, c
  <2> QED
    BY <1>2, <2>0, <2>1, <2>2, <2>3, AuthStates, SendStep
<1>4. CASE ~(Front.retry < MaxRetries)
  BY <1>2, <1>4, PopStep DEF RequestSession
<1> QED
  BY <1>3, <1>4

(* The command c is the front one in state st, with nothing sent for it.       *)
Moved(c, st) ==
  /\ c \in Command /\ c.state = st
  /\ c.id = Front.id /\ c.kind = Front.kind /\ c.started = Front.started
  /\ c.sent = Front.sent /\ c.checks = Front.checks /\ c.tx \in {Front.tx, 0}

(* The forms such a change takes.                                             *)
LEMMA MovedForms ==
  ASSUME Front \in Command, NEW st \in States
  PROVE  /\ Moved([Front EXCEPT !.state = st], st)
         /\ [Front EXCEPT !.state = st].retry = Front.retry
         /\ Moved([Front EXCEPT !.state = st, !.retry = 0], st)
         /\ [Front EXCEPT !.state = st, !.retry = 0].retry = 0
         /\ Moved([Front EXCEPT !.state = st, !.tx = 0], st)
         /\ (Front.retry <= MaxRetries =>
               Moved([Front EXCEPT !.state = st, !.retry = @ + 1], st))
<1>1. 0 \in 0..(MaxLatency + 1) /\ 0 \in 0..(MaxRetries + 1)
  BY TimingAssumption, RetriesAssumption
<1>2. Front.retry <= MaxRetries => Front.retry + 1 \in 0..(MaxRetries + 1)
  BY RetriesAssumption DEF Command
<1> QED
  BY <1>1, <1>2 DEF Moved, Command

(* A change of the front's state to one where its domain may wait, and to one  *)
(* past authentication only with a session.                                   *)
LEMMA StateStep ==
  ASSUME IInv, queue # <<>>, Environment',
         NEW st \in States \ {"IDLE", "WAITING_FOR_INFOTAINMENT_AUTH_RESPONSE",
                              "WAITING_FOR_LOCK_RESPONSE"},
         NEW c, Moved(c, st), SetFront(c),
         OnPath(c), PastAuth(c) => peer'[DomainOf(Front.kind)]
  PROVE  IInv'
<1>1. c \in Command /\ c.id = Front.id /\ c.kind = Front.kind /\ c.started = Front.started
      /\ c.sent = Front.sent /\ c.checks = Front.checks
      /\ (c.tx = Front.tx \/ c.tx = 0) /\ c.state = st
  BY DEF Moved
<1> QED
  BY <1>1, MoveStep

LEMMA AwaitVCSECAuthStep == ASSUME IInv, AwaitVCSECAuth PROVE IInv'
<1> DEFINE c == [Front EXCEPT !.state = "READY"]
<1>1. Serving("WAITING_FOR_VCSEC_AUTH") /\ peer' = peer /\ peer \in [Domains -> BOOLEAN]
  BY DEF AwaitVCSECAuth, IInv, Environment
<1>2. /\ queue # <<>> /\ Front \in Command /\ Sound(Front)
      /\ Front.state = "WAITING_FOR_VCSEC_AUTH" /\ Environment'
  BY <1>1, ServingFacts
<1>3. DomainOf(Front.kind) = "VCSEC"
  BY <1>2 DEF Sound, OnPath
<1>4. CASE peer["VCSEC"]
  <2>1. SetFront(c)
    BY <1>3, <1>4 DEF AwaitVCSECAuth
  <2>2. "READY" \in States /\ Moved(c, "READY")
    BY <1>2, MovedForms DEF States
  <2> HIDE DEF c
  <2>3. OnPath(c)
    BY <1>3, <2>2 DEF OnPath, Moved
  <2> QED
    BY <1>1, <1>2, <1>3, <1>4, <2>1, <2>2, <2>3, StateStep
<1>5. CASE ~peer["VCSEC"]
  <2>1. "VCSEC" \in Domains /\ AuthState("VCSEC") = "WAITING_FOR_VCSEC_AUTH"
    BY DEF Domains, AuthState
  <2> QED
    BY <1>1, <1>5, <2>1, RequestSessionStep DEF AwaitVCSECAuth
<1> QED
  BY <1>4, <1>5

LEMMA AwaitInfotainmentAuthStep == ASSUME IInv, AwaitInfotainmentAuth PROVE IInv'
<1>1. Serving("WAITING_FOR_INFOTAINMENT_AUTH") /\ peer' = peer /\ peer \in [Domains -> BOOLEAN]
  BY DEF AwaitInfotainmentAuth, IInv, Environment
<1>2. /\ queue # <<>> /\ Front \in Command /\ Sound(Front)
      /\ Front.state = "WAITING_FOR_INFOTAINMENT_AUTH" /\ Environment'
  BY <1>1, ServingFacts
<1>3. DomainOf(Front.kind) = "INFOTAINMENT"
  BY <1>2 DEF Sound, OnPath, DomainOf
<1>4. ASSUME NEW s \in {"READY", "WAITING_FOR_WAKE"},
             SetFront([Front EXCEPT !.state = s]),
             s = "READY" => peer["INFOTAINMENT"]
      PROVE  IInv'
  <2> DEFINE c == [Front EXCEPT !.state = s]
  <2>1. s \in States /\ Moved(c, s) /\ SetFront(c)
    BY <1>2, <1>4, MovedForms DEF States
  <2> HIDE DEF c
  <2>2. OnPath(c) /\ (PastAuth(c) => s = "READY")
    BY <1>3, <2>1 DEF OnPath, PastAuth, Moved
  <2> QED
    BY <1>1, <1>2, <1>3, <1>4, <2>1, <2>2, StateStep
<1>5. CASE asleep /\ SetFront([Front EXCEPT !.state = "WAITING_FOR_WAKE"])
  BY <1>4, <1>5
<1>6. CASE ~asleep /\ peer["INFOTAINMENT"] /\ SetFront([Front EXCEPT !.state = "READY"])
  BY <1>4, <1>6
<1>7. CASE ~asleep /\ ~peer["INFOTAINMENT"] /\ RequestSession("INFOTAINMENT")
  <2>1. "INFOTAINMENT" \in Domains /\ AuthState("INFOTAINMENT") = "WAITING_FOR_INFOTAINMENT_AUTH"
    BY DEF Domains, AuthState
  <2> QED
    BY <1>1, <1>7, <2>1, RequestSessionStep
<1> QED
  BY <1>5, <1>6, <1>7 DEF AwaitInfotainmentAuth

LEMMA AuthResponseTimeoutStep == ASSUME IInv, AuthResponseTimeout PROVE IInv'
<1>1. peer' = peer /\ peer' \in [Domains -> BOOLEAN]
  BY DEF AuthResponseTimeout, IInv, Environment
<1>2. ASSUME NEW d \in Domains, Serving(AuthResponseState(d)),
             NEW c, Moved(c, AuthState(d)), SetFront(c)
      PROVE  IInv'
  <2>1. /\ queue # <<>> /\ Front \in Command /\ Sound(Front)
        /\ Front.state = AuthResponseState(d) /\ Environment'
    BY <1>1, <1>2, ServingFacts
  <2>2. OnPath(c) /\ ~PastAuth(c)
    BY <1>2, <2>1 DEF AuthResponseState, AuthState, Moved, Sound, OnPath, PastAuth
  <2> QED
    BY <1>2, <2>1, <2>2, AuthStates, StateStep
<1>3. CASE /\ Serving("WAITING_FOR_VCSEC_AUTH_RESPONSE")
           /\ SetFront([Front EXCEPT !.state = AuthState("VCSEC")])
  <2>1. Front \in Command
    BY <1>1, <1>3, ServingFacts
  <2>2. Moved([Front EXCEPT !.state = AuthState("VCSEC")], AuthState("VCSEC"))
    BY <2>1, AuthStates, MovedForms
  <2> QED
    BY <1>2, <1>3, <2>2 DEF AuthResponseState, Domains
<1>4. CASE /\ Serving("WAITING_FOR_INFOTAINMENT_AUTH_RESPONSE")
           /\ SetFront([Front EXCEPT !.state = AuthState("INFOTAINMENT"), !.retry = @ + 1])
  <2>1. Front \in Command /\ Front.retry <= MaxRetries
    BY <1>1, <1>4, ServingFacts DEF Sound
  <2>2. Moved([Front EXCEPT !.state = AuthState("INFOTAINMENT"), !.retry = @ + 1],
              AuthState("INFOTAINMENT"))
    BY <2>1, AuthStates, MovedForms
  <2> QED
    BY <1>2, <1>4, <2>2 DEF AuthResponseState, Domains
<1> QED
  BY <1>3, <1>4 DEF AuthResponseTimeout

(* A build that fails takes away at most the session of its own domain.        *)
LEMMA PeerAfterBuild ==
  ASSUME IInv, NEW d \in Domains, NEW result
  PROVE  /\ PeerAfter(result, d) \in [Domains -> BOOLEAN]
         /\ (result # "invalid" => PeerAfter(result, d) = peer)
  BY DEF IInv, Environment, PeerAfter

(* An attempt to wake, whether or not a message left.                          *)
LEMMA WakeTriedStep ==
  ASSUME IInv, queue # <<>>, Environment',
         Front.tx > MaxLatency, Front.started <= CommandTimeout, Front.retry <= MaxRetries,
         NEW result, NEW st \in {"WAITING_FOR_WAKE_RESPONSE", "WAITING_FOR_VCSEC_AUTH"},
         SetFront(WakeTried(result, st)),
         DomainOf(Front.kind) = "INFOTAINMENT" => st = "WAITING_FOR_WAKE_RESPONSE",
         DomainOf(Front.kind) = "VCSEC" /\ st = "WAITING_FOR_WAKE_RESPONSE"
           => Front.kind = "wake" /\ peer'["VCSEC"]
  PROVE  IInv'
<1> DEFINE c == WakeTried(result, st)
<1>1. /\ c \in Command /\ c.id = Front.id /\ c.kind = Front.kind /\ c.started = Front.started
      /\ c.tx = 0 /\ c.state = st /\ c.checks = Front.checks
      /\ c.sent = IF result = "ok" THEN Front.sent + 1 ELSE Front.sent
  <2>1. st \in States
    BY DEF States
  <2> QED
    BY <2>1, FrontFields DEF WakeTried, Command
<1>2. SetFront(c)
  OBVIOUS
<1> HIDE DEF c
<1>3. DomainOf(Front.kind) \in {"VCSEC", "INFOTAINMENT"}
  BY DEF DomainOf
<1>4. OnPath(c) /\ (PastAuth(c) => peer'[DomainOf(Front.kind)])
  BY <1>1, <1>3 DEF OnPath, PastAuth
<1>5. CASE result = "ok"
  BY <1>1, <1>2, <1>4, <1>5, SendStep
<1>6. CASE result # "ok"
  BY <1>1, <1>2, <1>4, <1>6, MoveStep
<1> QED
  BY <1>5, <1>6

LEMMA SendWakeStep == ASSUME IInv, SendWake PROVE IInv'
<1>1. PICK result : peer' = peer \/ peer' = PeerAfter(result, "VCSEC")
  BY DEF SendWake
<1>2. peer' \in [Domains -> BOOLEAN]
  BY <1>1, PeerAfterBuild DEF IInv, Environment, Domains
<1>3. Serving("WAITING_FOR_WAKE")
  BY DEF SendWake
<1>4. /\ queue # <<>> /\ Front \in Command /\ Sound(Front) /\ Front.state = "WAITING_FOR_WAKE"
      /\ Environment' /\ Front.started <= CommandTimeout /\ Front.tx > MaxLatency
  BY <1>2, <1>3, ServingFacts
<1>5. DomainOf(Front.kind) # "VCSEC"
  BY <1>4 DEF Sound, OnPath
<1>6. CASE Front.retry > MaxRetries /\ Pop
  BY <1>4, <1>6, PopStep
<1>7. ASSUME Front.retry <= MaxRetries, NEW r,
             SetFront(WakeTried(r, "WAITING_FOR_WAKE_RESPONSE"))
      PROVE  IInv'
  BY <1>4, <1>5, <1>7, WakeTriedStep
<1> QED
  BY <1>6, <1>7 DEF SendWake

LEMMA WakeSeenStep == ASSUME IInv, WakeSeen PROVE IInv'
<1> DEFINE c == [Front EXCEPT !.state = AuthState("INFOTAINMENT"), !.retry = 0]
<1>1. Serving("WAITING_FOR_WAKE_RESPONSE") /\ peer' \in [Domains -> BOOLEAN]
  BY DEF WakeSeen, IInv, Environment
<1>2. /\ queue # <<>> /\ Front \in Command /\ Sound(Front) /\ Environment'
      /\ Front.state = "WAITING_FOR_WAKE_RESPONSE"
  BY <1>1, ServingFacts
<1>3. CASE Front.kind = "wake"
  BY <1>2, <1>3, PopStep DEF WakeSeen
<1>4. CASE Front.kind # "wake"
  <2>1. Moved(c, AuthState("INFOTAINMENT")) /\ SetFront(c)
    BY <1>2, <1>4, AuthStates, MovedForms DEF WakeSeen
  <2> HIDE DEF c
  <2>2. DomainOf(Front.kind) # "VCSEC"
    BY <1>2, <1>4 DEF Sound, OnPath
  <2>3. OnPath(c) /\ ~PastAuth(c)
    BY <2>1, <2>2 DEF Moved, OnPath, PastAuth, AuthState
  <2> QED
    BY <1>2, <2>1, <2>3, AuthStates, StateStep
<1> QED
  BY <1>3, <1>4

LEMMA PollWakeStep == ASSUME IInv, PollWake PROVE IInv'
<1>1. PICK result :
        /\ peer' = PeerAfter(result, "VCSEC")
        /\ GiveUpPollingWake(WakeTried(result, StateAfterWake(result)))
  BY DEF PollWake
<1>2. "VCSEC" \in Domains /\ peer' \in [Domains -> BOOLEAN]
      /\ (result # "invalid" => peer' = peer)
  BY <1>1, PeerAfterBuild DEF Domains
<1>3. Serving("WAITING_FOR_WAKE_RESPONSE")
  BY DEF PollWake
<1>4. /\ queue # <<>> /\ Front \in Command /\ Sound(Front) /\ Environment'
      /\ Front.state = "WAITING_FOR_WAKE_RESPONSE"
      /\ Front.started <= CommandTimeout /\ Front.tx > MaxLatency
      /\ (PastAuth(Front) => peer[DomainOf(Front.kind)])
  BY <1>2, <1>3, ServingFacts
<1>5. DomainOf(Front.kind) = "VCSEC" => Front.kind = "wake" /\ peer["VCSEC"]
  BY <1>4 DEF Sound, OnPath, PastAuth
<1>6. CASE WakeTried(result, StateAfterWake(result)).retry > MaxRetries
  BY <1>1, <1>4, <1>6, PopStep DEF GiveUpPollingWake
<1>7. CASE ~(WakeTried(result, StateAfterWake(result)).retry > MaxRetries)
  <2>1. WakeTried(result, StateAfterWake(result)).retry = Front.retry + 1
    BY <1>4 DEF WakeTried, Command
  <2>2. Front.retry <= MaxRetries
    BY <1>4, <1>7, <2>1, FrontFields, RetriesAssumption
  <2>3. SetFront(WakeTried(result, StateAfterWake(result)))
    BY <1>1, <1>7 DEF GiveUpPollingWake
  <2>4. /\ StateAfterWake(result) \in {"WAITING_FOR_WAKE_RESPONSE", "WAITING_FOR_VCSEC_AUTH"}
        /\ (DomainOf(Front.kind) = "INFOTAINMENT"
              => StateAfterWake(result) = "WAITING_FOR_WAKE_RESPONSE")
        /\ (DomainOf(Front.kind) = "VCSEC" /\ StateAfterWake(result) = "WAITING_FOR_WAKE_RESPONSE"
              => result # "invalid")
    BY DEF StateAfterWake, AuthState
  <2> QED
    BY <1>2, <1>4, <1>5, <2>2, <2>3, <2>4, WakeTriedStep
<1> QED
  BY <1>6, <1>7

(* Asking for the status writes two counts and nothing else.                   *)
LEMMA AskedFields ==
  ASSUME Front \in Command, NEW result
  PROVE  LET c == StatusAsked(result) IN
         /\ c \in Command /\ c.id = Front.id /\ c.kind = Front.kind /\ c.state = Front.state
         /\ c.started = Front.started /\ c.tx = Front.tx /\ c.sent = Front.sent
         /\ c.retry = Front.retry /\ c.done = 1
         /\ c.checks \in {Front.checks, Front.checks + 1}
<1> DEFINE n == IF result = "ok" THEN Front.checks + 1 ELSE Front.checks
           d == [Front EXCEPT !.done = 1]
           c == StatusAsked(result)
<1>1. n \in Nat /\ n \in {Front.checks, Front.checks + 1} /\ d \in Command
  BY DEF Command
<1>2. c = [Front EXCEPT !.done = 1, !.checks = n]
  BY DEF StatusAsked
<1> HIDE DEF n, c
<1>3. c = [d EXCEPT !.checks = n]
  BY <1>2
<1>4. /\ c.id = Front.id /\ c.kind = Front.kind /\ c.state = Front.state
      /\ c.started = Front.started /\ c.tx = Front.tx /\ c.sent = Front.sent
      /\ c.retry = Front.retry /\ c.done = 1 /\ c.checks = n
  BY <1>2 DEF Command
<1> HIDE DEF d
<1>5. c \in Command
  BY <1>1, <1>3 DEF Command
<1> QED
  BY <1>1, <1>4, <1>5 DEF c

LEMMA AwaitLockResponseStep == ASSUME IInv, AwaitLockResponse PROVE IInv'
<1>1. Serving("WAITING_FOR_LOCK_RESPONSE") /\ peer' = peer /\ peer' \in [Domains -> BOOLEAN]
  BY DEF AwaitLockResponse, IInv, Environment
<1>2. /\ queue # <<>> /\ Front \in Command /\ Sound(Front) /\ Environment'
      /\ Front.state = "WAITING_FOR_LOCK_RESPONSE"
      /\ (PastAuth(Front) => peer[DomainOf(Front.kind)])
  BY <1>1, ServingFacts
<1>3. peer'[DomainOf(Front.kind)]
  BY <1>1, <1>2 DEF PastAuth
<1>4. CASE LockedAsAsked /\ Pop
  BY <1>2, <1>4, PopStep
<1>5. ASSUME Front.done = 0, NEW result, SetFront(StatusAsked(result))
      PROVE  IInv'
  <2> DEFINE c == StatusAsked(result)
  <2>1. /\ c \in Command /\ c.id = Front.id /\ c.kind = Front.kind /\ c.state = Front.state
        /\ c.started = Front.started /\ c.tx = Front.tx /\ c.sent = Front.sent
        /\ c.retry = Front.retry /\ c.done = 1
        /\ c.checks \in {Front.checks, Front.checks + 1}
    BY <1>2, AskedFields
  <2>2. SetFront(c) /\ Front.checks \in Nat /\ Front.sent \in Nat
    BY <1>2, <1>5 DEF Command
  <2> HIDE DEF c
  <2>3. Checked(c)
    BY <1>2, <1>5, <2>1, <2>2 DEF Sound, Checked
  <2>4. Sound(c)
    BY <1>2, <2>1, <2>3 DEF Sound, OnPath, Spaced
  <2> QED
    BY <1>2, <1>3, <2>1, <2>2, <2>4, FrontStep
<1>6. CASE SetFront([Front EXCEPT !.state = "READY"])
  <2> DEFINE c == [Front EXCEPT !.state = "READY"]
  <2>1. Moved(c, "READY") /\ "READY" \in States
    BY <1>2, MovedForms DEF States
  <2>2. SetFront(c)
    BY <1>6
  <2> HIDE DEF c
  <2>3. OnPath(c)
    BY <1>2, <2>1 DEF Sound, OnPath, Moved
  <2> QED
    BY <1>2, <1>3, <2>1, <2>2, <2>3, StateStep
<1> QED
  BY <1>4, <1>5, <1>6 DEF AwaitLockResponse

LEMMA ExecuteStep == ASSUME IInv, Execute PROVE IInv'
<1> DEFINE c == [Transmitted(Front, StateAfterExecute(Front.kind))
                   EXCEPT !.retry = @ + 1,
                          !.done = IF Front.kind \in Locking THEN 0 ELSE @]
<1>1. Serving("READY") /\ peer' = peer /\ peer' \in [Domains -> BOOLEAN]
      /\ Front.retry < MaxRetries /\ SetFront(c)
  BY DEF Execute, IInv, Environment
<1>2. /\ queue # <<>> /\ Front \in Command /\ Sound(Front) /\ Environment'
      /\ Front.state = "READY" /\ Front.started <= CommandTimeout /\ Front.tx > MaxLatency
      /\ (PastAuth(Front) => peer[DomainOf(Front.kind)])
  BY <1>1, ServingFacts
<1>3. peer'[DomainOf(Front.kind)]
  BY <1>1, <1>2 DEF PastAuth
<1>4. /\ StateAfterExecute(Front.kind) \in States \ {"IDLE"}
      /\ StateAfterExecute(Front.kind) \in
           {"WAITING_FOR_RESPONSE", "WAITING_FOR_LOCK_RESPONSE", "WAITING_FOR_WAKE_RESPONSE"}
      /\ (StateAfterExecute(Front.kind) = "WAITING_FOR_WAKE_RESPONSE" => Front.kind = "wake")
      /\ (StateAfterExecute(Front.kind) = "WAITING_FOR_LOCK_RESPONSE" => Front.kind \in Locking)
  BY DEF StateAfterExecute, States
<1>5. /\ c \in Command /\ c.id = Front.id /\ c.kind = Front.kind /\ c.started = Front.started
      /\ c.tx = 0 /\ c.sent = Front.sent + 1 /\ c.state = StateAfterExecute(Front.kind)
      /\ c.checks = Front.checks
  <2> DEFINE e == Transmitted(Front, StateAfterExecute(Front.kind))
             done == IF Front.kind \in Locking THEN 0 ELSE e.done
  <2>1. Front.retry + 1 \in 0..(MaxRetries + 1)
    BY <1>1, <1>2, FrontFields, RetriesAssumption
  <2>2. /\ e \in Command /\ e.id = Front.id /\ e.kind = Front.kind
        /\ e.started = Front.started /\ e.tx = 0 /\ e.sent = Front.sent + 1
        /\ e.state = StateAfterExecute(Front.kind) /\ e.retry = Front.retry
        /\ e.checks = Front.checks
    BY <1>2, <1>4, FrontFields DEF Transmitted, Command
  <2>3. c = [e EXCEPT !.retry = @ + 1, !.done = done]
    BY <2>2
  <2>4. done \in 0..1
    BY <2>2 DEF Command
  <2> HIDE DEF c, e, done
  <2> QED
    BY <2>1, <2>2, <2>3, <2>4 DEF Command
<1> HIDE DEF c
<1>6. OnPath(c)
  BY <1>2, <1>4, <1>5 DEF Sound, OnPath
<1> QED
  BY <1>1, <1>2, <1>3, <1>4, <1>5, <1>6, SendStep

LEMMA ExecuteFailsStep == ASSUME IInv, ExecuteFails PROVE IInv'
<1>1. PICK result :
        /\ peer' = PeerAfter(result, DomainOf(Front.kind))
        /\ SetFront([Front EXCEPT !.retry = @ + 1,
                        !.state = IF result = "invalid"
                                  THEN AuthState(DomainOf(Front.kind)) ELSE @])
  BY DEF ExecuteFails
<1> DEFINE c == [Front EXCEPT !.retry = @ + 1,
                        !.state = IF result = "invalid"
                                  THEN AuthState(DomainOf(Front.kind)) ELSE @]
<1>2. DomainOf(Front.kind) \in Domains
  BY DEF DomainOf, Domains
<1>3. peer' \in [Domains -> BOOLEAN] /\ (result # "invalid" => peer' = peer)
  BY <1>1, <1>2, PeerAfterBuild
<1>4. Serving("READY") /\ Front.retry < MaxRetries
  BY DEF ExecuteFails
<1>5. /\ queue # <<>> /\ Front \in Command /\ Sound(Front) /\ Environment'
      /\ Front.state = "READY" /\ (PastAuth(Front) => peer[DomainOf(Front.kind)])
  BY <1>3, <1>4, ServingFacts
<1>6. SetFront(c)
  BY <1>1
<1>7. /\ c.state = (IF result = "invalid" THEN AuthState(DomainOf(Front.kind)) ELSE "READY")
      /\ c.state \in States \ {"IDLE", "WAITING_FOR_INFOTAINMENT_AUTH_RESPONSE",
                              "WAITING_FOR_LOCK_RESPONSE"}
      /\ Moved(c, c.state)
  <2>1. Front.retry + 1 \in 0..(MaxRetries + 1)
    BY <1>4, <1>5, FrontFields, RetriesAssumption
  <2>2. AuthState(DomainOf(Front.kind)) \in States
    BY AuthStates
  <2>3. c.state = (IF result = "invalid" THEN AuthState(DomainOf(Front.kind)) ELSE "READY")
    BY <1>5 DEF Command
  <2>4. c \in Command
    BY <1>5, <2>1, <2>2 DEF Command
  <2>5. Moved(c, c.state)
    BY <1>5, <2>4 DEF Moved, Command
  <2> QED
    BY <2>3, <2>5, AuthStates DEF States
<1> HIDE DEF c
<1>8. OnPath(c) /\ (PastAuth(c) => result # "invalid")
  BY <1>5, <1>7 DEF Sound, OnPath, Moved, PastAuth, AuthState
<1>9. PastAuth(Front)
  BY <1>5 DEF PastAuth
<1> QED
  BY <1>3, <1>5, <1>6, <1>7, <1>8, <1>9, StateStep

LEMMA ResponseTimeoutStep == ASSUME IInv, ResponseTimeout PROVE IInv'
<1> DEFINE c == [Front EXCEPT !.state = "READY"]
<1>1. Serving("WAITING_FOR_RESPONSE") /\ peer' = peer /\ peer' \in [Domains -> BOOLEAN]
      /\ SetFront(c)
  BY DEF ResponseTimeout, IInv, Environment
<1>2. /\ queue # <<>> /\ Front \in Command /\ Sound(Front) /\ Environment'
      /\ Front.state = "WAITING_FOR_RESPONSE"
      /\ (PastAuth(Front) => peer[DomainOf(Front.kind)])
  BY <1>1, ServingFacts
<1>3. Moved(c, "READY") /\ "READY" \in States
  BY <1>2, MovedForms DEF States
<1> HIDE DEF c
<1>4. OnPath(c)
  BY <1>2, <1>3 DEF Sound, OnPath, Moved
<1>5. peer'[DomainOf(Front.kind)]
  BY <1>1, <1>2 DEF PastAuth
<1> QED
  BY <1>1, <1>2, <1>3, <1>4, <1>5, StateStep

(* Appending is inserting at the back.                                         *)
LEMMA AppendIsInsert ==
  ASSUME NEW q, QueueOK(q), NEW c \in Command
  PROVE  Append(q, c) = List!Inserted(q, Len(q) + 1, c)
<1>1. q \in Seq(Command) /\ Len(q) \in Nat
  BY DEF QueueOK
<1> DEFINE a == Append(q, c)
           b == List!Inserted(q, Len(q) + 1, c)
<1>2. a \in Seq(Command) /\ Len(a) = Len(q) + 1
      /\ \A i \in 1..(Len(q) + 1) : a[i] = IF i <= Len(q) THEN q[i] ELSE c
  BY <1>1
<1>3. b \in Seq(Command) /\ Len(b) = Len(q) + 1
      /\ \A i \in 1..(Len(q) + 1) : b[i] = IF i <= Len(q) THEN q[i] ELSE c
  BY <1>1 DEF List!Inserted
<1> HIDE DEF a, b
<1>4. a = b
  BY <1>1, <1>2, <1>3
<1> QED
  BY <1>4 DEF a, b

LEMMA GetPostSetStep == ASSUME IInv, GetPostSet PROVE IInv'
<1>1. Serving("WAITING_FOR_GET_POST_SET") /\ peer' = peer /\ peer' \in [Domains -> BOOLEAN]
  BY DEF GetPostSet, IInv, Environment
<1>2. queue # <<>> /\ Front \in Command /\ Environment'
  BY <1>1, ServingFacts
<1>3. CASE Pop
  BY <1>2, <1>3, PopStep
<1>4. CASE /\ Len(queue) < Capacity
           /\ \E id \in Ids :
                /\ Fresh(id)
                /\ queue' = Append(Tail(queue), NewCommand(id, "get"))
                /\ callbacks' = (callbacks \cup {id}) \ {Front.id}
  <2>1. PICK id \in Ids :
          /\ Fresh(id)
          /\ queue' = Append(Tail(queue), NewCommand(id, "get"))
          /\ callbacks' = (callbacks \cup {id}) \ {Front.id}
    BY <1>4
  <2> DEFINE t == Tail(queue)
             c == NewCommand(id, "get")
  <2>2. QueueOK(queue) /\ callbacks = IdsOf(queue)
    BY DEF IInv
  <2>3. QueueOK(t) /\ IdsOf(t) = IdsOf(queue) \ {Front.id}
        /\ (\A i \in 1..Len(t) : Pristine(t[i])) /\ Len(t) = Len(queue) - 1
    BY <1>2, <2>2, DropFront DEF Front
  <2>4. Len(queue) \in Nat /\ Len(queue) <= Capacity
    BY <2>2 DEF QueueOK
  <2>5. id \notin IdsOf(queue) /\ Front.id \in IdsOf(queue)
    BY <1>2, <2>1, <2>2, <2>4 DEF Fresh, LiveIds, IdsOf, Front, QueueOK
  <2>6. c \in Command /\ c.id = id /\ Pristine(c) /\ Sound(c)
    BY NewIsSound DEF AllKinds
  <2>7. queue' = Append(t, c) /\ callbacks' = (callbacks \cup {id}) \ {Front.id}
    BY <2>1
  <2> HIDE DEF t, c
  <2>8. Len(t) \in Nat /\ Len(t) < Capacity /\ Len(t) + 1 \in 1..(Len(t) + 1)
        /\ (t # <<>> => Pristine(t[1])) /\ (Len(t) + 1 = 1 <=> t = <<>>)
    BY <1>2, <2>3, <2>4, CapacityAssumption DEF QueueOK
  <2>9. queue' = List!Inserted(t, Len(t) + 1, c)
    BY <2>3, <2>6, <2>7, AppendIsInsert
  <2>10. QueueOK(queue') /\ IdsOf(queue') = IdsOf(t) \cup {id} /\ Pristine(queue'[1])
    BY <2>3, <2>5, <2>6, <2>8, <2>9, InsertCommand
  <2>11. callbacks' = IdsOf(queue')
    BY <2>2, <2>3, <2>5, <2>7, <2>10
  <2>12. Backed(queue', peer')
    BY <2>10 DEF Backed, Pristine, PastAuth
  <2> QED
    BY <1>2, <2>10, <2>11, <2>12 DEF IInv
<1> QED
  BY <1>3, <1>4 DEF GetPostSet

LEMMA CommandQueueStep == ASSUME IInv, process_command_queue PROVE IInv'
<1>1. peer \in [Domains -> BOOLEAN]
  BY DEF IInv, Environment
<1>2. CASE NothingToDo
  <2>1. Environment'
    BY <1>2 DEF NothingToDo, InCommandPhase, sensors, IInv, Environment
  <2> QED
    BY <1>2, <2>1, QuietStep DEF NothingToDo
<1>3. CASE Abandon
  <2>1. Environment'
    BY <1>3 DEF Abandon, InCommandPhase, sensors, IInv, Environment
  <2> QED
    BY <1>3, <2>1, PopStep DEF Abandon
<1>4. CASE GiveUpExecuting
  <2>1. peer' \in [Domains -> BOOLEAN] /\ Serving("READY") /\ Pop
    BY <1>1, <1>4 DEF GiveUpExecuting
  <2> QED
    BY <2>1, ServingFacts, PopStep
<1> QED
  BY <1>2, <1>3, <1>4, StartIdleStep, AwaitVCSECAuthStep, AwaitInfotainmentAuthStep,
     AuthResponseTimeoutStep, SendWakeStep, WakeSeenStep, PollWakeStep,
     AwaitLockResponseStep, ExecuteStep, ExecuteFailsStep, ResponseTimeoutStep,
     GetPostSetStep
  DEF process_command_queue

----------------------------------------------------------------------------
(* process_response_queue.                                                    *)

(* Sending the front command back to authenticate needs no session.            *)
LEMMA InvalidatedKeeps ==
  ASSUME NEW q, QueueOK(q), NEW d \in Domains,
         NEW p \in [Domains -> BOOLEAN], Backed(q, p),
         NEW r \in [Domains -> BOOLEAN], \A e \in Domains \ {d} : r[e] = p[e]
  PROVE  /\ QueueOK(Invalidated(q, d)) /\ IdsOf(Invalidated(q, d)) = IdsOf(q)
         /\ Backed(Invalidated(q, d), r)
<1> DEFINE c == [q[1] EXCEPT !.state = AuthState(d)]
<1>1. CASE q # <<>> /\ DomainOf(q[1].kind) = d
  <2>1. q[1] \in Command /\ Sound(q[1])
    BY <1>1 DEF QueueOK
  <2>2. /\ c \in Command /\ c.id = q[1].id /\ c.kind = q[1].kind /\ c.state = AuthState(d)
        /\ c.sent = q[1].sent /\ c.tx = q[1].tx /\ c.started = q[1].started
        /\ c.checks = q[1].checks
    BY <2>1, AuthStates DEF Command
  <2>3. Invalidated(q, d) = [q EXCEPT ![1] = c]
    BY <1>1 DEF Invalidated
  <2> HIDE DEF c
  <2>4. Sound(c) /\ ~PastAuth(c)
    BY <1>1, <2>1, <2>2, AuthStates DEF Sound, OnPath, Spaced, Checked, PastAuth, AuthState
  <2>5. /\ QueueOK([q EXCEPT ![1] = c]) /\ IdsOf([q EXCEPT ![1] = c]) = IdsOf(q)
        /\ [q EXCEPT ![1] = c][1] = c
    BY <1>1, <2>2, <2>4, ChangeFront
  <2> QED
    BY <2>3, <2>4, <2>5 DEF Backed
<1>2. CASE ~(q # <<>> /\ DomainOf(q[1].kind) = d)
  <2>1. Invalidated(q, d) = q
    BY <1>2 DEF Invalidated
  <2>2. DomainOf(q[1].kind) \in Domains
    BY DEF DomainOf, Domains
  <2> QED
    BY <1>2, <2>1, <2>2 DEF Backed
<1> QED
  BY <1>1, <1>2

(* An answer to a session request readies the front command for the session it  *)
(* brought.                                                                  *)
LEMMA AuthenticatedKeeps ==
  ASSUME NEW q, QueueOK(q), NEW d \in Domains,
         NEW p \in [Domains -> BOOLEAN], Backed(q, p), p[d]
  PROVE  /\ QueueOK(Authenticated(q, d)) /\ IdsOf(Authenticated(q, d)) = IdsOf(q)
         /\ Backed(Authenticated(q, d), p)
<1> DEFINE c == AfterAuth(q[1])
<1>1. CASE q # <<>> /\ q[1].state = AuthResponseState(d)
  <2>1. q[1] \in Command /\ Sound(q[1]) /\ DomainOf(q[1].kind) \in Domains
    BY <1>1 DEF QueueOK, DomainOf, Domains
  <2>2. DomainOf(q[1].kind) = d
    BY <1>1, <2>1 DEF Sound, OnPath, AuthResponseState, Domains
  <2>3. /\ c \in Command /\ c.id = q[1].id /\ c.kind = q[1].kind /\ c.state = "READY"
        /\ c.sent = q[1].sent /\ c.tx = q[1].tx /\ c.started = q[1].started
        /\ c.checks = q[1].checks
    <3>1. "READY" \in States /\ 0 \in 0..(MaxRetries + 1)
      BY RetriesAssumption DEF States
    <3>2. c = [q[1] EXCEPT !.retry = 0, !.state = "READY"]
      BY <1>1, <2>2 DEF AfterAuth, AuthResponseState, Domains
    <3> QED
      BY <2>1, <3>1, <3>2 DEF Command
  <2>4. Authenticated(q, d) = [q EXCEPT ![1] = c]
    BY <1>1 DEF Authenticated
  <2> HIDE DEF c
  <2>5. Sound(c)
    BY <2>1, <2>3 DEF Sound, OnPath, Spaced, Checked
  <2>6. /\ QueueOK([q EXCEPT ![1] = c]) /\ IdsOf([q EXCEPT ![1] = c]) = IdsOf(q)
        /\ [q EXCEPT ![1] = c][1] = c
    BY <1>1, <2>3, <2>5, ChangeFront
  <2> QED
    BY <2>2, <2>3, <2>4, <2>6 DEF Backed
<1>2. CASE ~(q # <<>> /\ q[1].state = AuthResponseState(d))
  BY <1>2 DEF Authenticated
<1> QED
  BY <1>1, <1>2

LEMMA SessionStep ==
  ASSUME IInv, NEW d \in Domains,
         SessionInfo(d) \/ Fault(d) \/ FaultWithSessionInfo(d)
  PROVE  IInv'
<1>1. /\ QueueOK(queue) /\ callbacks = IdsOf(queue) /\ Backed(queue, peer)
      /\ peer \in [Domains -> BOOLEAN]
  BY DEF IInv, Environment
<1>2. \A b \in BOOLEAN : /\ [peer EXCEPT ![d] = b] \in [Domains -> BOOLEAN]
                         /\ [peer EXCEPT ![d] = b][d] = b
                         /\ \A e \in Domains \ {d} : [peer EXCEPT ![d] = b][e] = peer[e]
  BY <1>1
<1>3. Environment' /\ callbacks' = callbacks
  BY <1>2 DEF SessionInfo, Fault, FaultWithSessionInfo, Receive, sensors, IInv, Environment
<1>4. CASE SessionInfo(d)
  <2>1. peer' = [peer EXCEPT ![d] = TRUE] /\ queue' = Authenticated(queue, d)
    BY <1>4 DEF SessionInfo
  <2>2. Backed(queue, peer')
    BY <1>1, <1>2, <2>1 DEF Backed, DomainOf, Domains
  <2> QED
    BY <1>1, <1>2, <1>3, <2>1, <2>2, AuthenticatedKeeps DEF IInv
<1>5. CASE Fault(d)
  <2>1. peer' = [peer EXCEPT ![d] = FALSE] /\ queue' = Invalidated(queue, d)
    BY <1>5 DEF Fault
  <2> QED
    BY <1>1, <1>2, <1>3, <2>1, InvalidatedKeeps DEF IInv
<1>6. CASE FaultWithSessionInfo(d)
  <2>1. /\ peer' = [peer EXCEPT ![d] = TRUE]
        /\ queue' = Authenticated(Invalidated(queue, d), d)
    BY <1>6 DEF FaultWithSessionInfo
  <2>2. /\ QueueOK(Invalidated(queue, d)) /\ IdsOf(Invalidated(queue, d)) = IdsOf(queue)
        /\ Backed(Invalidated(queue, d), peer')
    BY <1>1, <1>2, <2>1, InvalidatedKeeps
  <2> QED
    BY <1>1, <1>2, <1>3, <2>1, <2>2, AuthenticatedKeeps DEF IInv
<1> QED
  BY <1>4, <1>5, <1>6

LEMMA VehicleStatusStep ==
  ASSUME IInv, NEW sleeping \in BOOLEAN, NEW open \in BOOLEAN, VehicleStatus(sleeping, open)
  PROVE  IInv'
<1>1. peer \in [Domains -> BOOLEAN] /\ QueueOK(queue) /\ callbacks = IdsOf(queue)
      /\ Backed(queue, peer)
  BY DEF IInv, Environment
<1>2. "INFOTAINMENT" \in Domains
      /\ [peer EXCEPT !["INFOTAINMENT"] = FALSE] \in [Domains -> BOOLEAN]
      /\ \A e \in Domains \ {"INFOTAINMENT"} :
           [peer EXCEPT !["INFOTAINMENT"] = FALSE][e] = peer[e]
  BY <1>1 DEF Domains
<1>3. peer' \in [Domains -> BOOLEAN]
  BY <1>1, <1>2 DEF VehicleStatus
<1>4. Environment'
  BY <1>3 DEF VehicleStatus, Receive, IInv, Environment
<1>5. CASE StatusCompletes(sleeping) /\ Pop /\ UNCHANGED peer
  <2>1. queue # <<>>
    BY <1>5 DEF StatusCompletes, FrontIs
  <2> QED
    BY <1>4, <1>5, <2>1, PopStep
<1>6. CASE /\ StatusWakes(sleeping)
           /\ SetFront([Front EXCEPT !.state = AuthState("INFOTAINMENT"), !.retry = 0])
           /\ UNCHANGED peer
  <2> DEFINE c == [Front EXCEPT !.state = AuthState("INFOTAINMENT"), !.retry = 0]
  <2>1. queue # <<>> /\ Front \in Command /\ DomainOf(Front.kind) = "INFOTAINMENT"
    BY <1>6, FrontFacts DEF StatusWakes, FrontIs
  <2>2. Moved(c, AuthState("INFOTAINMENT")) /\ SetFront(c)
    BY <1>6, <2>1, AuthStates, MovedForms
  <2> HIDE DEF c
  <2>3. OnPath(c) /\ ~PastAuth(c)
    BY <2>1, <2>2 DEF Moved, OnPath, PastAuth, AuthState
  <2> QED
    BY <1>4, <2>1, <2>2, <2>3, AuthStates, StateStep
<1>7. CASE /\ peer' = [peer EXCEPT !["INFOTAINMENT"] = FALSE]
           /\ queue' = Invalidated(queue, "INFOTAINMENT")
           /\ UNCHANGED callbacks
  BY <1>1, <1>2, <1>4, <1>7, InvalidatedKeeps DEF IInv
<1>8. CASE Unmoved /\ UNCHANGED peer
  BY <1>4, <1>8, QuietStep DEF Unmoved
<1> QED
  BY <1>5, <1>6, <1>7, <1>8 DEF VehicleStatus

(* A command answered while it waits for a response goes back to READY or stays *)
(* past authentication: its session is still there.                           *)
LEMMA AnsweredStep ==
  ASSUME IInv, NEW d \in Domains, FrontIs(d, {"WAITING_FOR_RESPONSE"}), Environment',
         UNCHANGED peer,
         NEW st \in {"READY", "WAITING_FOR_GET_POST_SET"},
         NEW c, Moved(c, st), SetFront(c),
         d = "VCSEC" => st = "READY"
  PROVE  IInv'
<1>1. /\ queue # <<>> /\ Front.state = "WAITING_FOR_RESPONSE" /\ DomainOf(Front.kind) = d
  BY DEF FrontIs
<1>2. Front \in Command /\ Sound(Front) /\ peer'[DomainOf(Front.kind)]
  BY <1>1, FrontFacts DEF PastAuth
<1>3. st \in States \ {"IDLE", "WAITING_FOR_INFOTAINMENT_AUTH_RESPONSE",
                      "WAITING_FOR_LOCK_RESPONSE"}
  BY DEF States
<1>4. OnPath(c)
  BY <1>1, <1>2 DEF Moved, Sound, OnPath
<1> QED
  BY <1>1, <1>2, <1>3, <1>4, StateStep

LEMMA CommandStatusStep ==
  ASSUME IInv, NEW status, CommandStatus(status)
  PROVE  IInv'
<1>1. /\ FrontIs("VCSEC", {"WAITING_FOR_RESPONSE"}) /\ peer' = peer /\ "VCSEC" \in Domains
      /\ Environment'
  BY DEF CommandStatus, Receive, sensors, IInv, Environment, Domains
<1>2. queue # <<>> /\ Front \in Command /\ "READY" \in States
  BY <1>1, FrontFacts DEF FrontIs, States
<1>3. CASE Pop
  BY <1>1, <1>2, <1>3, PopStep
<1>4. CASE SetFront([Front EXCEPT !.state = "READY", !.tx = 0])
  BY <1>1, <1>2, <1>4, MovedForms, AnsweredStep
<1>5. CASE SetFront([Front EXCEPT !.state = "READY"])
  BY <1>1, <1>2, <1>5, MovedForms, AnsweredStep
<1> QED
  BY <1>3, <1>4, <1>5 DEF CommandStatus

LEMMA CarServerResponseStep ==
  ASSUME IInv, NEW result, CarServerResponse(result)
  PROVE  IInv'
<1>1. /\ FrontIs("INFOTAINMENT", {"WAITING_FOR_RESPONSE"}) /\ peer' = peer
      /\ "INFOTAINMENT" \in Domains /\ Environment'
  BY DEF CarServerResponse, Receive, sensors, IInv, Environment, Domains
<1>2. queue # <<>> /\ Front \in Command /\ "READY" \in States
      /\ "WAITING_FOR_GET_POST_SET" \in States
  BY <1>1, FrontFacts DEF FrontIs, States
<1>3. CASE Pop
  BY <1>1, <1>2, <1>3, PopStep
<1>4. CASE SetFront([Front EXCEPT !.state = "WAITING_FOR_GET_POST_SET"])
  BY <1>1, <1>2, <1>4, MovedForms, AnsweredStep
<1>5. CASE SetFront([Front EXCEPT !.state = "READY"])
  BY <1>1, <1>2, <1>5, MovedForms, AnsweredStep
<1> QED
  BY <1>3, <1>4, <1>5 DEF CarServerResponse

LEMMA ResponseQueueStep == ASSUME IInv, process_response_queue PROVE IInv'
<1>1. CASE NoResponse
  <2>1. Environment' /\ UNCHANGED <<queue, callbacks, peer>>
    BY <1>1 DEF NoResponse, Receive, Unmoved, sensors, IInv, Environment
  <2> QED
    BY <2>1, QuietStep
<1> QED
  BY <1>1, SessionStep, VehicleStatusStep, CommandStatusStep, CarServerResponseStep
  DEF process_response_queue

----------------------------------------------------------------------------
(* Between loops.                                                             *)

LEMMA EnqueueStep == ASSUME IInv, NEW kind \in Kinds, Enqueue(kind) PROVE IInv'
<1> DEFINE front == kind \notin {"status", "forced", "get"}
           k == PlaceFor(queue, front)
<1>1. QueueOK(queue) /\ callbacks = IdsOf(queue) /\ Backed(queue, peer)
      /\ Len(queue) \in Nat /\ peer' = peer
  BY DEF IInv, QueueOK, Enqueue
<1>2. Environment'
  BY DEF Enqueue, BetweenLoops, sensors, IInv, Environment
<1>3. PICK id \in Ids :
        /\ Fresh(id) /\ Len(queue) < Capacity
        /\ queue' = List!Inserted(queue, k, NewCommand(id, kind))
        /\ callbacks' = callbacks \cup {id}
  BY DEF Enqueue, Add
<1>4. k \in 1..(Len(queue) + 1) /\ (k = 1 /\ queue # <<>> => Pristine(queue[1]))
  <2>1. queue # <<>> => Len(queue) >= 1 /\ Sound(queue[1])
    BY <1>1 DEF QueueOK
  <2> QED
    BY <1>1, <2>1 DEF PlaceFor, List!PriorityPlace, Sound
<1>5. kind \in AllKinds
  BY KindsAssumption
<1> DEFINE c == NewCommand(id, kind)
<1>6. c \in Command /\ c.id = id /\ Pristine(c) /\ Sound(c) /\ c.id \notin IdsOf(queue)
  BY <1>3, <1>5, NewIsSound DEF Fresh, LiveIds, IdsOf
<1>7. queue' = List!Inserted(queue, k, c)
  BY <1>3
<1> HIDE DEF c, k
<1>8. QueueOK(queue') /\ IdsOf(queue') = IdsOf(queue) \cup {id}
      /\ queue'[1] = IF k = 1 THEN c ELSE queue[1]
  BY <1>1, <1>3, <1>4, <1>6, <1>7, InsertCommand
<1>9. Backed(queue', peer')
  <2>1. CASE k = 1
    BY <1>6, <1>8, <2>1 DEF Backed, Pristine, PastAuth
  <2>2. CASE k # 1
    <3>1. queue # <<>>
      BY <1>1, <1>4, <2>2
    <3> QED
      BY <1>1, <1>8, <2>2, <3>1 DEF Backed
  <2> QED
    BY <2>1, <2>2
<1> QED
  BY <1>1, <1>2, <1>3, <1>8, <1>9 DEF IInv

LEMMA MoveClosureStep == ASSUME IInv, MoveClosure PROVE IInv'
<1>1. /\ QueueOK(queue) /\ callbacks = IdsOf(queue) /\ Backed(queue, peer)
      /\ peer \in [Domains -> BOOLEAN] /\ "VCSEC" \in Domains
  BY DEF IInv, Environment, Domains
<1>2. /\ peer' \in [Domains -> BOOLEAN] /\ queue' = Invalidated(queue, "VCSEC")
      /\ \A e \in Domains \ {"VCSEC"} : peer'[e] = peer[e]
      /\ callbacks' = callbacks
  BY <1>1 DEF MoveClosure
<1>3. Environment'
  BY <1>2 DEF MoveClosure, BetweenLoops, sensors, IInv, Environment
<1> QED
  BY <1>1, <1>2, <1>3, InvalidatedKeeps DEF IInv

LEMMA LinkStep == ASSUME IInv, Opened \/ Established \/ Disconnected PROVE IInv'
<1>1. UNCHANGED <<queue, callbacks>>
  BY DEF Opened, Established, Disconnected, Unmoved
<1>2. peer' \in [Domains -> BOOLEAN] /\ \A d \in Domains : peer[d] => peer'[d]
  BY DEF Opened, Established, Disconnected, IInv, Environment
<1>3. Environment'
  BY <1>2 DEF Opened, Established, Disconnected, BetweenLoops, sensors, IInv, Environment
<1> QED
  BY <1>1, <1>2, <1>3, QuietStep

LEMMA TickStep == ASSUME IInv, Tick PROVE IInv'
<1>1. QueueOK(queue) /\ callbacks = IdsOf(queue) /\ Backed(queue, peer) /\ queue # <<>>
      /\ queue' = [i \in 1..Len(queue) |-> Older(queue[i])] /\ callbacks' = callbacks
      /\ peer' = peer
  BY DEF IInv, Tick
<1>2. Environment'
  BY DEF Tick, sensors, IInv, Environment
<1>3. QueueOK(queue') /\ IdsOf(queue') = IdsOf(queue) /\ queue'[1] = Older(queue[1])
  BY <1>1, AgeQueue
<1>4. Older(queue[1]).state = queue[1].state /\ Older(queue[1]).kind = queue[1].kind
  <2>1. queue[1] \in Command
    BY <1>1 DEF QueueOK
  <2> QED
    BY <2>1 DEF Older, Command
<1>5. Backed(queue', peer')
  BY <1>1, <1>3, <1>4 DEF Backed, PastAuth
<1> QED
  BY <1>1, <1>2, <1>3, <1>5 DEF IInv

LEMMA ClearOneStep == ASSUME IInv, ClearOne PROVE IInv'
<1>1. Environment'
  BY DEF ClearOne, sensors, IInv, Environment
<1> QED
  BY <1>1, PopStep DEF ClearOne

----------------------------------------------------------------------------

LEMMA Initially == ASSUME Init PROVE IInv
<1>1. QueueOK(<<>>) /\ IdsOf(<<>>) = {}
  BY CapacityAssumption DEF QueueOK, IdsOf
<1> QED
  BY <1>1 DEF Init, IInv, Backed, Environment

LEMMA Inductive == ASSUME IInv, [Next]_vars PROVE IInv'
<1>1. CASE UNCHANGED vars
  <2>1. Environment'
    BY <1>1 DEF vars, IInv, Environment
  <2> QED
    BY <1>1, <2>1 DEF vars, IInv
<1>2. CASE Loop
  BY <1>2, ResponseQueueStep, CommandQueueStep, ClearOneStep DEF Loop
<1>3. CASE Tick
  BY <1>3, TickStep
<1>4. CASE \E kind \in Kinds : Enqueue(kind)
  BY <1>4, EnqueueStep
<1>5. CASE Opened \/ Established \/ Disconnected
  BY <1>5, LinkStep
<1>6. CASE MoveClosure
  BY <1>6, MoveClosureStep
<1> QED
  BY <1>1, <1>2, <1>3, <1>4, <1>5, <1>6 DEF Next

(* Every behaviour of the pipeline keeps the inductive invariant.              *)
THEOREM Invariance == Spec => []IInv
<1>1. Init => IInv
  BY Initially
<1>2. IInv /\ [Next]_vars => IInv'
  BY Inductive
<1> QED
  BY <1>1, <1>2, PTL DEF Spec

(* The queue holds commands, at most Capacity of them, whatever the handlers do *)
(* with retries, ages and states (cpp:177-524).                               *)
THEOREM TypeCorrect == Spec => []TypeOK
<1>1. IInv => TypeOK
  <2> SUFFICES ASSUME IInv PROVE TypeOK
    OBVIOUS
  <2>1. \A i \in 1..Len(queue) : queue[i].id \in Ids
    <3>1. \A i \in 1..Len(queue) : queue[i] \in Command
      BY DEF IInv, QueueOK
    <3> QED
      BY <3>1 DEF Command
  <2> QED
    BY <2>1 DEF IInv, QueueOK, IdsOf, Environment, TypeOK
<1> QED
  BY <1>1, Invariance, PTL

(* No command behind the front one was ever started (queue.zig:112-176).        *)
THEOREM BackUntouched == Spec => []OnlyFrontActive
<1>1. IInv => OnlyFrontActive
  <2> SUFFICES ASSUME IInv, NEW i \in 2..Len(queue)
               PROVE  Pristine(queue[i])
    BY DEF OnlyFrontActive, Pristine
  <2>1. i \in 1..Len(queue) /\ i > 1
    BY DEF IInv, QueueOK
  <2> QED
    BY <2>1 DEF IInv, QueueOK
<1> QED
  BY <1>1, Invariance, PTL

(* A command past authentication has a session to sign with (cpp:1982-2032).    *)
THEOREM ReadyHasSession == Spec => []SessionBehindReady
<1>1. IInv => SessionBehindReady
  BY DEF IInv, Backed, SessionBehindReady, Front
<1> QED
  BY <1>1, Invariance, PTL

(* One command never sends more than the latency timer allows within the        *)
(* overall timeout (.h:141-148, cpp:205-211), but for the one status request    *)
(* that may follow each lock or unlock (cpp:417-424).                           *)
THEOREM BudgetHolds == Spec => []TransmissionBudget
<1>1. IInv => TransmissionBudget
  <2> SUFFICES ASSUME IInv, NEW i \in 1..Len(queue)
               PROVE  /\ queue[i].sent <= CommandTimeout \div (MaxLatency + 1) + 1
                      /\ queue[i].checks <= IF queue[i].kind \in Locking
                                            THEN queue[i].sent ELSE 0
    BY DEF TransmissionBudget
  <2> DEFINE n == queue[i].sent
             most == CommandTimeout \div (MaxLatency + 1)
  <2>1. queue[i] \in Command /\ Spaced(queue[i]) /\ Checked(queue[i])
    BY DEF IInv, QueueOK, Sound
  <2>2. n \in Nat
    BY <2>1 DEF Command
  <2>3. ASSUME n >= 1 PROVE n <= most + 1
    BY <2>1, <2>2, <2>3, CostBounds DEF Spaced
  <2>4. ASSUME n = 0 PROVE n <= most + 1
    <3>1. most \in Nat
      BY TimingAssumption
    <3> HIDE DEF most
    <3>2. n <= most + 1
      BY <2>4, <3>1
    <3> QED
      BY <3>2 DEF most
  <2> QED
    BY <2>1, <2>2, <2>3, <2>4 DEF Checked
<1> QED
  BY <1>1, Invariance, PTL

(* Callbacks and queued commands correspond one to one (.h:328-345).            *)
THEOREM CallbacksMatch == Spec => []CallbackPerCommand
<1>1. IInv => CallbackPerCommand
  BY DEF IInv, QueueOK, IdsOf, LiveIds, CallbackPerCommand
<1> QED
  BY <1>1, Invariance, PTL

----------------------------------------------------------------------------
(* The refinement.  What the service sees of the queue is worked out once, then   *)
(* each change a step can make to the queue is shown to be a step of the service.  *)

Busy(q) == q # <<>> /\ q[1].state # "IDLE"
AllIds(q) == [i \in 1..Len(q) |-> q[i].id]
BackIds(q) == [i \in 1..(Len(q) - 1) |-> q[i + 1].id]

LEMMA Mapping ==
  /\ ServedId = IF Busy(queue) THEN queue[1].id ELSE 0
  /\ WaitingIds = IF Busy(queue) THEN BackIds(queue) ELSE AllIds(queue)
  /\ ServedAge = IF Busy(queue) THEN queue[1].started ELSE 0
  /\ ServedId' = IF Busy(queue') THEN queue'[1].id ELSE 0
  /\ WaitingIds' = IF Busy(queue') THEN BackIds(queue') ELSE AllIds(queue')
  /\ ServedAge' = IF Busy(queue') THEN queue'[1].started ELSE 0
BY DEF ServedId, WaitingIds, ServedAge, InProgress, Front, Busy, AllIds, BackIds

LEMMA IdSequences ==
  ASSUME NEW q \in Seq(Command)
  PROVE  /\ AllIds(q) \in Seq(Ids) /\ Len(AllIds(q)) = Len(q)
         /\ \A i \in 1..Len(q) : AllIds(q)[i] = q[i].id
         /\ q # <<>> => /\ BackIds(q) \in Seq(Ids) /\ Len(BackIds(q)) = Len(q) - 1
                        /\ \A i \in 1..(Len(q) - 1) : BackIds(q)[i] = q[i + 1].id
<1>1. \A i \in 1..Len(q) : q[i] \in Command
  OBVIOUS
<1>2. \A i \in 1..Len(q) : q[i].id \in Ids
  BY <1>1 DEF Command
<1>3. AllIds(q) \in Seq(Ids) /\ Len(AllIds(q)) = Len(q)
  BY <1>2 DEF AllIds
<1>4. ASSUME q # <<>>
      PROVE  BackIds(q) \in Seq(Ids) /\ Len(BackIds(q)) = Len(q) - 1
  <2>1. Len(q) - 1 \in Nat /\ \A i \in 1..(Len(q) - 1) : i + 1 \in 1..Len(q)
    BY <1>4
  <2>2. \A i \in 1..(Len(q) - 1) : q[i + 1].id \in Ids
    BY <1>2, <2>1
  <2> QED
    BY <2>1, <2>2 DEF BackIds
<1> QED
  BY <1>3, <1>4 DEF AllIds, BackIds

LEMMA IdsOfTail ==
  ASSUME NEW q \in Seq(Command), q # <<>>
  PROVE  /\ AllIds(q) # <<>> /\ Head(AllIds(q)) = q[1].id
         /\ Tail(AllIds(q)) = BackIds(q) /\ AllIds(Tail(q)) = BackIds(q)
<1> DEFINE a == AllIds(q)
           b == BackIds(q)
           t == Tail(q)
           c == AllIds(t)
<1>1. /\ a \in Seq(Ids) /\ Len(a) = Len(q) /\ Len(q) \in Nat \ {0}
      /\ \A i \in 1..Len(q) : a[i] = q[i].id
      /\ b \in Seq(Ids) /\ Len(b) = Len(q) - 1
      /\ \A i \in 1..(Len(q) - 1) : b[i] = q[i + 1].id /\ i + 1 \in 1..Len(q)
  BY IdSequences
<1>2. t \in Seq(Command) /\ Len(t) = Len(q) - 1 /\ \A i \in 1..(Len(q) - 1) : t[i] = q[i + 1]
  OBVIOUS
<1>3. c \in Seq(Ids) /\ Len(c) = Len(q) - 1 /\ \A i \in 1..(Len(q) - 1) : c[i] = t[i].id
  BY <1>2, IdSequences
<1> HIDE DEF a, b, t, c
<1>4. c = b
  BY <1>1, <1>2, <1>3
<1>5. a # <<>> /\ Head(a) = q[1].id
  BY <1>1
<1>6. Tail(a) = b
  BY <1>1, <1>5
<1> QED
  BY <1>4, <1>5, <1>6 DEF a, b, t, c

LEMMA IdsOfFront ==
  ASSUME NEW q \in Seq(Command), q # <<>>, NEW c \in Command
  PROVE  BackIds([q EXCEPT ![1] = c]) = BackIds(q)
<1> DEFINE r == [q EXCEPT ![1] = c]
<1>1. Len(r) = Len(q) /\ Len(q) \in Nat
      /\ \A i \in 1..(Len(q) - 1) : r[i + 1] = q[i + 1]
  OBVIOUS
<1> HIDE DEF r
<1>2. BackIds(r) = BackIds(q)
  BY <1>1 DEF BackIds
<1> QED
  BY <1>2 DEF r

(* Sequences of ids that agree position by position. *)
LEMMA Prepended ==
  ASSUME NEW x \in Ids, NEW a \in Seq(Ids), NEW r \in Seq(Ids), Len(r) = Len(a) + 1,
         r[1] = x, \A i \in 2..(Len(a) + 1) : r[i] = a[i - 1]
  PROVE  r = <<x>> \o a
<1> DEFINE p == <<x>> \o a
<1>1. /\ p \in Seq(Ids) /\ Len(p) = Len(a) + 1 /\ p[1] = x
      /\ \A i \in 2..(Len(a) + 1) : p[i] = a[i - 1]
  OBVIOUS
<1>2. \A i \in 1..(Len(a) + 1) : i = 1 \/ i \in 2..(Len(a) + 1)
  OBVIOUS
<1> HIDE DEF p
<1>3. r = p
  BY <1>1, <1>2
<1> QED
  BY <1>3 DEF p

LEMMA Appended ==
  ASSUME NEW x \in Ids, NEW a \in Seq(Ids), NEW r \in Seq(Ids), Len(r) = Len(a) + 1,
         r[Len(a) + 1] = x, \A i \in 1..Len(a) : r[i] = a[i]
  PROVE  r = Append(a, x)
OBVIOUS

(* A command that joins q as its k-th joins the ids as the k-th. *)
LEMMA IdsOfInserted ==
  ASSUME NEW q \in Seq(Command), NEW c \in Command, NEW k \in {1, 2, Len(q) + 1},
         k = 2 => q # <<>>
  PROVE  LET r == List!Inserted(q, k, c)
         IN  /\ k = 1 => AllIds(r) = <<c.id>> \o AllIds(q)
             /\ k = Len(q) + 1 => AllIds(r) = Append(AllIds(q), c.id)
             /\ k = 2 => BackIds(r) = <<c.id>> \o BackIds(q)
             /\ k = Len(q) + 1 /\ q # <<>> => BackIds(r) = Append(BackIds(q), c.id)
             /\ k > 1 => r[1] = q[1]
             /\ k = 1 => r[1] = c
             /\ r # <<>>
<1> DEFINE r == List!Inserted(q, k, c)
           n == Len(q)
<1>1. n \in Nat /\ k \in 1..(n + 1) /\ (n = 0 <=> q = <<>>)
  OBVIOUS
<1>2. r = [i \in 1..(n + 1) |-> IF i < k THEN q[i] ELSE IF i = k THEN c ELSE q[i - 1]]
  BY DEF List!Inserted
<1>3. \A i \in 1..(n + 1) :
        /\ i < k => i \in 1..n /\ r[i] = q[i]
        /\ i = k => r[i] = c
        /\ i > k => i - 1 \in 1..n /\ r[i] = q[i - 1]
  BY <1>1, <1>2
<1>4. \A i \in 1..(n + 1) : r[i] \in Command
  BY <1>1, <1>3
<1>5. r \in Seq(Command) /\ Len(r) = n + 1 /\ r # <<>>
  BY <1>1, <1>2, <1>4
<1> DEFINE a == AllIds(q)
           b == BackIds(q)
           u == AllIds(r)
           v == BackIds(r)
<1>6. /\ a \in Seq(Ids) /\ Len(a) = n /\ \A i \in 1..n : a[i] = q[i].id
      /\ q # <<>> => b \in Seq(Ids) /\ Len(b) = n - 1 /\ \A i \in 1..(n - 1) : b[i] = q[i + 1].id
  BY IdSequences
<1> HIDE DEF r
<1>7. /\ u \in Seq(Ids) /\ Len(u) = n + 1 /\ \A i \in 1..(n + 1) : u[i] = r[i].id
      /\ v \in Seq(Ids) /\ Len(v) = n /\ \A i \in 1..n : v[i] = r[i + 1].id
  <2>1. /\ AllIds(r) \in Seq(Ids) /\ Len(AllIds(r)) = Len(r)
        /\ \A i \in 1..Len(r) : AllIds(r)[i] = r[i].id
        /\ BackIds(r) \in Seq(Ids) /\ Len(BackIds(r)) = Len(r) - 1
        /\ \A i \in 1..(Len(r) - 1) : BackIds(r)[i] = r[i + 1].id
    BY <1>5, IdSequences
  <2>2. Len(r) - 1 = n
    BY <1>1, <1>5
  <2> QED
    BY <1>5, <2>1, <2>2
<1>8. c.id \in Ids
  BY DEF Command
<1> HIDE DEF n, a, b, u, v
<1>9. ASSUME k = 1 PROVE u = <<c.id>> \o a
  <2>1. u[1] = c.id /\ \A i \in 2..(n + 1) : i - 1 \in 1..n /\ u[i] = a[i - 1]
    <3>1. 1 \in 1..(n + 1) /\ u[1] = r[1].id /\ r[1] = c
      BY <1>1, <1>3, <1>7, <1>9
    <3>2. ASSUME NEW i \in 2..(n + 1) PROVE i - 1 \in 1..n /\ u[i] = a[i - 1]
      <4>1. i \in 1..(n + 1) /\ i > k /\ i - 1 \in 1..n
        BY <1>1, <1>9
      <4> QED
        BY <1>3, <1>6, <1>7, <4>1
    <3> QED
      BY <3>1, <3>2
  <2> QED
    BY <1>6, <1>7, <1>8, <2>1, Prepended
<1>10. ASSUME k = n + 1 PROVE u = Append(a, c.id)
  <2>1. u[n + 1] = c.id /\ \A i \in 1..n : u[i] = a[i]
    <3>1. n + 1 \in 1..(n + 1) /\ u[n + 1] = r[n + 1].id /\ r[n + 1] = c
      BY <1>1, <1>3, <1>7, <1>10
    <3>2. ASSUME NEW i \in 1..n PROVE u[i] = a[i]
      <4>1. i \in 1..(n + 1) /\ i < k
        BY <1>1, <1>10
      <4> QED
        BY <1>3, <1>6, <1>7, <4>1
    <3> QED
      BY <3>1, <3>2
  <2> QED
    BY <1>6, <1>7, <1>8, <2>1, Appended
<1>11. ASSUME k = 2 PROVE v = <<c.id>> \o b
  <2>1. n >= 1 /\ b \in Seq(Ids) /\ Len(b) = n - 1 /\ \A i \in 1..(n - 1) : b[i] = q[i + 1].id
    BY <1>1, <1>6, <1>11
  <2>2. v[1] = c.id /\ \A i \in 2..n : i - 1 \in 1..(n - 1) /\ v[i] = b[i - 1]
    <3>1. 2 \in 1..(n + 1) /\ r[2] = c /\ v[1] = r[1 + 1].id
      BY <1>1, <1>3, <1>7, <1>11, <2>1
    <3>2. ASSUME NEW i \in 2..n PROVE i - 1 \in 1..(n - 1) /\ v[i] = b[i - 1]
      <4>1. i \in 1..n /\ i + 1 \in 1..(n + 1) /\ i + 1 > k /\ (i + 1) - 1 = i /\ i - 1 \in 1..(n - 1)
            /\ (i - 1) + 1 = i
        BY <1>1, <1>11
      <4>2. v[i] = r[i + 1].id /\ r[i + 1] = q[i] /\ b[i - 1] = q[i].id
        BY <1>3, <1>7, <2>1, <4>1
      <4> QED
        BY <4>1, <4>2
    <3> QED
      BY <3>1, <3>2
  <2>3. n = Len(b) + 1
    BY <1>1, <2>1
  <2> QED
    BY <1>7, <1>8, <2>1, <2>2, <2>3, Prepended
<1>12. ASSUME k = n + 1, q # <<>> PROVE v = Append(b, c.id)
  <2>1. n >= 1 /\ b \in Seq(Ids) /\ Len(b) = n - 1 /\ \A i \in 1..(n - 1) : b[i] = q[i + 1].id
    BY <1>1, <1>6, <1>12
  <2>2. v[n] = c.id /\ \A i \in 1..(n - 1) : v[i] = b[i]
    <3>1. n + 1 \in 1..(n + 1) /\ n \in 1..n /\ v[n] = r[n + 1].id /\ r[n + 1] = c
      BY <1>1, <1>3, <1>7, <1>12, <2>1
    <3>2. ASSUME NEW i \in 1..(n - 1) PROVE v[i] = b[i]
      <4>1. i \in 1..n /\ i + 1 \in 1..(n + 1) /\ i + 1 < k
        BY <1>1, <1>12
      <4> QED
        BY <1>3, <1>7, <2>1, <4>1
    <3> QED
      BY <3>1, <3>2
  <2>3. n = Len(b) + 1 /\ Len(b) = n - 1
    BY <1>1, <2>1
  <2> QED
    BY <1>7, <1>8, <2>1, <2>2, <2>3, Appended
<1>13. (k > 1 => r[1] = q[1]) /\ (k = 1 => r[1] = c)
  BY <1>1, <1>3
<1> QED
  BY <1>5, <1>9, <1>10, <1>11, <1>12, <1>13 DEF r, n, a, b, u, v

(* What the steps of the pipeline do to the queue. *)
Continued(c) ==
  /\ c \in Command /\ c.id = Front.id /\ c.state # "IDLE"
  /\ InProgress => c.started = Front.started

Worked == queue # <<>> /\ \E c : Continued(c) /\ queue' = [queue EXCEPT ![1] = c]
Popped == queue # <<>> /\ queue' = Tail(queue)
FollowedUp ==
  /\ InProgress /\ Len(queue) < Capacity
  /\ \E id \in Ids : Fresh(id) /\ queue' = Append(Tail(queue), NewCommand(id, "get"))
Joined == \E kind \in AllKinds, front \in BOOLEAN : Add(kind, front)

Changes == UNCHANGED queue \/ Worked \/ Popped \/ FollowedUp \/ Joined \/ Tick

ServiceStep == [Service!Next]_(Service!serviceVars)

LEMMA QueueFacts ==
  ASSUME IInv
  PROVE  /\ queue \in Seq(Command) /\ Len(queue) \in Nat
         /\ queue # <<>> => /\ Front \in Command /\ Front.id \in Ids /\ Len(queue) >= 1
                            /\ Front.started \in 0..(CommandTimeout + 1)
         /\ 0 \notin Ids
<1>1. queue \in Seq(Command) /\ Len(queue) \in Nat
  BY DEF IInv, QueueOK
<1>2. ASSUME queue # <<>>
      PROVE  /\ Front \in Command /\ Front.id \in Ids /\ Len(queue) >= 1
             /\ Front.started \in 0..(CommandTimeout + 1)
  <2>1. Front \in Command
    BY <1>2, FrontFacts
  <2>2. Front.id \in Ids /\ Front.started \in 0..(CommandTimeout + 1)
    BY <2>1 DEF Command
  <2>3. Len(queue) >= 1
    BY <1>1, <1>2
  <2> QED
    BY <2>1, <2>2, <2>3
<1> QED
  BY <1>1, <1>2 DEF Ids

LEMMA StandsStill ==
  ASSUME UNCHANGED queue
  PROVE  ServiceStep
BY Mapping DEF ServiceStep, Service!serviceVars, Busy, AllIds, BackIds

LEMMA WorkedServes ==
  ASSUME IInv, Worked
  PROVE  ServiceStep
<1>1. queue \in Seq(Command) /\ queue # <<>> /\ Front.id \in Ids
  BY QueueFacts DEF Worked
<1>2. PICK c : Continued(c) /\ queue' = [queue EXCEPT ![1] = c]
  BY DEF Worked
<1>3. queue' \in Seq(Command) /\ queue' # <<>> /\ queue'[1] = c /\ c \in Command
  BY <1>1, <1>2 DEF Continued
<1>4. Busy(queue') /\ BackIds(queue') = BackIds(queue)
  BY <1>1, <1>2, <1>3, IdsOfFront DEF Busy, Continued
<1>5. ServedId' = Front.id /\ WaitingIds' = BackIds(queue) /\ ServedAge' = c.started
  BY <1>2, <1>3, <1>4, Mapping DEF Continued
<1>6. CASE Busy(queue)
  <2>1. c.started = Front.started
    BY <1>2, <1>6 DEF Continued, InProgress, Busy, Front
  <2> QED
    BY <1>5, <1>6, <2>1, Mapping DEF ServiceStep, Service!serviceVars, Front
<1>7. CASE ~Busy(queue)
  <2>1. ServedId = 0 /\ WaitingIds = AllIds(queue)
    BY <1>7, Mapping
  <2>2. WaitingIds # <<>> /\ ServedId' = Head(WaitingIds) /\ WaitingIds' = Tail(WaitingIds)
    BY <1>1, <1>5, <2>1, IdsOfTail DEF Front
  <2>3. ServedAge' \in 0..(CommandTimeout + 1)
    BY <1>3, <1>5 DEF Command
  <2>4. Service!Start
    BY <2>1, <2>2, <2>3 DEF Service!Start
  <2> QED
    BY <2>4 DEF ServiceStep, Service!Next
<1> QED
  BY <1>6, <1>7

(* After a command has gone nobody is served. *)
LEMMA UntouchedNext ==
  ASSUME NEW q \in Seq(Command), q # <<>> => Pristine(q[1])
  PROVE  ~Busy(q)
BY DEF Busy, Pristine

LEMMA PoppedServes ==
  ASSUME IInv, Popped
  PROVE  ServiceStep
<1>1. queue \in Seq(Command) /\ queue # <<>> /\ Front.id \in Ids /\ 0 \notin Ids /\ queue' = Tail(queue)
  BY QueueFacts DEF Popped
<1>2. queue' \in Seq(Command) /\ (queue' # <<>> => Pristine(queue'[1]))
  <2>1. QueueOK(queue') /\ \A i \in 1..Len(queue') : Pristine(queue'[i])
    BY <1>1, DropFront DEF IInv
  <2> QED
    BY <2>1 DEF QueueOK
<1>3. ServedId' = 0 /\ WaitingIds' = BackIds(queue) /\ ServedAge' = 0
  BY <1>1, <1>2, UntouchedNext, IdsOfTail, Mapping
<1>4. CASE Busy(queue)
  <2>1. ServedId = Front.id /\ WaitingIds = BackIds(queue)
    BY <1>4, Mapping DEF Front
  <2>2. Service!Leave
    BY <1>1, <1>3, <2>1 DEF Service!Leave, Service!Ends
  <2> QED
    BY <2>2 DEF ServiceStep, Service!Next
<1>5. CASE ~Busy(queue)
  <2>1. ServedId = 0 /\ WaitingIds = AllIds(queue) /\ ServedAge = 0
    BY <1>5, Mapping
  <2>2. WaitingIds # <<>> /\ WaitingIds' = Tail(WaitingIds)
    BY <1>1, <1>3, <2>1, IdsOfTail
  <2>3. Service!Withdraw
    BY <1>3, <2>1, <2>2 DEF Service!Withdraw
  <2> QED
    BY <2>3 DEF ServiceStep, Service!Next
<1> QED
  BY <1>4, <1>5

(* A new id is neither being served nor waiting, and there is room for it. *)
LEMMA NewcomerFits ==
  ASSUME IInv, NEW id \in Ids, Fresh(id), Len(queue) < Capacity
  PROVE  Service!HasRoom /\ ~Service!Present(id)
<1>1. queue \in Seq(Command) /\ Len(queue) \in Nat /\ 0 \notin Ids
      /\ (queue # <<>> => Front.id \in Ids /\ Len(queue) >= 1)
  BY QueueFacts
<1>2. \A i \in 1..Len(queue) : queue[i].id # id
  BY DEF Fresh, LiveIds
<1>3. /\ Len(AllIds(queue)) = Len(queue) /\ \A i \in 1..Len(queue) : AllIds(queue)[i] = queue[i].id
      /\ queue # <<>> => /\ Len(BackIds(queue)) = Len(queue) - 1
                        /\ \A i \in 1..(Len(queue) - 1) : BackIds(queue)[i] = queue[i + 1].id
  BY <1>1, IdSequences
<1>4. CASE Busy(queue)
  <2>1. queue # <<>> /\ ServedId = Front.id /\ ServedId # 0 /\ WaitingIds = BackIds(queue)
    BY <1>1, <1>4, Mapping DEF Busy, Front
  <2>2. Service!HasRoom
    BY <1>1, <1>3, <2>1 DEF Service!HasRoom
  <2>3. id # ServedId
    BY <1>1, <1>2, <2>1 DEF Front
  <2>4. \A i \in 1..(Len(queue) - 1) : i + 1 \in 1..Len(queue)
    BY <1>1
  <2>5. \A i \in 1..Len(WaitingIds) : WaitingIds[i] # id
    BY <1>2, <1>3, <2>1, <2>4
  <2> QED
    BY <2>2, <2>3, <2>5 DEF Service!Present
<1>5. CASE ~Busy(queue)
  <2>1. ServedId = 0 /\ WaitingIds = AllIds(queue)
    BY <1>5, Mapping
  <2> QED
    BY <1>1, <1>2, <1>3, <2>1 DEF Service!HasRoom, Service!Present
<1> QED
  BY <1>4, <1>5

LEMMA FollowedUpServes ==
  ASSUME IInv, FollowedUp
  PROVE  ServiceStep
<1>1. queue \in Seq(Command) /\ queue # <<>> /\ Front.id \in Ids /\ 0 \notin Ids
  BY QueueFacts DEF FollowedUp, InProgress
<1>2. PICK id \in Ids : Fresh(id) /\ queue' = Append(Tail(queue), NewCommand(id, "get"))
  BY DEF FollowedUp
<1> DEFINE t == Tail(queue)
           c == NewCommand(id, "get")
<1>3. c \in Command /\ c.id = id /\ Pristine(c)
  BY NewIsSound DEF AllKinds
<1>4. QueueOK(t) /\ \A i \in 1..Len(t) : Pristine(t[i])
  BY <1>1, DropFront DEF IInv
<1>5. t \in Seq(Command) /\ AllIds(t) = BackIds(queue)
  BY <1>1, IdsOfTail
<1> HIDE DEF c
<1>6. queue' = List!Inserted(t, Len(t) + 1, c)
  BY <1>2, <1>3, <1>4, AppendIsInsert DEF c
<1> HIDE DEF t
<1>7. AllIds(queue') = Append(AllIds(t), id)
  <2>1. Len(t) + 1 \in {1, 2, Len(t) + 1} /\ (Len(t) + 1 = 2 => t # <<>>)
    BY <1>5
  <2> QED
    BY <1>3, <1>5, <1>6, <2>1, IdsOfInserted
<1>8. queue' \in Seq(Command) /\ (queue' # <<>> => Pristine(queue'[1]))
  <2>1. queue' = Append(t, c)
    BY <1>2 DEF t, c
  <2>2. queue' \in Seq(Command) /\ Len(t) \in Nat /\ (t = <<>> => queue'[1] = c)
        /\ (t # <<>> => queue'[1] = t[1] /\ 1 \in 1..Len(t))
    BY <1>3, <1>5, <2>1
  <2> QED
    BY <1>3, <1>4, <2>2
<1>9. ServedId' = 0 /\ ServedAge' = 0 /\ WaitingIds' = AllIds(queue')
  BY <1>8, UntouchedNext, Mapping
<1>10. ServedId = Front.id /\ WaitingIds = BackIds(queue)
  BY Mapping DEF FollowedUp, InProgress, Busy, Front
<1>11. Service!HasRoom /\ ~Service!Present(id)
  BY <1>2, NewcomerFits DEF FollowedUp
<1>12. Service!Leave
  BY <1>1, <1>5, <1>7, <1>9, <1>10, <1>11 DEF Service!Leave, Service!Ends
<1> QED
  BY <1>12 DEF ServiceStep, Service!Next

LEMMA JoinedServes ==
  ASSUME IInv, Joined
  PROVE  ServiceStep
<1>1. queue \in Seq(Command) /\ Len(queue) \in Nat /\ (queue # <<>> => Len(queue) >= 1)
  BY QueueFacts
<1>2. PICK kind \in AllKinds, front \in BOOLEAN : Add(kind, front)
  BY DEF Joined
<1> DEFINE k == PlaceFor(queue, front)
<1>3. PICK id \in Ids : /\ Fresh(id) /\ Len(queue) < Capacity
                        /\ queue' = List!Inserted(queue, k, NewCommand(id, kind))
  BY <1>2 DEF Add
<1> DEFINE c == NewCommand(id, kind)
<1>4. c \in Command /\ c.id = id /\ Pristine(c)
  BY NewIsSound
<1>5. /\ k \in {1, 2, Len(queue) + 1}
      /\ k = 1 => ~Busy(queue)
      /\ k = 2 => queue # <<>>
      /\ k = 2 /\ k # Len(queue) + 1 => Busy(queue)
  <2>1. CASE front
    <3>1. k = List!PriorityPlace(queue)
      BY <2>1 DEF PlaceFor
    <3> QED
      BY <1>1, <3>1 DEF List!PriorityPlace, Busy
  <2>2. CASE ~front
    <3>1. k = Len(queue) + 1
      BY <2>2 DEF PlaceFor
    <3> QED
      BY <1>1, <3>1 DEF Busy
  <2> QED
    BY <2>1, <2>2
<1>6. queue' = List!Inserted(queue, k, c)
  BY <1>3
<1> HIDE DEF k, c
<1>7. /\ k = 1 => AllIds(queue') = <<id>> \o AllIds(queue)
      /\ k = Len(queue) + 1 => AllIds(queue') = Append(AllIds(queue), id)
      /\ k = 2 => BackIds(queue') = <<id>> \o BackIds(queue)
      /\ k = Len(queue) + 1 /\ queue # <<>> => BackIds(queue') = Append(BackIds(queue), id)
      /\ k > 1 => queue'[1] = queue[1]
      /\ k = 1 => queue'[1] = c
      /\ queue' # <<>>
  BY <1>1, <1>4, <1>5, <1>6, IdsOfInserted
<1>8. Busy(queue') <=> Busy(queue)
  BY <1>1, <1>4, <1>5, <1>7 DEF Busy, Pristine
<1>9. ServedId' = ServedId /\ ServedAge' = ServedAge
  BY <1>1, <1>5, <1>7, <1>8, Mapping DEF Busy
<1>10. WaitingIds' = Append(WaitingIds, id) \/ WaitingIds' = <<id>> \o WaitingIds
  <2>1. CASE Busy(queue)
    <3>1. WaitingIds = BackIds(queue) /\ WaitingIds' = BackIds(queue') /\ queue # <<>>
      BY <1>8, <2>1, Mapping DEF Busy
    <3> QED
      BY <1>5, <1>7, <2>1, <3>1
  <2>2. CASE ~Busy(queue)
    <3>1. WaitingIds = AllIds(queue) /\ WaitingIds' = AllIds(queue')
      BY <1>8, <2>2, Mapping
    <3> QED
      BY <1>5, <1>7, <2>2, <3>1
  <2> QED
    BY <2>1, <2>2
<1>11. Service!HasRoom /\ ~Service!Present(id)
  BY <1>3, NewcomerFits
<1>12. Service!Join(id)
  BY <1>9, <1>10, <1>11 DEF Service!Join
<1> QED
  BY <1>12 DEF ServiceStep, Service!Next

LEMMA TickServes ==
  ASSUME IInv, Tick
  PROVE  ServiceStep
<1>1. queue \in Seq(Command) /\ queue # <<>> /\ Len(queue) >= 1 /\ Front.id \in Ids /\ 0 \notin Ids
      /\ Front.started \in 0..(CommandTimeout + 1) /\ queue' = [i \in 1..Len(queue) |-> Older(queue[i])]
  BY QueueFacts DEF Tick
<1>2. \A i \in 1..Len(queue) :
        /\ queue'[i] = Older(queue[i])
        /\ queue'[i].id = queue[i].id /\ queue'[i].state = queue[i].state
        /\ queue'[i].started = UpTo(queue[i].started, CommandTimeout + 1)
  <2> TAKE i \in 1..Len(queue)
  <2>1. queue[i] \in Command /\ queue'[i] = Older(queue[i])
    BY <1>1
  <2> QED
    BY <2>1 DEF Older, Command
<1>3. Len(queue') = Len(queue) /\ queue' # <<>> /\ 1 \in 1..Len(queue) /\ Len(queue) \in Nat
  BY <1>1
<1>4. Busy(queue') <=> Busy(queue)
  BY <1>1, <1>2, <1>3 DEF Busy
<1>5. AllIds(queue') = AllIds(queue) /\ BackIds(queue') = BackIds(queue)
  <2>1. \A i \in 1..(Len(queue) - 1) : i + 1 \in 1..Len(queue)
    BY <1>3
  <2> QED
    BY <1>2, <1>3, <2>1 DEF AllIds, BackIds
<1>6. ServedId' = ServedId /\ WaitingIds' = WaitingIds
  BY <1>2, <1>3, <1>4, <1>5, Mapping
<1>7. CASE ~Busy(queue)
  BY <1>4, <1>6, <1>7, Mapping DEF ServiceStep, Service!serviceVars
<1>8. CASE Busy(queue)
  <2>1. /\ ServedId = Front.id /\ ServedAge = Front.started
        /\ ServedAge' = UpTo(Front.started, CommandTimeout + 1)
    BY <1>2, <1>3, <1>4, <1>8, Mapping DEF Front
  <2>2. CASE Front.started <= CommandTimeout
    <3>1. ServedAge' = ServedAge + 1
      BY <1>1, <2>1, <2>2, TimingAssumption DEF UpTo
    <3>2. Service!GrowOlder
      BY <1>1, <1>6, <2>1, <2>2, <3>1 DEF Service!GrowOlder
    <3> QED
      BY <3>2 DEF ServiceStep, Service!Next
  <2>3. CASE ~(Front.started <= CommandTimeout)
    <3>1. ServedAge' = ServedAge
      BY <1>1, <2>1, <2>3, TimingAssumption DEF UpTo
    <3> QED
      BY <1>6, <3>1 DEF ServiceStep, Service!serviceVars
  <2> QED
    BY <2>2, <2>3
<1> QED
  BY <1>7, <1>8

----------------------------------------------------------------------------
(* Each step is one of those.                                                 *)

LEMMA ChangedWorks ==
  ASSUME IInv, queue # <<>>, NEW c, SetFront(c), Continued(c)
  PROVE  Changes
BY DEF Changes, Worked, SetFront

LEMMA PoppedChanges ==
  ASSUME queue # <<>>, Pop
  PROVE  Changes
BY DEF Changes, Popped, Pop

(* Every field but the id, the kind and the age of the front may be written. *)
LEMMA Rewritten ==
  ASSUME IInv, queue # <<>>, Front.state # "IDLE", NEW c, SetFront(c),
         c \in Command, c.id = Front.id, c.started = Front.started, c.state # "IDLE"
  PROVE  Changes
BY ChangedWorks DEF Continued

LEMMA StateWritten ==
  ASSUME IInv, queue # <<>>, Front.state # "IDLE", NEW c, NEW st \in States \ {"IDLE"},
         Moved(c, st), SetFront(c)
  PROVE  Changes
BY Rewritten DEF Moved

LEMMA ServedNow ==
  ASSUME IInv, NEW s, Serving(s)
  PROVE  queue # <<>> /\ Front \in Command /\ Sound(Front) /\ Front.state = s
BY FrontFacts DEF Serving

LEMMA AuthChanges ==
  ASSUME IInv, NEW d \in Domains, RequestSession(d), queue # <<>>, Front.state # "IDLE"
  PROVE  Changes
<1> DEFINE c == [Transmitted(Front, AuthResponseState(d)) EXCEPT !.retry = @ + 1]
<1>1. Front \in Command
  BY FrontFacts
<1>2. CASE Front.retry < MaxRetries
  <2>1. Front.retry + 1 \in 0..(MaxRetries + 1)
    BY <1>1, <1>2, RetriesAssumption DEF Command
  <2>2. c \in Command /\ c.id = Front.id /\ c.started = Front.started /\ c.state # "IDLE"
    BY <1>1, <2>1, FrontFields, AuthStates DEF Transmitted, Command
  <2>3. SetFront(c)
    BY <1>2 DEF RequestSession
  <2> QED
    BY <2>2, <2>3, Rewritten
<1>3. CASE ~(Front.retry < MaxRetries)
  BY <1>3, PoppedChanges DEF RequestSession
<1> QED
  BY <1>2, <1>3

LEMMA WakeChanges ==
  ASSUME IInv, queue # <<>>, Front.state # "IDLE", Front.retry <= MaxRetries,
         NEW result, NEW st \in States \ {"IDLE"}, SetFront(WakeTried(result, st))
  PROVE  Changes
<1> DEFINE c == WakeTried(result, st)
<1>1. c \in Command /\ c.id = Front.id /\ c.started = Front.started /\ c.state = st
  BY FrontFields DEF WakeTried, Command
<1> HIDE DEF c
<1>2. SetFront(c)
  BY DEF c
<1> QED
  BY <1>1, <1>2, Rewritten

LEMMA InvalidatedChanges ==
  ASSUME IInv, NEW d, queue' = Invalidated(queue, d)
  PROVE  Changes
<1>1. CASE queue # <<>> /\ DomainOf(queue[1].kind) = d
  <2> DEFINE c == [Front EXCEPT !.state = AuthState(d)]
  <2>1. Front \in Command
    BY <1>1, FrontFacts
  <2>2. Continued(c)
    BY <2>1, AuthStates DEF Continued, Command
  <2>3. queue' = [queue EXCEPT ![1] = c]
    BY <1>1, <2>1 DEF Invalidated, Front
  <2> QED
    BY <1>1, <2>2, <2>3 DEF Changes, Worked
<1>2. CASE ~(queue # <<>> /\ DomainOf(queue[1].kind) = d)
  BY <1>2 DEF Invalidated, Changes
<1> QED
  BY <1>1, <1>2

LEMMA AuthenticatedChanges ==
  ASSUME IInv, NEW d \in Domains, queue' = Authenticated(queue, d)
  PROVE  Changes
<1>1. CASE queue # <<>> /\ queue[1].state = AuthResponseState(d)
  <2> DEFINE c == AfterAuth(Front)
  <2>1. Front \in Command
    BY <1>1, FrontFacts
  <2>2. Continued(c)
    <3> DEFINE st == IF /\ Front.state = AuthResponseState("VCSEC")
                        /\ DomainOf(Front.kind) = "INFOTAINMENT"
                     THEN AuthState("INFOTAINMENT") ELSE "READY"
    <3>1. st \in States \ {"IDLE"} /\ 0 \in 0..(MaxRetries + 1)
      BY AuthStates, RetriesAssumption DEF States
    <3>2. c = [Front EXCEPT !.retry = 0, !.state = st]
      BY DEF AfterAuth
    <3> HIDE DEF st, c
    <3>3. c \in Command /\ c.id = Front.id /\ c.started = Front.started /\ c.state = st
      BY <2>1, <3>1, <3>2 DEF Command
    <3> QED
      BY <3>1, <3>3 DEF Continued
  <2>3. queue' = [queue EXCEPT ![1] = c]
    BY <1>1 DEF Authenticated, Front
  <2> QED
    BY <1>1, <2>2, <2>3 DEF Changes, Worked
<1>2. CASE ~(queue # <<>> /\ queue[1].state = AuthResponseState(d))
  BY <1>2 DEF Authenticated, Changes
<1> QED
  BY <1>1, <1>2

(* Invalidated and renewed in one step. *)
LEMMA RenewedChanges ==
  ASSUME IInv, NEW d \in Domains, queue' = Authenticated(Invalidated(queue, d), d)
  PROVE  Changes
<1> DEFINE r == Invalidated(queue, d)
<1>1. CASE queue # <<>> /\ DomainOf(queue[1].kind) = d
  <2>1. queue \in Seq(Command) /\ Front \in Command
    BY <1>1, FrontFacts, QueueFacts
  <2>2. r = [queue EXCEPT ![1].state = AuthState(d)]
    BY <1>1 DEF Invalidated
  <2>3. r[1].state = AuthState(d)
    BY <1>1, <2>1, <2>2 DEF Front, Command
  <2>4. AuthState(d) # AuthResponseState(d)
    BY DEF AuthState, AuthResponseState
  <2>5. Authenticated(r, d) = r
    BY <2>3, <2>4 DEF Authenticated
  <2> QED
    BY <2>5, InvalidatedChanges
<1>2. CASE ~(queue # <<>> /\ DomainOf(queue[1].kind) = d)
  <2>1. r = queue
    BY <1>2 DEF Invalidated
  <2> QED
    BY <2>1, AuthenticatedChanges
<1> QED
  BY <1>1, <1>2

LEMMA CommandQueueChanges ==
  ASSUME IInv, process_command_queue
  PROVE  Changes
<1>1. CASE NothingToDo
  BY <1>1 DEF NothingToDo, Changes
<1>2. CASE Abandon
  BY <1>2, PoppedChanges DEF Abandon
<1>3. CASE StartIdle
  <2> DEFINE c == [Front EXCEPT !.started = 0, !.state = AuthState(DomainOf(Front.kind))]
  <2>1. queue # <<>> /\ Front \in Command /\ Front.state = "IDLE"
    BY <1>3, ServedNow DEF StartIdle
  <2>2. /\ 0 \in 0..(CommandTimeout + 1)
        /\ AuthState(DomainOf(Front.kind)) \in States \ {"IDLE"}
    BY AuthStates, TimingAssumption
  <2>3. c \in Command /\ c.id = Front.id /\ c.state # "IDLE"
    BY <2>1, <2>2 DEF Command
  <2>4. SetFront(c) \/ Pop
    BY <1>3 DEF StartIdle
  <2> HIDE DEF c
  <2>5. Continued(c)
    BY <2>1, <2>3 DEF Continued, InProgress
  <2> QED
    BY <2>1, <2>4, <2>5, ChangedWorks, PoppedChanges
<1>4. CASE AwaitVCSECAuth
  <2>1. queue # <<>> /\ Front \in Command /\ Front.state = "WAITING_FOR_VCSEC_AUTH"
    BY <1>4, ServedNow DEF AwaitVCSECAuth
  <2> DEFINE st == IF DomainOf(Front.kind) = "VCSEC" THEN "READY" ELSE AuthState("INFOTAINMENT")
             c == [Front EXCEPT !.state = st]
  <2>2. "VCSEC" \in Domains /\ st \in States \ {"IDLE"}
    BY AuthStates DEF Domains, States
  <2>3. SetFront(c) \/ RequestSession("VCSEC")
    BY <1>4 DEF AwaitVCSECAuth
  <2> HIDE DEF st
  <2>4. Moved(c, st)
    BY <2>1, <2>2, MovedForms
  <2> HIDE DEF c
  <2> QED
    BY <2>1, <2>2, <2>3, <2>4, StateWritten, AuthChanges
<1>5. CASE AwaitInfotainmentAuth
  <2>1. queue # <<>> /\ Front \in Command /\ Front.state = "WAITING_FOR_INFOTAINMENT_AUTH"
    BY <1>5, ServedNow DEF AwaitInfotainmentAuth
  <2>2. "INFOTAINMENT" \in Domains /\ "READY" \in States /\ "WAITING_FOR_WAKE" \in States
    BY DEF Domains, States
  <2>3. \/ SetFront([Front EXCEPT !.state = "WAITING_FOR_WAKE"])
        \/ SetFront([Front EXCEPT !.state = "READY"])
        \/ RequestSession("INFOTAINMENT")
    BY <1>5 DEF AwaitInfotainmentAuth
  <2>4. CASE RequestSession("INFOTAINMENT")
    BY <2>1, <2>2, <2>4, AuthChanges
  <2>5. ASSUME NEW st \in {"WAITING_FOR_WAKE", "READY"}, SetFront([Front EXCEPT !.state = st])
        PROVE  Changes
    <3>1. Moved([Front EXCEPT !.state = st], st)
      BY <2>1, <2>2, MovedForms
    <3> QED
      BY <2>1, <2>2, <2>5, <3>1, StateWritten
  <2> QED
    BY <2>3, <2>4, <2>5
<1>6. CASE AuthResponseTimeout
  <2>1. /\ queue # <<>> /\ Front \in Command /\ Front.state # "IDLE"
        /\ Front.state = "WAITING_FOR_INFOTAINMENT_AUTH_RESPONSE" => Front.retry <= MaxRetries
    BY <1>6, ServedNow DEF AuthResponseTimeout, Sound
  <2>2. CASE SetFront([Front EXCEPT !.state = AuthState("VCSEC")])
    BY <2>1, <2>2, AuthStates, MovedForms, StateWritten
  <2>3. CASE /\ Serving("WAITING_FOR_INFOTAINMENT_AUTH_RESPONSE")
             /\ SetFront([Front EXCEPT !.state = AuthState("INFOTAINMENT"), !.retry = @ + 1])
    BY <2>1, <2>3, ServedNow, AuthStates, MovedForms, StateWritten
  <2> QED
    BY <1>6, <2>2, <2>3 DEF AuthResponseTimeout
<1>7. CASE SendWake
  <2>1. queue # <<>> /\ Front.state = "WAITING_FOR_WAKE" /\ "WAITING_FOR_WAKE_RESPONSE" \in States
    BY <1>7, ServedNow DEF SendWake, States
  <2> QED
    BY <1>7, <2>1, WakeChanges, PoppedChanges DEF SendWake
<1>8. CASE WakeSeen
  <2>1. queue # <<>> /\ Front \in Command /\ Front.state = "WAITING_FOR_WAKE_RESPONSE"
    BY <1>8, ServedNow DEF WakeSeen
  <2> QED
    BY <1>8, <2>1, AuthStates, MovedForms, StateWritten, PoppedChanges DEF WakeSeen
<1>9. CASE PollWake
  <2>1. queue # <<>> /\ Front \in Command /\ Front.state = "WAITING_FOR_WAKE_RESPONSE"
    BY <1>9, ServedNow DEF PollWake
  <2>2. PICK result : GiveUpPollingWake(WakeTried(result, StateAfterWake(result)))
    BY <1>9 DEF PollWake
  <2>3. StateAfterWake(result) \in States \ {"IDLE"}
    BY AuthStates DEF StateAfterWake, States
  <2>4. CASE Front.retry <= MaxRetries
    BY <2>1, <2>2, <2>3, <2>4, WakeChanges, PoppedChanges DEF GiveUpPollingWake
  <2>5. CASE ~(Front.retry <= MaxRetries)
    <3>1. WakeTried(result, StateAfterWake(result)).retry = Front.retry + 1 /\ Front.retry \in Nat
      BY <2>1, FrontFields DEF WakeTried, Command
    <3>2. WakeTried(result, StateAfterWake(result)).retry > MaxRetries
      BY <2>5, <3>1, RetriesAssumption
    <3> QED
      BY <2>1, <2>2, <3>2, PoppedChanges DEF GiveUpPollingWake
  <2> QED
    BY <2>4, <2>5
<1>10. CASE AwaitLockResponse
  <2>1. queue # <<>> /\ Front \in Command /\ Front.state = "WAITING_FOR_LOCK_RESPONSE"
    BY <1>10, ServedNow DEF AwaitLockResponse
  <2>2. ASSUME NEW result, SetFront(StatusAsked(result))
        PROVE  Changes
    <3>1. /\ StatusAsked(result) \in Command /\ StatusAsked(result).id = Front.id
          /\ StatusAsked(result).started = Front.started
          /\ StatusAsked(result).state # "IDLE"
      BY <2>1, AskedFields
    <3> QED
      BY <2>1, <2>2, <3>1, Rewritten
  <2>3. "READY" \in States
    BY DEF States
  <2> QED
    BY <1>10, <2>1, <2>2, <2>3, MovedForms, StateWritten, PoppedChanges DEF AwaitLockResponse
<1>11. CASE GiveUpExecuting
  BY <1>11, ServedNow, PoppedChanges DEF GiveUpExecuting
<1>12. CASE Execute
  <2> DEFINE c == [Transmitted(Front, StateAfterExecute(Front.kind))
                     EXCEPT !.retry = @ + 1,
                            !.done = IF Front.kind \in Locking THEN 0 ELSE @]
  <2>1. queue # <<>> /\ Front \in Command /\ Front.state = "READY" /\ Front.retry < MaxRetries
    BY <1>12, ServedNow DEF Execute
  <2>2. Front.retry + 1 \in 0..(MaxRetries + 1)
    BY <2>1, RetriesAssumption DEF Command
  <2>3. StateAfterExecute(Front.kind) \in States \ {"IDLE"}
    BY DEF StateAfterExecute, States
  <2>4. c \in Command /\ c.id = Front.id /\ c.started = Front.started /\ c.state # "IDLE"
    <3> DEFINE e == Transmitted(Front, StateAfterExecute(Front.kind))
               done == IF Front.kind \in Locking THEN 0 ELSE e.done
    <3>1. /\ e \in Command /\ e.id = Front.id /\ e.started = Front.started
          /\ e.state = StateAfterExecute(Front.kind) /\ e.retry = Front.retry
      BY <2>1, <2>3, FrontFields DEF Transmitted, Command
    <3>2. c = [e EXCEPT !.retry = @ + 1, !.done = done]
      BY <3>1
    <3>3. done \in 0..1
      BY <3>1 DEF Command
    <3> HIDE DEF c, e, done
    <3> QED
      BY <2>2, <2>3, <3>1, <3>2, <3>3 DEF Command
  <2>5. SetFront(c)
    BY <1>12 DEF Execute
  <2> HIDE DEF c
  <2> QED
    BY <2>1, <2>4, <2>5, Rewritten
<1>13. CASE ExecuteFails
  <2>1. queue # <<>> /\ Front \in Command /\ Front.state = "READY" /\ Front.retry < MaxRetries
    BY <1>13, ServedNow DEF ExecuteFails
  <2>2. PICK result : SetFront([Front EXCEPT !.retry = @ + 1,
                                  !.state = IF result = "invalid"
                                            THEN AuthState(DomainOf(Front.kind)) ELSE @])
    BY <1>13 DEF ExecuteFails
  <2> DEFINE c == [Front EXCEPT !.retry = @ + 1,
                                !.state = IF result = "invalid"
                                          THEN AuthState(DomainOf(Front.kind)) ELSE @]
  <2>3. Front.retry + 1 \in 0..(MaxRetries + 1)
    BY <2>1, RetriesAssumption DEF Command
  <2>4. c \in Command /\ c.id = Front.id /\ c.started = Front.started /\ c.state # "IDLE"
    BY <2>1, <2>3, AuthStates DEF Command
  <2> QED
    BY <2>1, <2>2, <2>4, Rewritten
<1>14. CASE ResponseTimeout
  <2>1. queue # <<>> /\ Front \in Command /\ Front.state = "WAITING_FOR_RESPONSE" /\ "READY" \in States
    BY <1>14, ServedNow DEF ResponseTimeout, States
  <2> QED
    BY <1>14, <2>1, MovedForms, StateWritten DEF ResponseTimeout
<1>15. CASE GetPostSet
  <2>1. queue # <<>> /\ InProgress
    BY <1>15, ServedNow DEF GetPostSet, InProgress
  <2> QED
    BY <1>15, <2>1, PoppedChanges DEF GetPostSet, Changes, FollowedUp
<1> QED
  BY <1>1, <1>2, <1>3, <1>4, <1>5, <1>6, <1>7, <1>8, <1>9, <1>10, <1>11, <1>12, <1>13, <1>14, <1>15
  DEF process_command_queue

LEMMA ResponseQueueChanges ==
  ASSUME IInv, process_response_queue
  PROVE  Changes
<1>1. "READY" \in States /\ "WAITING_FOR_GET_POST_SET" \in States
  BY DEF States
<1>2. CASE NoResponse
  BY <1>2 DEF NoResponse, Unmoved, Changes
<1>3. CASE \E d \in Domains : SessionInfo(d) \/ Fault(d) \/ FaultWithSessionInfo(d)
  BY <1>3, InvalidatedChanges, AuthenticatedChanges, RenewedChanges
  DEF SessionInfo, Fault, FaultWithSessionInfo
<1>4. CASE \E sleeping, open \in BOOLEAN : VehicleStatus(sleeping, open)
  <2>1. PICK sleeping \in BOOLEAN, open \in BOOLEAN : VehicleStatus(sleeping, open)
    BY <1>4
  <2>2. CASE StatusCompletes(sleeping) /\ Pop
    BY <2>2, PoppedChanges DEF StatusCompletes, FrontIs
  <2>3. CASE /\ StatusWakes(sleeping)
             /\ SetFront([Front EXCEPT !.state = AuthState("INFOTAINMENT"), !.retry = 0])
    <3>1. queue # <<>> /\ Front \in Command /\ Front.state # "IDLE"
      BY <2>3, FrontFacts DEF StatusWakes, FrontIs
    <3> QED
      BY <2>3, <3>1, AuthStates, MovedForms, StateWritten
  <2>4. CASE queue' = Invalidated(queue, "INFOTAINMENT")
    BY <2>4, InvalidatedChanges
  <2>5. CASE Unmoved
    BY <2>5 DEF Unmoved, Changes
  <2> QED
    BY <2>1, <2>2, <2>3, <2>4, <2>5 DEF VehicleStatus
<1>5. CASE \E status \in {"OK", "WAIT", "ERROR"} : CommandStatus(status)
  <2>1. queue # <<>> /\ Front \in Command /\ Front.state # "IDLE"
    BY <1>5, FrontFacts DEF CommandStatus, FrontIs
  <2>2. \/ Pop
        \/ SetFront([Front EXCEPT !.state = "READY"])
        \/ SetFront([Front EXCEPT !.state = "READY", !.tx = 0])
    BY <1>5 DEF CommandStatus
  <2>3. ASSUME NEW c \in {[Front EXCEPT !.state = "READY"],
                          [Front EXCEPT !.state = "READY", !.tx = 0]}, SetFront(c)
        PROVE  Changes
    <3>1. Moved(c, "READY")
      BY <1>1, <2>1, MovedForms
    <3> QED
      BY <1>1, <2>1, <2>3, <3>1, StateWritten
  <2> QED
    BY <2>1, <2>2, <2>3, PoppedChanges
<1>6. CASE \E result \in {"OK", "charging", "ERROR"} : CarServerResponse(result)
  <2>1. queue # <<>> /\ Front \in Command /\ Front.state # "IDLE"
    BY <1>6, FrontFacts DEF CarServerResponse, FrontIs
  <2>2. \/ Pop
        \/ SetFront([Front EXCEPT !.state = "READY"])
        \/ SetFront([Front EXCEPT !.state = "WAITING_FOR_GET_POST_SET"])
    BY <1>6 DEF CarServerResponse
  <2>3. ASSUME NEW st \in {"READY", "WAITING_FOR_GET_POST_SET"},
               SetFront([Front EXCEPT !.state = st])
        PROVE  Changes
    <3>1. Moved([Front EXCEPT !.state = st], st)
      BY <1>1, <2>1, MovedForms
    <3> QED
      BY <1>1, <2>1, <2>3, <3>1, StateWritten
  <2> QED
    BY <2>1, <2>2, <2>3, PoppedChanges
<1> QED
  BY <1>2, <1>3, <1>4, <1>5, <1>6 DEF process_response_queue

LEMMA StepChanges ==
  ASSUME IInv, [Next]_vars
  PROVE  Changes
<1>1. CASE process_response_queue \/ process_command_queue
  BY <1>1, ResponseQueueChanges, CommandQueueChanges
<1>2. CASE ClearOne
  BY <1>2, PoppedChanges DEF ClearOne
<1>3. CASE \E kind \in Kinds : Enqueue(kind)
  <2>1. PICK kind \in Kinds : Add(kind, kind \notin {"status", "forced", "get"})
    BY <1>3 DEF Enqueue
  <2>2. kind \in AllKinds /\ (kind \notin {"status", "forced", "get"}) \in BOOLEAN
    BY KindsAssumption
  <2> QED
    BY <2>1, <2>2 DEF Changes, Joined
<1>4. CASE MoveClosure
  BY <1>4, InvalidatedChanges DEF MoveClosure
<1>5. CASE Tick \/ Opened \/ Established \/ Disconnected \/ UNCHANGED vars
  BY <1>5 DEF Opened, Established, Disconnected, Unmoved, vars, Changes
<1> QED
  BY <1>1, <1>2, <1>3, <1>4, <1>5 DEF Next, Loop

(* The pipeline is the service: whatever the vehicle sends, the front command is    *)
(* served to its end before another is started, waiting commands keep their order,   *)
(* and the overall clock is never set back (cpp:177-524).                          *)
THEOREM PipelineImplementsService == Spec => ImplementsService
<1>1. Init => Service!Init
  <2> SUFFICES ASSUME Init PROVE Service!Init
    OBVIOUS
  <2>1. queue = <<>> /\ ~Busy(queue)
    BY DEF Init, Busy
  <2>2. AllIds(<<>>) = <<>>
    BY DEF AllIds
  <2> QED
    BY <2>1, <2>2, Mapping DEF Service!Init
<1>2. IInv /\ [Next]_vars => [Service!Next]_(Service!serviceVars)
  BY StepChanges, StandsStill, WorkedServes, PoppedServes, FollowedUpServes, JoinedServes,
     TickServes
  DEF Changes, ServiceStep
<1> QED
  BY <1>1, <1>2, Invariance, PTL DEF Spec, ImplementsService, Service!Spec
============================================================================
