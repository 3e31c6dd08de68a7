------------------------ MODULE StoredSessionsProofs ------------------------
(***************************************************************************)
(* What restores, faults, reboots and late answers may do to the sessions, *)
(* for any number of commands and disturbances.                            *)
(***************************************************************************)
EXTENDS StoredSessions, TLAPS

Sessions == [Domains -> [epoch : Nat, counter : Nat, key : Nat, valid : BOOLEAN]]
Mirrors == [Domains -> [epoch : Nat, counter : Nat, key : Nat]]
Memories == [session : Sessions, zigKey : Nat \ {NoKey}, zig : Mirrors, csm : CSM!States]

(* The properties of a memory m, for a component whose key is k, which changed on   *)
(* this connection if r, and a vehicle in epoch e.                              *)
Mirroring(m, r) ==
  \A d \in Domains : m.zig[d] # NoMirror =>
    /\ m.zig[d].epoch = m.session[d].epoch
    /\ m.zig[d].key = m.session[d].key \/ r

NotAhead(m) ==
  /\ m.csm \in {"secure_vcsec", "handshaking_infotainment", "fully_secure"} =>
       m.session[VCSEC].valid
  /\ m.csm = "fully_secure" => m.session[Infotainment].valid

Sound(m, k, r, e) ==
  /\ m \in Memories
  /\ m.zigKey = k \/ r
  /\ Mirroring(m, r)
  /\ \A d \in Domains : m.session[d].epoch <= e

(* What is kept or under way is not from an epoch to come. *)
StoredIsPast == \A d \in Domains : stored[d].epoch <= epoch

(* Answers come in the order of the epochs, and once a session of this epoch was    *)
(* received no answer of an earlier one is still to come, although it may have been  *)
(* forgotten in memory, or never written.                                       *)
AnswersInOrder ==
  /\ \A i \in 1..Len(toComponent) : toComponent[i].epoch <= epoch
  /\ \A i, j \in 1..Len(toComponent) :
       i <= j => toComponent[i].epoch <= toComponent[j].epoch
NothingOlder ==
  (\E d \in Domains : session[d].epoch = epoch \/ stored[d].epoch = epoch) =>
    \A i \in 1..Len(toComponent) : toComponent[i].epoch = epoch

IInv ==
  /\ TypeOK
  /\ Sound(Memory, key, regenerated, epoch)
  /\ misled \/ NotAhead(Memory)
  /\ StoredIsPast /\ AnswersInOrder /\ NothingOlder

USE BoundsAssumption

LEMMA TwoDomains ==
  /\ VCSEC \in Domains /\ Infotainment \in Domains
  /\ \A d \in Domains : d = VCSEC \/ d = Infotainment
  /\ NoCommand \notin Domains
BY DEF VCSEC, Infotainment, Domains, CSM!Domains, NoCommand

----------------------------------------------------------------------------
(* The parts of a memory under each operation.                                *)

LEMMA EventParts ==
  ASSUME NEW m \in Memories, NEW event
  PROVE  /\ Event(m, event) \in Memories
         /\ Event(m, event).session = m.session /\ Event(m, event).zig = m.zig
         /\ Event(m, event).zigKey = m.zigKey
         /\ Event(m, event).csm = CSM!After(m.csm, event)
<1>1. CSM!After(m.csm, event) \in CSM!States
  BY DEF Memories, CSM!After, CSM!States
<1> QED
  BY <1>1 DEF Event, Memories

LEMMA UpdatedParts ==
  ASSUME NEW m \in Memories, NEW d \in Domains, NEW info, NEW k \in Nat,
         info.epoch \in Nat, info.counter \in Nat
  PROVE  /\ Updated(m, d, info, k) \in Memories
         /\ Updated(m, d, info, k).session[d].epoch = info.epoch
         /\ Updated(m, d, info, k).session[d].counter = info.counter
         /\ Updated(m, d, info, k).session[d].key = k
         /\ Updated(m, d, info, k).session[d].valid
         /\ \A c \in Domains : c # d => Updated(m, d, info, k).session[c] = m.session[c]
         /\ Updated(m, d, info, k).zig = m.zig
         /\ Updated(m, d, info, k).zigKey = m.zigKey
         /\ Updated(m, d, info, k).csm = m.csm
<1> DEFINE new == [epoch |-> info.epoch, counter |-> info.counter, key |-> k, valid |-> TRUE]
           u == [m EXCEPT !.session[d] = new]
<1>1. new \in [epoch : Nat, counter : Nat, key : Nat, valid : BOOLEAN]
  OBVIOUS
<1>2. new.epoch = info.epoch /\ new.counter = info.counter /\ new.key = k /\ new.valid
  OBVIOUS
<1> HIDE DEF new
<1>3. /\ u \in Memories /\ u.session[d] = new
      /\ \A c \in Domains : c # d => u.session[c] = m.session[c]
      /\ u.zig = m.zig /\ u.zigKey = m.zigKey /\ u.csm = m.csm
  BY <1>1 DEF Memories, Sessions
<1>4. Updated(m, d, info, k) = u
  BY DEF Updated, new
<1> HIDE DEF u
<1> QED
  BY <1>2, <1>3, <1>4

LEMMA MirroredParts ==
  ASSUME NEW m \in Memories, NEW d \in Domains, NEW info,
         info.epoch \in Nat, info.counter \in Nat
  PROVE  /\ Mirrored(m, d, info) \in Memories
         /\ Mirrored(m, d, info).session = m.session
         /\ Mirrored(m, d, info).zig[d].epoch = info.epoch
         /\ Mirrored(m, d, info).zig[d].key = m.zigKey
         /\ \A c \in Domains : c # d => Mirrored(m, d, info).zig[c] = m.zig[c]
         /\ Mirrored(m, d, info).zigKey = m.zigKey
         /\ Mirrored(m, d, info).csm = CSM!After(m.csm, CSM!SuccessEvent(d))
<1> DEFINE mirror == [epoch |-> info.epoch, counter |-> info.counter, key |-> m.zigKey]
           n == [m EXCEPT !.zig[d] = mirror]
<1>1. mirror \in [epoch : Nat, counter : Nat, key : Nat]
  BY DEF Memories, NoKey
<1>2. mirror.epoch = info.epoch /\ mirror.key = m.zigKey
  OBVIOUS
<1>3. Mirrored(m, d, info) = Event(n, CSM!SuccessEvent(d))
  BY DEF Mirrored
<1> HIDE DEF mirror
<1>4. /\ n \in Memories /\ n.session = m.session /\ n.zig[d] = mirror
      /\ \A c \in Domains : c # d => n.zig[c] = m.zig[c]
      /\ n.zigKey = m.zigKey /\ n.csm = m.csm
  BY <1>1 DEF Memories, Mirrors
<1> HIDE DEF n
<1>5. LET w == Event(n, CSM!SuccessEvent(d))
      IN  /\ w \in Memories /\ w.session = n.session /\ w.zig = n.zig
          /\ w.zigKey = n.zigKey /\ w.csm = CSM!After(n.csm, CSM!SuccessEvent(d))
  BY <1>4, EventParts
<1> QED
  BY <1>2, <1>3, <1>4, <1>5

----------------------------------------------------------------------------
(* What each operation keeps of a sound memory.                              *)

LEMMA EventSound ==
  ASSUME NEW m, NEW k, NEW r \in BOOLEAN, NEW e \in Nat, NEW event, Sound(m, k, r, e)
  PROVE  Sound(Event(m, event), k, r, e)
<1>1. m \in Memories
  BY DEF Sound
<1> QED
  BY <1>1, EventParts DEF Sound, Mirroring

(* Only a success brings the state machine forward. *)
LEMMA EventNotAhead ==
  ASSUME NEW m \in Memories, NotAhead(m),
         NEW event, \A d \in Domains : event # CSM!SuccessEvent(d)
  PROVE  NotAhead(Event(m, event))
<1>1. /\ event # "handshake_success_vcsec" /\ event # "handshake_success_infotainment"
  BY TwoDomains DEF CSM!SuccessEvent, VCSEC, Infotainment
<1>2. /\ CSM!After(m.csm, event) = "fully_secure" => m.csm = "fully_secure"
      /\ CSM!After(m.csm, event) \in {"secure_vcsec", "handshaking_infotainment", "fully_secure"}
           => m.csm \in {"secure_vcsec", "handshaking_infotainment", "fully_secure"}
  BY <1>1 DEF CSM!After
<1> QED
  BY <1>2, EventParts DEF NotAhead

(* A success with its session is no step ahead. *)
LEMMA SuccessNotAhead ==
  ASSUME NEW m \in Memories, NotAhead(m), NEW d \in Domains, m.session[d].valid
  PROVE  /\ CSM!After(m.csm, CSM!SuccessEvent(d))
              \in {"secure_vcsec", "handshaking_infotainment", "fully_secure"}
              => m.session[VCSEC].valid
         /\ CSM!After(m.csm, CSM!SuccessEvent(d)) = "fully_secure" => m.session[Infotainment].valid
<1>1. d = VCSEC \/ d = Infotainment
  BY TwoDomains
<1>2. CASE d = VCSEC
  BY <1>2 DEF NotAhead, CSM!After, CSM!SuccessEvent, VCSEC, Infotainment
<1>3. CASE d = Infotainment
  BY <1>3 DEF NotAhead, CSM!After, CSM!SuccessEvent, VCSEC, Infotainment
<1> QED
  BY <1>1, <1>2, <1>3

(* The two clients learn of a session together. *)
LEMMA LearnedSound ==
  ASSUME NEW m, NEW k \in Nat, NEW r \in BOOLEAN, NEW e \in Nat, Sound(m, k, r, e),
         NEW d \in Domains, NEW info, info.epoch \in Nat, info.counter \in Nat, info.epoch <= e,
         NEW n \in Memories,
         n.session[d].epoch = info.epoch, n.session[d].key = k,
         \A c \in Domains : c # d => n.session[c] = m.session[c],
         n.zig = m.zig, n.zigKey = m.zigKey
  PROVE  Sound(Mirrored(n, d, info), k, r, e)
<1> DEFINE w == Mirrored(n, d, info)
<1>3. /\ w \in Memories /\ w.session = n.session /\ w.zigKey = m.zigKey
      /\ w.zig[d].epoch = info.epoch /\ w.zig[d].key = m.zigKey
      /\ \A c \in Domains : c # d => w.zig[c] = m.zig[c]
  BY MirroredParts
<1> HIDE DEF w
<1>4. ASSUME NEW c \in Domains
      PROVE  /\ w.session[c].epoch <= e
             /\ w.zig[c] # NoMirror =>
                  /\ w.zig[c].epoch = w.session[c].epoch
                  /\ w.zig[c].key = w.session[c].key \/ r
  <2>1. CASE c = d
    BY <1>3, <2>1 DEF Sound
  <2>2. CASE c # d
    BY <1>3, <2>2 DEF Sound, Mirroring
  <2> QED
    BY <2>1, <2>2
<1> QED
  BY <1>3, <1>4 DEF Sound, Mirroring, w

LEMMA LearnedNotAhead ==
  ASSUME NEW m \in Memories, NotAhead(m), NEW k \in Nat,
         NEW d \in Domains, NEW info, info.epoch \in Nat, info.counter \in Nat
  PROVE  NotAhead(Updated(m, d, info, k))
<1> DEFINE u == Updated(m, d, info, k)
<1>1. \A c \in Domains : m.session[c].valid => u.session[c].valid
  BY UpdatedParts
<1>2. u.csm = m.csm
  BY UpdatedParts
<1> QED
  BY <1>1, <1>2, TwoDomains DEF NotAhead

LEMMA RestoredSound ==
  ASSUME NEW m, NEW k \in Nat, NEW r \in BOOLEAN, NEW e \in Nat, Sound(m, k, r, e), NotAhead(m),
         NEW d \in Domains, NEW info, info.epoch \in Nat, info.counter \in Nat, info.epoch <= e
  PROVE  LET w == Mirrored(ConnectRequested(Updated(m, d, info, k), d), d, info)
         IN  Sound(w, k, r, e) /\ NotAhead(w)
<1> DEFINE u == Updated(m, d, info, k)
           n == ConnectRequested(u, d)
<1>1. m \in Memories
  BY DEF Sound
<1>2. /\ u \in Memories /\ u.zig = m.zig /\ u.zigKey = m.zigKey /\ u.session[d].valid
      /\ u.session[d].epoch = info.epoch /\ u.session[d].key = k
      /\ \A c \in Domains : c # d => u.session[c] = m.session[c]
  BY <1>1, UpdatedParts
<1>3. NotAhead(u)
  BY <1>1, LearnedNotAhead
<1>4. /\ "connect_requested" # CSM!SuccessEvent(VCSEC)
      /\ "connect_requested" # CSM!SuccessEvent(Infotainment)
  BY DEF CSM!SuccessEvent
<1> HIDE DEF u
<1>5. /\ n \in Memories /\ n.zig = m.zig /\ n.zigKey = m.zigKey /\ n.session = u.session
      /\ NotAhead(n)
  BY <1>2, <1>3, <1>4, TwoDomains, EventParts, EventNotAhead DEF ConnectRequested
<1>6. n = ConnectRequested(Updated(m, d, info, k), d)
  BY DEF u
<1> HIDE DEF n
<1>7. Sound(Mirrored(n, d, info), k, r, e)
  BY <1>2, <1>3, <1>5, LearnedSound
<1>8. /\ Mirrored(n, d, info).csm = CSM!After(n.csm, CSM!SuccessEvent(d))
      /\ Mirrored(n, d, info).session = n.session
  BY <1>5, MirroredParts
<1>9. n.session[d].valid
  BY <1>2, <1>5
<1>10. NotAhead(Mirrored(n, d, info))
  BY <1>5, <1>8, <1>9, SuccessNotAhead DEF NotAhead
<1> QED
  BY <1>6, <1>7, <1>10

LEMMA LoadedSound ==
  ASSUME NEW m, NEW k \in Nat, NEW r \in BOOLEAN, NEW e \in Nat, Sound(m, k, r, e), NotAhead(m),
         NEW d \in Domains, stored[d].epoch \in Nat, stored[d].counter \in Nat,
         stored[d].epoch <= e
  PROVE  Sound(Loaded(m, d, k), k, r, e) /\ NotAhead(Loaded(m, d, k))
<1>1. CASE stored[d] = NoStoredInfo
  BY <1>1 DEF Loaded
<1>2. CASE stored[d] # NoStoredInfo
  BY <1>2, RestoredSound DEF Loaded
<1> QED
  BY <1>1, <1>2

LEMMA AllLoadedSound ==
  ASSUME NEW m, NEW k \in Nat, NEW r \in BOOLEAN, NEW e \in Nat, Sound(m, k, r, e), NotAhead(m),
         \A d \in Domains : /\ stored[d].epoch \in Nat /\ stored[d].counter \in Nat
                            /\ stored[d].epoch <= e
  PROVE  Sound(AllLoaded(m, k), k, r, e) /\ NotAhead(AllLoaded(m, k))
<1>1. Sound(Loaded(m, VCSEC, k), k, r, e) /\ NotAhead(Loaded(m, VCSEC, k))
  BY TwoDomains, LoadedSound
<1> QED
  BY <1>1, TwoDomains, LoadedSound DEF AllLoaded

(* A new Zig client has the key in use and no session to disagree about. *)
LEMMA StartedSound ==
  ASSUME NEW m \in [session : Sessions, zigKey : Nat, zig : Mirrors, csm : CSM!States],
         NEW k \in Nat \ {NoKey}, NEW r \in BOOLEAN, NEW e \in Nat,
         \A d \in Domains : m.session[d].epoch <= e
  PROVE  /\ Sound(ZigStarted(m, k), k, r, e) /\ NotAhead(ZigStarted(m, k))
         /\ ZigStarted(m, k).session = m.session
<1> DEFINE none == [d \in Domains |-> NoMirror]
           w == [m EXCEPT !.zigKey = k, !.zig = none, !.csm = "disconnected"]
<1>1. none \in Mirrors /\ \A d \in Domains : none[d] = NoMirror
  BY DEF NoMirror, NoEpoch, NoKey, Mirrors
<1> HIDE DEF none
<1>2. /\ w \in Memories /\ w.session = m.session /\ w.zigKey = k /\ w.zig = none
      /\ w.csm = "disconnected"
  BY <1>1 DEF Memories, CSM!States
<1>3. ZigStarted(m, k) = w
  BY DEF ZigStarted, none
<1> HIDE DEF w
<1> QED
  BY <1>1, <1>2, <1>3 DEF Sound, Mirroring, NotAhead

LEMMA InvalidatedParts ==
  ASSUME NEW m \in Memories, NEW d \in Domains
  PROVE  /\ Invalidated(m, d) \in Memories
         /\ Invalidated(m, d).zig = m.zig /\ Invalidated(m, d).zigKey = m.zigKey
         /\ \A c \in Domains : /\ Invalidated(m, d).session[c].epoch = m.session[c].epoch
                               /\ Invalidated(m, d).session[c].key = m.session[c].key
         /\ ~Invalidated(m, d).session[d].valid
         /\ \A c \in Domains : c # d => Invalidated(m, d).session[c] = m.session[c]
         /\ Invalidated(m, d).csm = CSM!After(m.csm, ExpiredEvent(d))
<1> DEFINE n == [m EXCEPT !.session[d].valid = FALSE]
<1>1. Invalidated(m, d) = Event(n, ExpiredEvent(d))
  BY DEF Invalidated
<1>2. /\ n \in Memories /\ n.zig = m.zig /\ n.zigKey = m.zigKey /\ n.csm = m.csm
      /\ n.session = [m.session EXCEPT ![d] = [m.session[d] EXCEPT !.valid = FALSE]]
  BY DEF Memories, Sessions
<1>3. /\ \A c \in Domains : /\ n.session[c].epoch = m.session[c].epoch
                            /\ n.session[c].key = m.session[c].key
      /\ ~n.session[d].valid
      /\ \A c \in Domains : c # d => n.session[c] = m.session[c]
  BY <1>2 DEF Memories, Sessions
<1> HIDE DEF n
<1>4. LET w == Event(n, ExpiredEvent(d))
      IN  /\ w \in Memories /\ w.session = n.session /\ w.zig = n.zig
          /\ w.zigKey = n.zigKey /\ w.csm = CSM!After(n.csm, ExpiredEvent(d))
  BY <1>2, EventParts
<1> QED
  BY <1>1, <1>2, <1>3, <1>4

LEMMA InvalidatedSound ==
  ASSUME NEW m, NEW k \in Nat, NEW r \in BOOLEAN, NEW e \in Nat, Sound(m, k, r, e),
         NEW d \in Domains
  PROVE  /\ Sound(Invalidated(m, d), k, r, e)
         /\ NotAhead(m) => NotAhead(Invalidated(m, d))
<1>1. m \in Memories
  BY DEF Sound
<1> DEFINE w == Invalidated(m, d)
<1>2. /\ w \in Memories /\ w.zig = m.zig /\ w.zigKey = m.zigKey
      /\ \A c \in Domains : w.session[c].epoch = m.session[c].epoch
                            /\ w.session[c].key = m.session[c].key
      /\ \A c \in Domains : c # d => w.session[c] = m.session[c]
      /\ w.csm = CSM!After(m.csm, ExpiredEvent(d))
  BY <1>1, InvalidatedParts
<1> HIDE DEF w
<1>3. Sound(w, k, r, e)
  BY <1>2 DEF Sound, Mirroring
<1>4. ASSUME NotAhead(m) PROVE NotAhead(w)
  <2>1. CASE d = VCSEC
    BY <1>2, <1>4, <2>1, TwoDomains
       DEF NotAhead, CSM!After, ExpiredEvent, VCSEC, Infotainment
  <2>2. CASE d = Infotainment
    BY <1>2, <1>4, <2>2, TwoDomains
       DEF NotAhead, CSM!After, ExpiredEvent, VCSEC, Infotainment
  <2> QED
    BY <2>1, <2>2, TwoDomains
<1> QED
  BY <1>3, <1>4 DEF w

(* What a session info does to the sessions. *)
InfoOnly(m, w, d, reply, k) ==
  /\ \A c \in Domains : c # d => w.session[c] = m.session[c]
  /\ \/ w.session[d] = m.session[d]
     \/ ~w.session[d].valid /\ w.session[d].epoch = m.session[d].epoch
     \/ /\ reply.status = "ok"
        /\ w.session[d].epoch = reply.epoch /\ w.session[d].counter = reply.counter
        /\ w.session[d].key = k /\ w.session[d].valid

LEMMA InfoSound ==
  ASSUME NEW m, NEW r \in BOOLEAN, NEW e \in Nat, NEW reply \in Reply, key \in Nat,
         Sound(m, key, r, e), NEW mis \in BOOLEAN, mis \/ NotAhead(m), reply.epoch <= e
  PROVE  LET w == InfoTaken(m, reply.domain, reply)
         IN  /\ Sound(w, key, r, e)
             /\ mis \/ reply.status = "unusable" \/ NotAhead(w)
             /\ InfoOnly(m, w, reply.domain, reply, key)
<1> DEFINE d == reply.domain
           success == CSM!SuccessEvent(d)
           n == Event(m, success)
           u == Updated(n, d, reply, key)
           w == InfoTaken(m, d, reply)
<1>1. /\ d \in Domains /\ reply.epoch \in Nat /\ reply.counter \in Nat
      /\ reply.status \in {"none", "ok", "unusable", "not_on_whitelist"}
  BY DEF Reply
<1>2. m \in Memories
  BY DEF Sound
<1>3. CASE reply.status = "none"
  BY <1>3 DEF InfoTaken, InfoOnly
<1>4. CASE reply.status = "not_on_whitelist"
  <2>1. w = Event(m, "handshake_failed")
    BY <1>4 DEF InfoTaken
  <2>2. \A c \in Domains : "handshake_failed" # CSM!SuccessEvent(c)
    BY DEF CSM!SuccessEvent
  <2>3. NotAhead(m) => NotAhead(Event(m, "handshake_failed"))
    BY <1>2, <2>2, EventNotAhead
  <2> QED
    BY <1>2, <2>1, <2>3, EventSound, EventParts DEF InfoOnly
<1>5. CASE reply.status = "unusable"
  <2>1. w = n
    BY <1>5 DEF InfoTaken
  <2> QED
    BY <1>2, <1>5, <2>1, EventSound, EventParts DEF InfoOnly
<1>6. CASE reply.status = "ok"
  <2>1. w = Mirrored(u, d, reply)
    BY <1>6 DEF InfoTaken
  <2>2. /\ n \in Memories /\ n.session = m.session /\ n.zig = m.zig /\ n.zigKey = m.zigKey
        /\ n.csm = CSM!After(m.csm, success)
    BY <1>2, EventParts
  <2> HIDE DEF n, d
  <2>3. /\ u \in Memories /\ u.zig = m.zig /\ u.zigKey = m.zigKey /\ u.csm = n.csm
        /\ u.session[d].epoch = reply.epoch /\ u.session[d].counter = reply.counter
        /\ u.session[d].key = key /\ u.session[d].valid
        /\ \A c \in Domains : c # d => u.session[c] = m.session[c]
    BY <1>1, <2>2, UpdatedParts
  <2> HIDE DEF u
  <2>4. /\ Mirrored(u, d, reply).session = u.session
        /\ Mirrored(u, d, reply).csm = CSM!After(u.csm, success)
    BY <1>1, <2>3, MirroredParts
  <2>5. Sound(Mirrored(u, d, reply), key, r, e)
    BY <1>1, <2>3, LearnedSound
  <2>6. CSM!After(CSM!After(m.csm, success), success) = CSM!After(m.csm, success)
    BY <1>1, TwoDomains DEF CSM!After, CSM!SuccessEvent
  <2>7. ASSUME NotAhead(m) PROVE NotAhead(Mirrored(u, d, reply))
    <3>1. /\ NotAhead(Updated(m, d, reply, key)) /\ Updated(m, d, reply, key) \in Memories
          /\ Updated(m, d, reply, key).session[d].valid
          /\ Updated(m, d, reply, key).csm = m.csm
          /\ \A c \in Domains : c # d => Updated(m, d, reply, key).session[c] = m.session[c]
      BY <1>1, <1>2, <2>7, LearnedNotAhead, UpdatedParts
    <3>2. \A c \in Domains : Updated(m, d, reply, key).session[c].valid => u.session[c].valid
      BY <2>3, <3>1
    <3> QED
      BY <1>1, <2>2, <2>3, <2>4, <2>6, <3>1, <3>2, TwoDomains, SuccessNotAhead DEF NotAhead
  <2>8. InfoOnly(m, w, d, reply, key)
    BY <1>6, <2>1, <2>3, <2>4 DEF InfoOnly
  <2> QED
    BY <2>1, <2>5, <2>7, <2>8 DEF d
<1> QED
  BY <1>1, <1>3, <1>4, <1>5, <1>6

----------------------------------------------------------------------------
(* The steps.                                                                *)

LEMMA MemoryTypes ==
  ASSUME TypeOK
  PROVE  Memory \in Memories
BY DEF TypeOK, Memory, Memories, Sessions, Mirrors

LEMMA Remembered ==
  ASSUME NEW w \in Memories, Remember(w)
  PROVE  /\ Memory' = w
         /\ session' = w.session /\ zigKey' = w.zigKey /\ zig' = w.zig /\ csm' = w.csm
         /\ session' \in Sessions /\ zigKey' \in Nat \ {NoKey} /\ zig' \in Mirrors
         /\ csm' \in CSM!States
BY DEF Remember, Memory, Memories

(* The answers under way stay in order when one is taken or one of this epoch is     *)
(* added.                                                                       *)
LEMMA AnswersKept ==
  ASSUME TypeOK, AnswersInOrder, epoch' = epoch,
         \/ toComponent' = toComponent
         \/ toComponent # <<>> /\ toComponent' = Tail(toComponent)
         \/ toComponent' = <<>>
         \/ \E n \in 0..Len(toComponent) : toComponent' = SubSeq(toComponent, 1, n)
         \/ \E a \in Reply : a.epoch = epoch /\ toComponent' = Append(toComponent, a)
  PROVE  /\ AnswersInOrder'
         /\ toComponent' \in Seq(Reply)
         /\ (\A i \in 1..Len(toComponent) : toComponent[i].epoch = epoch)
              => \A i \in 1..Len(toComponent') : toComponent'[i].epoch = epoch
<1>1. toComponent \in Seq(Reply) /\ epoch \in Nat
  BY DEF TypeOK
<1>2. CASE toComponent' = toComponent
  BY <1>1, <1>2 DEF AnswersInOrder
<1>3. CASE toComponent # <<>> /\ toComponent' = Tail(toComponent)
  <2>1. /\ toComponent' \in Seq(Reply) /\ Len(toComponent') = Len(toComponent) - 1
        /\ \A i \in 1..Len(toComponent') : toComponent'[i] = toComponent[i + 1]
    BY <1>1, <1>3
  <2>2. \A i \in 1..Len(toComponent') : i + 1 \in 1..Len(toComponent)
    BY <1>1, <2>1
  <2>3. \A i \in 1..Len(toComponent') : toComponent'[i].epoch <= epoch
    BY <2>1, <2>2 DEF AnswersInOrder
  <2>4. ASSUME NEW i \in 1..Len(toComponent'), NEW j \in 1..Len(toComponent'), i <= j
        PROVE  toComponent'[i].epoch <= toComponent'[j].epoch
    <3>1. i + 1 \in 1..Len(toComponent) /\ j + 1 \in 1..Len(toComponent) /\ i + 1 <= j + 1
      BY <2>2, <2>4
    <3> QED
      BY <2>1, <3>1 DEF AnswersInOrder
  <2>5. (\A i \in 1..Len(toComponent) : toComponent[i].epoch = epoch)
          => \A i \in 1..Len(toComponent') : toComponent'[i].epoch = epoch
    BY <2>1, <2>2
  <2> QED
    BY <2>1, <2>3, <2>4, <2>5 DEF AnswersInOrder
<1>4. CASE toComponent' = <<>>
  BY <1>4 DEF AnswersInOrder
<1>5. ASSUME NEW a \in Reply, a.epoch = epoch, toComponent' = Append(toComponent, a)
      PROVE  /\ AnswersInOrder'
             /\ toComponent' \in Seq(Reply)
             /\ (\A i \in 1..Len(toComponent) : toComponent[i].epoch = epoch)
                  => \A i \in 1..Len(toComponent') : toComponent'[i].epoch = epoch
  <2>1. /\ toComponent' \in Seq(Reply) /\ Len(toComponent') = Len(toComponent) + 1
        /\ \A i \in 1..Len(toComponent) : toComponent'[i] = toComponent[i]
        /\ toComponent'[Len(toComponent) + 1].epoch = epoch
    BY <1>1, <1>5
  <2>2. \A i \in 1..Len(toComponent') : i \in 1..Len(toComponent) \/ i = Len(toComponent) + 1
    BY <1>1, <2>1
  <2>3. \A i \in 1..Len(toComponent') : toComponent'[i].epoch <= epoch
    BY <1>1, <2>1, <2>2 DEF AnswersInOrder
  <2>4. ASSUME NEW i \in 1..Len(toComponent'), NEW j \in 1..Len(toComponent'), i <= j
        PROVE  toComponent'[i].epoch <= toComponent'[j].epoch
    <3>1. CASE j = Len(toComponent) + 1
      BY <2>1, <2>3, <3>1
    <3>2. CASE j \in 1..Len(toComponent)
      <4>1. i \in 1..Len(toComponent)
        BY <1>1, <2>4, <3>2
      <4> QED
        BY <2>1, <2>4, <3>2, <4>1 DEF AnswersInOrder
    <3> QED
      BY <2>2, <3>1, <3>2
  <2> QED
    BY <2>1, <2>2, <2>3, <2>4 DEF AnswersInOrder
<1>6. ASSUME NEW n \in 0..Len(toComponent), toComponent' = SubSeq(toComponent, 1, n)
      PROVE  /\ AnswersInOrder'
             /\ toComponent' \in Seq(Reply)
             /\ (\A i \in 1..Len(toComponent) : toComponent[i].epoch = epoch)
                  => \A i \in 1..Len(toComponent') : toComponent'[i].epoch = epoch
  <2>1. /\ toComponent' \in Seq(Reply) /\ Len(toComponent') = n
        /\ \A i \in 1..n : i \in 1..Len(toComponent) /\ toComponent'[i] = toComponent[i]
    BY <1>1, <1>6
  <2> QED
    BY <1>1, <2>1 DEF AnswersInOrder
<1> QED
  BY <1>2, <1>3, <1>4, <1>5, <1>6

LEMMA InitIInv == Init => IInv
<1> SUFFICES ASSUME Init PROVE IInv
  OBVIOUS
<1>1. /\ session \in Sessions /\ zig \in Mirrors /\ stored \in [Domains -> [epoch : Nat, counter : Nat]]
      /\ accepted \in [Domains -> Nat]
  BY DEF Init, Sessions, Mirrors, NoSession, NoMirror, NoStoredInfo, NoEpoch, NoKey
<1>2. regenerated \in BOOLEAN /\ misled \in BOOLEAN /\ asked \in Waiting
  BY Zenon DEF Init, Waiting
<1>3. toVehicle \in Seq(Request \cup Command) /\ toComponent \in Seq(Reply)
  BY DEF Init
<1>4. TypeOK
  BY <1>1, <1>2, <1>3 DEF Init, TypeOK, CSM!States, Sessions, Mirrors, NoKey, NoEpoch
<1>5. Memory.zig = zig /\ Memory.session = session /\ Memory.zigKey = zigKey /\ Memory.csm = csm
  BY DEF Memory
<1>6. \A d \in Domains : zig[d] = NoMirror /\ session[d].epoch = 0 /\ stored[d].epoch = 0
  BY DEF Init, NoSession, NoStoredInfo, NoEpoch
<1>7. Sound(Memory, key, regenerated, epoch)
  BY <1>4, <1>5, <1>6, MemoryTypes DEF Sound, Mirroring, Init
<1>8. NotAhead(Memory)
  BY <1>5 DEF NotAhead, Init
<1>9. StoredIsPast /\ AnswersInOrder /\ NothingOlder
  BY <1>6 DEF StoredIsPast, AnswersInOrder, NothingOlder, Init
<1> QED
  BY <1>4, <1>7, <1>8, <1>9 DEF IInv

(* A step that leaves both ends' memories and the keys alone. *)
LEMMA MemoryKept ==
  ASSUME IInv, UNCHANGED <<client, key, regenerated, misled, epoch>>
  PROVE  /\ Sound(Memory, key, regenerated, epoch)'
         /\ (misled \/ NotAhead(Memory))'
         /\ session' \in Sessions /\ zigKey' \in Nat \ {NoKey} /\ zig' \in Mirrors
         /\ csm' \in CSM!States
<1>1. /\ session' = session /\ zigKey' = zigKey /\ zig' = zig /\ csm' = csm
      /\ key' = key /\ regenerated' = regenerated /\ misled' = misled /\ epoch' = epoch
  BY DEF client
<1>2. Memory' = Memory
  BY <1>1 DEF Memory
<1> QED
  BY <1>1, <1>2 DEF IInv, Sound, Mirroring, NotAhead, TypeOK, Sessions, Mirrors

LEMMA WantStep == ASSUME IInv, NEW d \in Domains, Want(d) PROVE IInv'
<1>1. /\ UNCHANGED <<link, key, flash, client, regenerated, misled, asked, vehicle, messages>>
      /\ UNCHANGED disturbances /\ wanted' = wanted - 1 /\ wanted > 0 /\ front' = d
  BY DEF Want, Undisturbed
<1>2. TypeOK'
  <2>1. wanted' \in Nat /\ front' \in Domains \cup {NoCommand} /\ asked' = asked
        /\ disturbances' = disturbances
    BY <1>1 DEF IInv, TypeOK
  <2>2. /\ session' \in Sessions /\ zigKey' \in Nat \ {NoKey} /\ zig' \in Mirrors
        /\ csm' \in CSM!States
    BY <1>1, MemoryKept DEF vehicle
  <2> QED
    BY <1>1, <2>1, <2>2 DEF IInv, TypeOK, Sessions, Mirrors, flash, vehicle, messages
<1>3. Sound(Memory, key, regenerated, epoch)' /\ (misled \/ NotAhead(Memory))'
  BY <1>1, MemoryKept DEF vehicle
<1>4. StoredIsPast' /\ AnswersInOrder' /\ NothingOlder'
  BY <1>1 DEF IInv, StoredIsPast, AnswersInOrder, NothingOlder,
              flash, client, vehicle, messages
<1> QED
  BY <1>2, <1>3, <1>4 DEF IInv

LEMMA StillStep == ASSUME IInv, TimeOut \/ startPair \/ UNCHANGED vars PROVE IInv'
<1>1. /\ UNCHANGED <<link, key, flash, client, regenerated, misled, epoch, accepted, messages>>
  BY DEF TimeOut, startPair, vars, flash, client, vehicle, messages
<1>2. /\ wanted' = wanted /\ front' \in Domains \cup {NoCommand} /\ asked' \in Waiting
      /\ disturbances' \in 0..MaxDisturbances /\ paired' \subseteq Nat
  <2>1. CASE TimeOut
    <3>1. asked' \in Waiting
      BY <2>1, Zenon DEF TimeOut, Waiting
    <3>2. disturbances' \in 0..MaxDisturbances
      BY <2>1 DEF IInv, TypeOK, TimeOut, Disturb, Undisturbed
    <3> QED
      BY <2>1, <3>1, <3>2 DEF IInv, TypeOK, TimeOut, vehicle
  <2>2. CASE startPair
    BY <2>2 DEF IInv, TypeOK, startPair, Undisturbed
  <2>3. CASE UNCHANGED vars
    BY <2>3 DEF IInv, TypeOK, vars
  <2> QED
    BY <2>1, <2>2, <2>3
<1>3. TypeOK'
  BY <1>1, <1>2, MemoryKept DEF IInv, TypeOK, flash, client, messages
<1>4. Sound(Memory, key, regenerated, epoch)' /\ (misled \/ NotAhead(Memory))'
  BY <1>1, MemoryKept
<1>5. StoredIsPast' /\ AnswersInOrder' /\ NothingOlder'
  BY <1>1 DEF IInv, StoredIsPast, AnswersInOrder, NothingOlder,
              flash, client, messages
<1> QED
  BY <1>3, <1>4, <1>5 DEF IInv

LEMMA RequestInfoStep == ASSUME IInv, NEW d \in Domains, RequestInfo(d) PROVE IInv'
<1> DEFINE w == ConnectRequested(Memory, d)
<1>1. /\ link = "open" /\ Remember(w) /\ asked' = "session"
      /\ toVehicle' = Append(toVehicle, [kind |-> "request", domain |-> d])
      /\ UNCHANGED <<link, key, flash, regenerated, misled, wanted, front, vehicle, toComponent>>
      /\ UNCHANGED disturbances
  BY DEF RequestInfo, CanSend, Undisturbed
<1>2. /\ Memory \in Memories /\ "connect_requested" # CSM!SuccessEvent(VCSEC)
      /\ "connect_requested" # CSM!SuccessEvent(Infotainment)
  BY MemoryTypes DEF IInv, CSM!SuccessEvent
<1>3. /\ w \in Memories /\ w.session = Memory.session
      /\ Sound(w, key, regenerated, epoch) /\ (misled \/ NotAhead(w))
  <2>1. regenerated \in BOOLEAN /\ epoch \in Nat
    BY DEF IInv, TypeOK
  <2> QED
    BY <1>2, <2>1, TwoDomains, EventParts, EventSound, EventNotAhead
       DEF IInv, ConnectRequested
<1> HIDE DEF w
<1>4. /\ Memory' = w /\ session' = session
      /\ session' \in Sessions /\ zigKey' \in Nat \ {NoKey} /\ zig' \in Mirrors
      /\ csm' \in CSM!States
  BY <1>1, <1>3, Remembered DEF Memory
<1>5. toVehicle' \in Seq(Request \cup Command)
  <2>1. [kind |-> "request", domain |-> d] \in Request \cup Command
    BY DEF Request
  <2> QED
    BY <1>1, <2>1 DEF IInv, TypeOK
<1>6. TypeOK'
  <2>1. asked' \in Waiting
    BY <1>1, Zenon DEF Waiting
  <2> QED
    BY <1>1, <1>4, <1>5, <2>1 DEF IInv, TypeOK, Sessions, Mirrors, flash, vehicle
<1>7. Sound(Memory, key, regenerated, epoch)' /\ (misled \/ NotAhead(Memory))'
  BY <1>1, <1>3, <1>4 DEF Sound, Mirroring, NotAhead, vehicle
<1>8. StoredIsPast' /\ AnswersInOrder' /\ NothingOlder'
  BY <1>1, <1>4 DEF IInv, StoredIsPast, AnswersInOrder, NothingOlder,
              flash, vehicle
<1> QED
  BY <1>6, <1>7, <1>8 DEF IInv

LEMMA SendCommandStep == ASSUME IInv, NEW d \in Domains, SendCommand(d) PROVE IInv'
<1> DEFINE command == [kind |-> "command", domain |-> d, epoch |-> session[d].epoch,
                       counter |-> session[d].counter + 1, secret |-> session[d].key,
                       signer |-> key]
<1>1. /\ link = "open" /\ asked' = "answer"
      /\ session' = [session EXCEPT ![d].counter = session[d].counter + 1]
      /\ toVehicle' = Append(toVehicle, command)
      /\ UNCHANGED <<link, key, flash, zigKey, zig, csm, regenerated, misled, wanted, front,
                     vehicle, toComponent>>
      /\ UNCHANGED disturbances
  BY DEF SendCommand, CanSend, Undisturbed, Counted
<1>2. session \in Sessions /\ key \in Nat
  BY DEF IInv, TypeOK, Sessions
<1>3. /\ session' \in Sessions
      /\ \A c \in Domains : /\ session'[c].epoch = session[c].epoch
                            /\ session'[c].key = session[c].key
                            /\ session'[c].valid = session[c].valid
  <2>1. session[d].counter + 1 \in Nat /\ session[d] \in [epoch : Nat, counter : Nat, key : Nat, valid : BOOLEAN]
    BY <1>2 DEF Sessions
  <2> DEFINE counted == [session[d] EXCEPT !.counter = session[d].counter + 1]
  <2>2. /\ counted \in [epoch : Nat, counter : Nat, key : Nat, valid : BOOLEAN]
        /\ counted.epoch = session[d].epoch /\ counted.key = session[d].key
        /\ counted.valid = session[d].valid
    BY <2>1
  <2>3. session' = [session EXCEPT ![d] = counted]
    BY <1>1
  <2> HIDE DEF counted
  <2>4. session'[d] = counted /\ \A c \in Domains : c # d => session'[c] = session[c]
    BY <1>2, <2>3 DEF Sessions
  <2>5. session' \in Sessions
    BY <1>2, <2>2, <2>3 DEF Sessions
  <2> QED
    BY <2>2, <2>4, <2>5
<1>4. command \in Request \cup Command
  BY <1>2 DEF Command, Sessions
<1> HIDE DEF command
<1>5. toVehicle' \in Seq(Request \cup Command)
  BY <1>1, <1>4 DEF IInv, TypeOK
<1>6. TypeOK'
  <2>1. asked' \in Waiting
    BY <1>1, Zenon DEF Waiting
  <2> QED
    BY <1>1, <1>3, <1>5, <2>1 DEF IInv, TypeOK, Sessions, flash, vehicle
<1>7. /\ Memory'.session = session' /\ Memory'.zig = zig /\ Memory'.zigKey = zigKey
      /\ Memory'.csm = csm
      /\ Memory.session = session /\ Memory.zig = zig /\ Memory.zigKey = zigKey
      /\ Memory.csm = csm /\ Memory' \in Memories
  <2>1. Memory' \in Memories
    BY <1>6 DEF TypeOK, Memory, Memories, Sessions, Mirrors
  <2> QED
    BY <1>1, <2>1 DEF Memory
<1>8. Sound(Memory, key, regenerated, epoch)'
  BY <1>1, <1>3, <1>7 DEF IInv, Sound, Mirroring, vehicle
<1>9. (misled \/ NotAhead(Memory))'
  BY <1>1, <1>3, <1>7, TwoDomains DEF IInv, NotAhead
<1>10. StoredIsPast' /\ AnswersInOrder' /\ NothingOlder'
  BY <1>1, <1>3 DEF IInv, StoredIsPast, AnswersInOrder, NothingOlder,
              flash, vehicle
<1> QED
  BY <1>6, <1>8, <1>9, <1>10 DEF IInv

(* What an answer does to the sessions. *)
ReplyOnly(reply) ==
  /\ \A c \in Domains : c # reply.domain => AfterReply(reply).session[c] = session[c]
  /\ \/ AfterReply(reply).session[reply.domain] = session[reply.domain]
     \/ /\ ~AfterReply(reply).session[reply.domain].valid
        /\ AfterReply(reply).session[reply.domain].epoch = session[reply.domain].epoch
     \/ /\ reply.status = "ok"
        /\ AfterReply(reply).session[reply.domain].epoch = reply.epoch
        /\ AfterReply(reply).session[reply.domain].counter = reply.counter
        /\ AfterReply(reply).session[reply.domain].key = key
        /\ AfterReply(reply).session[reply.domain].valid

LEMMA ReplySound ==
  ASSUME IInv, NEW reply \in Reply, reply.epoch <= epoch
  PROVE  /\ Sound(AfterReply(reply), key, regenerated, epoch)
         /\ misled \/ reply.status = "unusable" \/ NotAhead(AfterReply(reply))
         /\ ReplyOnly(reply)
<1> DEFINE f == AfterFault(reply)
           d == reply.domain
           w == InfoTaken(f, d, reply)
<1>1. /\ d \in Domains /\ key \in Nat /\ regenerated \in BOOLEAN /\ epoch \in Nat
      /\ misled \in BOOLEAN /\ Memory \in Memories /\ Memory.session = session
  BY MemoryTypes DEF IInv, TypeOK, Reply, Memory
<1>2. /\ Sound(f, key, regenerated, epoch) /\ (misled \/ NotAhead(f))
      /\ \A c \in Domains : c # d => f.session[c] = session[c]
      /\ \/ f.session[d] = session[d]
         \/ ~f.session[d].valid /\ f.session[d].epoch = session[d].epoch
  <2>1. CASE reply.fault
    <3>1. f = Invalidated(Memory, d)
      BY <2>1 DEF AfterFault
    <3>2. /\ Sound(Invalidated(Memory, d), key, regenerated, epoch)
          /\ NotAhead(Memory) => NotAhead(Invalidated(Memory, d))
      BY <1>1, InvalidatedSound DEF IInv
    <3>3. /\ ~Invalidated(Memory, d).session[d].valid
          /\ \A c \in Domains : Invalidated(Memory, d).session[c].epoch = Memory.session[c].epoch
          /\ \A c \in Domains : c # d => Invalidated(Memory, d).session[c] = Memory.session[c]
      BY <1>1, InvalidatedParts
    <3> QED
      BY <1>1, <3>1, <3>2, <3>3 DEF IInv
  <2>2. CASE ~reply.fault
    BY <1>1, <2>2 DEF AfterFault, IInv
  <2> QED
    BY <2>1, <2>2
<1> HIDE DEF f
<1>3. /\ Sound(w, key, regenerated, epoch)
      /\ misled \/ reply.status = "unusable" \/ NotAhead(w)
      /\ InfoOnly(f, w, d, reply, key)
  BY <1>1, <1>2, InfoSound
<1>4. AfterReply(reply) = w
  BY DEF AfterReply, f
<1> HIDE DEF w
<1>5. ReplyOnly(reply)
  BY <1>1, <1>2, <1>3, <1>4 DEF InfoOnly, ReplyOnly
<1> QED
  BY <1>3, <1>4, <1>5

LEMMA ReceiveStep == ASSUME IInv, Receive PROVE IInv'
<1> DEFINE reply == Head(toComponent)
           w == AfterReply(reply)
<1>1. /\ link = "open" /\ toComponent # <<>> /\ toComponent' = Tail(toComponent)
      /\ Remember(w)
      /\ \/ stored' = [stored EXCEPT ![reply.domain] =
                         [epoch |-> reply.epoch, counter |-> reply.counter]]
         \/ UNCHANGED stored
      /\ asked' = AskedAfter(reply)
      /\ front' = front \/ front' = NoCommand
      /\ misled' = (misled \/ reply.status = "unusable")
      /\ UNCHANGED <<link, key, storedKey, regenerated, wanted, vehicle, toVehicle>>
      /\ UNCHANGED disturbances
  BY DEF Receive, Undisturbed
<1>2. reply \in Reply /\ reply.epoch <= epoch
  <2>1. toComponent \in Seq(Reply) /\ 1 \in 1..Len(toComponent)
    BY <1>1 DEF IInv, TypeOK
  <2> QED
    BY <2>1 DEF IInv, AnswersInOrder
<1> HIDE DEF reply
<1>3. /\ Sound(w, key, regenerated, epoch)
      /\ misled \/ reply.status = "unusable" \/ NotAhead(w)
      /\ ReplyOnly(reply) /\ w \in Memories
  BY <1>2, ReplySound DEF Sound
<1>4. /\ Memory' = w /\ session' = w.session
      /\ session' \in Sessions /\ zigKey' \in Nat \ {NoKey} /\ zig' \in Mirrors
      /\ csm' \in CSM!States
  BY <1>1, <1>3, Remembered
<1>5. /\ AnswersInOrder' /\ toComponent' \in Seq(Reply)
      /\ (\A i \in 1..Len(toComponent) : toComponent[i].epoch = epoch)
           => \A i \in 1..Len(toComponent') : toComponent'[i].epoch = epoch
  BY <1>1, AnswersKept DEF IInv, vehicle
<1>6. stored' \in [Domains -> [epoch : Nat, counter : Nat]] /\ StoredIsPast'
  <2>1. reply.domain \in Domains /\ reply.epoch \in Nat /\ reply.counter \in Nat
        /\ epoch' = epoch /\ stored \in [Domains -> [epoch : Nat, counter : Nat]]
    BY <1>1, <1>2 DEF Reply, vehicle, IInv, TypeOK
  <2>2. CASE UNCHANGED stored
    BY <2>1, <2>2 DEF IInv, StoredIsPast
  <2>3. CASE stored' = [stored EXCEPT ![reply.domain] =
                          [epoch |-> reply.epoch, counter |-> reply.counter]]
    <3> DEFINE new == [epoch |-> reply.epoch, counter |-> reply.counter]
    <3>1. new \in [epoch : Nat, counter : Nat] /\ new.epoch = reply.epoch
      BY <2>1
    <3> HIDE DEF new
    <3>2. stored' = [stored EXCEPT ![reply.domain] = new]
      BY <2>3 DEF new
    <3> QED
      BY <1>2, <2>1, <3>1, <3>2 DEF IInv, StoredIsPast
  <2> QED
    BY <1>1, <2>2, <2>3
<1>7. TypeOK'
  <2>1. asked \in Waiting
    BY DEF IInv, TypeOK
  <2>2. asked' \in Waiting /\ misled' \in BOOLEAN
    BY <1>1, <2>1, Zenon DEF AskedAfter, Waiting
  <2> QED
    BY <1>1, <1>4, <1>5, <1>6, <2>2 DEF IInv, TypeOK, Sessions, Mirrors, vehicle
<1>8. Sound(Memory, key, regenerated, epoch)'
  BY <1>1, <1>3, <1>4 DEF Sound, Mirroring, vehicle
<1>9. (misled \/ NotAhead(Memory))'
  BY <1>1, <1>3, <1>4 DEF NotAhead
<1>10. NothingOlder'
  <2>0. epoch' = epoch /\ epoch \in Nat /\ toComponent \in Seq(Reply)
    BY <1>1 DEF vehicle, IInv, TypeOK
  <2>1. SUFFICES ASSUME NEW c \in Domains, session'[c].epoch = epoch \/ stored'[c].epoch = epoch
                 PROVE  \A i \in 1..Len(toComponent') : toComponent'[i].epoch = epoch
    BY <2>0 DEF NothingOlder
  <2>2. session[c].epoch = epoch \/ stored[c].epoch = epoch \/ reply.epoch = epoch
    <3>1. CASE session'[c].epoch = epoch
      BY <1>3, <1>4, <3>1 DEF ReplyOnly
    <3>2. CASE stored'[c].epoch = epoch
      <4> DEFINE new == [epoch |-> reply.epoch, counter |-> reply.counter]
      <4>1. stored \in [Domains -> [epoch : Nat, counter : Nat]] /\ new.epoch = reply.epoch
        BY DEF IInv, TypeOK
      <4> HIDE DEF new
      <4>2. stored' = stored \/ stored' = [stored EXCEPT ![reply.domain] = new]
        BY <1>1 DEF new
      <4> QED
        BY <3>2, <4>1, <4>2
    <3> QED
      BY <2>1, <3>1, <3>2
  <2>3. CASE session[c].epoch = epoch \/ stored[c].epoch = epoch
    BY <1>5, <2>3 DEF IInv, NothingOlder
  <2>4. CASE reply.epoch = epoch
    <3>1. reply = toComponent[1] /\ 1 \in 1..Len(toComponent)
      BY <1>1, <2>0 DEF reply
    <3>2. ASSUME NEW i \in 1..Len(toComponent)
          PROVE  toComponent[i].epoch = epoch
      <4>1. toComponent[i].epoch <= epoch /\ toComponent[1].epoch <= toComponent[i].epoch
        BY <2>0, <3>1 DEF IInv, AnswersInOrder
      <4>2. toComponent[i].epoch \in Nat
        <5>1. toComponent[i] \in Reply
          BY <2>0
        <5> QED
          BY <5>1 DEF Reply
      <4> QED
        BY <2>0, <2>4, <3>1, <4>1, <4>2
    <3> QED
      BY <1>5, <3>2
  <2> QED
    BY <2>2, <2>3, <2>4
<1> QED
  BY <1>5, <1>6, <1>7, <1>8, <1>9, <1>10 DEF IInv

LEMMA ServeStep == ASSUME IInv, Serve PROVE IInv'
<1> DEFINE m == Head(toVehicle)
<1>1. /\ toVehicle # <<>> /\ toVehicle \in Seq(Request \cup Command)
      /\ m \in Request \cup Command
      /\ epoch \in Nat /\ accepted \in [Domains -> Nat] /\ key \in Nat
  BY DEF Serve, IInv, TypeOK
<1>2. m.domain \in Domains /\ (m.kind = "command" => m.counter \in Nat)
  BY <1>1 DEF Request, Command
<1>3. UNCHANGED <<link, key, flash, client, regenerated, misled, wanted, front, asked,
                  epoch, paired>>
  BY DEF Serve
<1>4. \A d \in Domains, status \in {"none", "ok", "unusable", "not_on_whitelist"} :
        SessionInfo(d, status) \in Reply /\ SessionInfo(d, status).epoch = epoch
  BY <1>1 DEF SessionInfo, Reply
<1>5. /\ accepted' \in [Domains -> Nat]
      /\ disturbances' \in 0..MaxDisturbances
      /\ toVehicle' = Tail(toVehicle)
      /\ \E a \in Reply : a.epoch = epoch /\ toComponent' = Append(toComponent, a)
  <2>1. Honest \in {"ok", "not_on_whitelist"}
    BY DEF Honest
  <2>2. CASE /\ m.kind = "request"
             /\ \/ Answer(SessionInfo(m.domain, Honest)) /\ Undisturbed
                \/ Answer(SessionInfo(m.domain, "unusable")) /\ Disturb
             /\ UNCHANGED accepted
    <3>1. PICK status \in {"ok", "unusable", "not_on_whitelist"} :
            Answer(SessionInfo(m.domain, status))
      BY <2>1, <2>2
    <3>2. SessionInfo(m.domain, status) \in Reply /\ SessionInfo(m.domain, status).epoch = epoch
      BY <1>2, <1>4
    <3>3. disturbances' \in 0..MaxDisturbances
      BY <2>2 DEF Undisturbed, Disturb, IInv, TypeOK
    <3> QED
      BY <1>1, <2>2, <3>1, <3>2, <3>3 DEF Answer
  <2>3. CASE /\ m.kind = "command" /\ Good(m)
             /\ accepted' = [accepted EXCEPT ![m.domain] = m.counter]
             /\ Answer([SessionInfo(m.domain, "none") EXCEPT !.counter = m.counter])
             /\ Undisturbed
    <3> DEFINE a == [SessionInfo(m.domain, "none") EXCEPT !.counter = m.counter]
    <3>1. a \in Reply /\ a.epoch = epoch
      BY <1>2, <1>4, <2>3 DEF Reply
    <3>2. toVehicle' = Tail(toVehicle) /\ toComponent' = Append(toComponent, a)
      BY <2>3 DEF Answer
    <3>3. accepted' \in [Domains -> Nat]
      BY <1>1, <1>2, <2>3
    <3> HIDE DEF a
    <3> QED
      BY <2>3, <3>1, <3>2, <3>3 DEF Undisturbed, IInv, TypeOK
  <2>4. CASE /\ m.kind = "command" /\ ~Good(m)
             /\ \E status \in {"none", Honest} :
                  Answer([SessionInfo(m.domain, status) EXCEPT !.fault = TRUE])
             /\ UNCHANGED accepted /\ Undisturbed
    <3>1. PICK status \in {"none", Honest} :
            Answer([SessionInfo(m.domain, status) EXCEPT !.fault = TRUE])
      BY <2>4
    <3> DEFINE a == [SessionInfo(m.domain, status) EXCEPT !.fault = TRUE]
    <3>2. a \in Reply /\ a.epoch = epoch
      <4>1. SessionInfo(m.domain, status) \in Reply /\ SessionInfo(m.domain, status).epoch = epoch
        BY <1>2, <1>4, <2>1
      <4> QED
        BY <4>1 DEF Reply
    <3>3. toVehicle' = Tail(toVehicle) /\ toComponent' = Append(toComponent, a)
      BY <3>1 DEF Answer
    <3> HIDE DEF a
    <3> QED
      BY <1>1, <2>4, <3>2, <3>3 DEF Undisturbed, IInv, TypeOK
  <2> QED
    BY <2>2, <2>3, <2>4 DEF Serve
<1> HIDE DEF m
<1>6. toVehicle' \in Seq(Request \cup Command)
  BY <1>1, <1>5
<1>7. /\ AnswersInOrder' /\ toComponent' \in Seq(Reply)
      /\ (\A i \in 1..Len(toComponent) : toComponent[i].epoch = epoch)
           => \A i \in 1..Len(toComponent') : toComponent'[i].epoch = epoch
  BY <1>3, <1>5, AnswersKept DEF IInv
<1>8. /\ Sound(Memory, key, regenerated, epoch)' /\ (misled \/ NotAhead(Memory))'
      /\ session' \in Sessions /\ zigKey' \in Nat \ {NoKey} /\ zig' \in Mirrors
      /\ csm' \in CSM!States
  BY <1>3, MemoryKept
<1>9. TypeOK'
  BY <1>3, <1>5, <1>6, <1>7, <1>8 DEF IInv, TypeOK, Sessions, Mirrors, flash
<1>10. StoredIsPast'
  BY <1>1, <1>3 DEF IInv, StoredIsPast, flash
<1>11. NothingOlder'
  BY <1>3, <1>7 DEF IInv, NothingOlder, client, flash
<1> QED
  BY <1>7, <1>8, <1>9, <1>10, <1>11 DEF IInv

(* The sessions of every epoch so far are of the past. *)
LEMMA RebootStep == ASSUME IInv, Reboot PROVE IInv'
<1>1. /\ epoch' = epoch + 1 /\ accepted' = [d \in Domains |-> 0]
      /\ UNCHANGED <<link, key, flash, client, regenerated, misled, wanted, front, asked,
                     paired, messages>>
      /\ disturbances' = disturbances + 1 /\ disturbances < MaxDisturbances
  BY DEF Reboot, Disturb
<1>2. /\ epoch \in Nat \ {NoEpoch} /\ toComponent \in Seq(Reply)
      /\ session \in Sessions /\ stored \in [Domains -> [epoch : Nat, counter : Nat]]
  BY DEF IInv, TypeOK, Sessions
<1>3. TypeOK'
  <2>1. epoch' \in Nat \ {NoEpoch} /\ accepted' \in [Domains -> Nat]
        /\ disturbances' \in 0..MaxDisturbances
    BY <1>1, <1>2 DEF IInv, TypeOK, NoEpoch
  <2> QED
    BY <1>1, <2>1 DEF IInv, TypeOK, flash, client, messages
<1>4. \A d \in Domains : session[d].epoch \in Nat /\ session[d].epoch <= epoch
  <2>1. Memory.session = session
    BY DEF Memory
  <2> QED
    BY <1>2, <2>1 DEF IInv, Sound, Sessions
<1>5. /\ Memory' = Memory /\ Memory.session = session
      /\ UNCHANGED <<key, regenerated, misled, session>>
  BY <1>1 DEF Memory, client
<1>6. Sound(Memory, key, regenerated, epoch)' /\ (misled \/ NotAhead(Memory))'
  BY <1>1, <1>2, <1>4, <1>5 DEF IInv, Sound, Mirroring, NotAhead
<1>7. StoredIsPast'
  <2>1. \A d \in Domains : stored[d].epoch \in Nat
    BY <1>2
  <2> QED
    BY <1>1, <1>2, <2>1 DEF IInv, StoredIsPast, flash
<1>8. AnswersInOrder'
  <2>1. \A i \in 1..Len(toComponent) : toComponent[i] \in Reply
    BY <1>2
  <2>2. \A i \in 1..Len(toComponent) : toComponent[i].epoch \in Nat
    BY <2>1 DEF Reply
  <2> QED
    BY <1>1, <1>2, <2>2 DEF IInv, AnswersInOrder, messages
<1>9. NothingOlder'
  <2>1. stored' = stored /\ \A d \in Domains : stored[d].epoch \in Nat /\ stored[d].epoch <= epoch
    BY <1>1, <1>2 DEF IInv, StoredIsPast, flash
  <2> QED
    BY <1>1, <1>2, <1>4, <1>5, <2>1 DEF NothingOlder
<1> QED
  BY <1>3, <1>6, <1>7, <1>8, <1>9 DEF IInv

LEMMA StoredTypes ==
  ASSUME IInv
  PROVE  \A d \in Domains : /\ stored[d].epoch \in Nat /\ stored[d].counter \in Nat
                            /\ stored[d].epoch <= epoch
BY DEF IInv, TypeOK, StoredIsPast

(* A session that was loaded is of the epoch it had, or the one in flash. *)
LEMMA LoadedEpochs ==
  ASSUME NEW m \in Memories, NEW d \in Domains, NEW k \in Nat,
         \A c \in Domains : stored[c].epoch \in Nat /\ stored[c].counter \in Nat
  PROVE  /\ Loaded(m, d, k) \in Memories
         /\ \A c \in Domains : \/ Loaded(m, d, k).session[c].epoch = m.session[c].epoch
                               \/ Loaded(m, d, k).session[c].epoch = stored[c].epoch
<1> DEFINE u == Updated(m, d, stored[d], k)
<1>1. /\ u \in Memories
      /\ \A c \in Domains : \/ u.session[c].epoch = m.session[c].epoch
                            \/ u.session[c].epoch = stored[c].epoch
  BY UpdatedParts
<1> HIDE DEF u
<1>2. ConnectRequested(u, d) \in Memories /\ ConnectRequested(u, d).session = u.session
  BY <1>1, EventParts DEF ConnectRequested
<1>3. /\ Mirrored(ConnectRequested(u, d), d, stored[d]) \in Memories
      /\ Mirrored(ConnectRequested(u, d), d, stored[d]).session = u.session
  BY <1>2, MirroredParts
<1> QED
  BY <1>1, <1>3 DEF Loaded, u

LEMMA OpenedStep == ASSUME IInv, Opened PROVE IInv'
<1> DEFINE n == Event(ZigStarted(Memory, key), "ble_connected")
           w == AllLoaded(n, key)
<1>1. /\ link = "down" /\ link' = "open" /\ Remember(w)
      /\ regenerated' = FALSE /\ misled' = FALSE
      /\ UNCHANGED <<key, flash, wanted, front, asked, vehicle, messages>>
      /\ UNCHANGED disturbances
  BY DEF Opened, Undisturbed
<1>2. /\ key \in Nat \ {NoKey} /\ epoch \in Nat
      /\ Memory \in [session : Sessions, zigKey : Nat, zig : Mirrors, csm : CSM!States]
      /\ \A d \in Domains : Memory.session[d].epoch <= epoch
  BY DEF IInv, TypeOK, Sound, Memories
<1>3. /\ Sound(ZigStarted(Memory, key), key, FALSE, epoch) /\ NotAhead(ZigStarted(Memory, key))
      /\ ZigStarted(Memory, key).session = Memory.session
  BY <1>2, StartedSound
<1>4. Sound(n, key, FALSE, epoch) /\ NotAhead(n)
  <2>1. \A d \in Domains : "ble_connected" # CSM!SuccessEvent(d)
    BY DEF CSM!SuccessEvent
  <2>2. ZigStarted(Memory, key) \in Memories
    BY <1>3 DEF Sound
  <2>3. FALSE \in BOOLEAN
    OBVIOUS
  <2>4. Sound(n, key, FALSE, epoch)
    BY <1>2, <1>3, <2>3, EventSound
  <2> QED
    BY <1>3, <2>1, <2>2, <2>4, EventNotAhead
<1>0. \A d \in Domains : \/ w.session[d].epoch = session[d].epoch
                          \/ w.session[d].epoch = stored[d].epoch
  <2>1. n \in Memories /\ n.session = session
    <3>1. ZigStarted(Memory, key) \in Memories /\ ZigStarted(Memory, key).session = session
      BY <1>3 DEF Sound, Memory
    <3> QED
      BY <3>1, EventParts
  <2> HIDE DEF n
  <2> DEFINE l == Loaded(n, VCSEC, key)
  <2>2. /\ l \in Memories
        /\ \A d \in Domains : \/ l.session[d].epoch = session[d].epoch
                              \/ l.session[d].epoch = stored[d].epoch
    <3>1. key \in Nat /\ VCSEC \in Domains
          /\ \A c \in Domains : stored[c].epoch \in Nat /\ stored[c].counter \in Nat
      BY <1>2, StoredTypes, TwoDomains
    <3>2. /\ Loaded(n, VCSEC, key) \in Memories
          /\ \A d \in Domains : \/ Loaded(n, VCSEC, key).session[d].epoch = n.session[d].epoch
                                \/ Loaded(n, VCSEC, key).session[d].epoch = stored[d].epoch
      BY <2>1, <3>1, LoadedEpochs
    <3> QED
      BY <2>1, <3>2
  <2> HIDE DEF l
  <2>3. \A d \in Domains : \/ Loaded(l, Infotainment, key).session[d].epoch = l.session[d].epoch
                          \/ Loaded(l, Infotainment, key).session[d].epoch = stored[d].epoch
    BY <1>2, <2>2, StoredTypes, LoadedEpochs, TwoDomains
  <2> QED
    BY <2>2, <2>3 DEF AllLoaded, l
<1> HIDE DEF n
<1>5. Sound(w, key, FALSE, epoch) /\ NotAhead(w) /\ w \in Memories
  <2>1. FALSE \in BOOLEAN /\ key \in Nat
    BY <1>2
  <2>2. Sound(w, key, FALSE, epoch) /\ NotAhead(w)
    BY <1>2, <1>4, <2>1, StoredTypes, AllLoadedSound
  <2> QED
    BY <2>2 DEF Sound
<1> HIDE DEF w
<1>6. /\ Memory' = w /\ session' = w.session /\ session' \in Sessions /\ zigKey' \in Nat \ {NoKey} /\ zig' \in Mirrors
      /\ csm' \in CSM!States
  BY <1>1, <1>5, Remembered
<1>7. TypeOK'
  <2>1. regenerated' \in BOOLEAN /\ misled' \in BOOLEAN
    BY <1>1, Zenon
  <2> QED
    BY <1>1, <1>6, <2>1 DEF IInv, TypeOK, Sessions, Mirrors, flash, vehicle, messages
<1>8. Sound(Memory, key, regenerated, epoch)' /\ (misled \/ NotAhead(Memory))'
  <2>1. key' = key /\ epoch' = epoch /\ regenerated' = FALSE /\ misled' = FALSE
    BY <1>1 DEF vehicle
  <2> QED
    BY <1>5, <1>6, <2>1 DEF Sound, Mirroring, NotAhead
<1>9. StoredIsPast' /\ AnswersInOrder'
  BY <1>1 DEF IInv, StoredIsPast, AnswersInOrder, flash, vehicle, messages
<1>10. NothingOlder'
  BY <1>1, <1>0, <1>6 DEF IInv, NothingOlder, flash, vehicle, messages
<1> QED
  BY <1>7, <1>8, <1>9, <1>10 DEF IInv

LEMMA ClosedStep == ASSUME IInv, Closed PROVE IInv'
<1> DEFINE w == Event(Memory, "ble_disconnected")
<1>1. /\ link' = "down" /\ front' = NoCommand /\ asked' = "nothing"
      /\ \E n \in 0..Len(toComponent) : toComponent' = SubSeq(toComponent, 1, n)
      /\ \E n \in 1..(Len(toVehicle) + 1) : toVehicle' = SubSeq(toVehicle, n, Len(toVehicle))
      /\ Remember(w)
      /\ UNCHANGED <<key, flash, regenerated, misled, wanted, vehicle>>
      /\ disturbances' = disturbances + 1 /\ disturbances < MaxDisturbances
  BY DEF Closed, Unlinked, Disturb
<1>2. /\ Memory \in Memories /\ regenerated \in BOOLEAN /\ epoch \in Nat
      /\ \A d \in Domains : "ble_disconnected" # CSM!SuccessEvent(d)
  BY MemoryTypes DEF IInv, TypeOK, CSM!SuccessEvent
<1>3. /\ w \in Memories /\ Sound(w, key, regenerated, epoch) /\ (misled \/ NotAhead(w))
  BY <1>2, EventParts, EventSound, EventNotAhead DEF IInv
<1>0. w.session = session
  BY <1>2, EventParts DEF Memory
<1> HIDE DEF w
<1>4. /\ Memory' = w /\ session' = w.session
      /\ session' \in Sessions /\ zigKey' \in Nat \ {NoKey} /\ zig' \in Mirrors
      /\ csm' \in CSM!States
  BY <1>1, <1>3, Remembered
<1>7. /\ AnswersInOrder' /\ toComponent' \in Seq(Reply)
      /\ (\A i \in 1..Len(toComponent) : toComponent[i].epoch = epoch)
           => \A i \in 1..Len(toComponent') : toComponent'[i].epoch = epoch
  BY <1>1, AnswersKept DEF IInv, vehicle
<1>5. TypeOK'
  <2>1. asked' \in Waiting /\ disturbances' \in 0..MaxDisturbances
    <3>1. asked' \in Waiting
      BY <1>1, Zenon DEF Waiting
    <3> QED
      BY <1>1, <3>1 DEF IInv, TypeOK
  <2>2. toVehicle' \in Seq(Request \cup Command)
    BY <1>1 DEF IInv, TypeOK
  <2> QED
    BY <1>1, <1>4, <1>7, <2>1, <2>2 DEF IInv, TypeOK, Sessions, Mirrors, flash, vehicle
<1>6. Sound(Memory, key, regenerated, epoch)' /\ (misled \/ NotAhead(Memory))'
  BY <1>1, <1>3, <1>4 DEF Sound, Mirroring, NotAhead, vehicle
<1>8. StoredIsPast' /\ NothingOlder'
  BY <1>1, <1>4, <1>7, <1>0 DEF IInv, StoredIsPast, NothingOlder, flash, vehicle
<1> QED
  BY <1>5, <1>6, <1>7, <1>8 DEF IInv

(* A restart has nothing but the flash. *)
LEMMA RestartStep == ASSUME IInv, Restart PROVE IInv'
<1> DEFINE blank == [session |-> [d \in Domains |-> NoSession], zigKey |-> NoKey,
                     zig |-> [d \in Domains |-> NoMirror], csm |-> "disconnected"]
           n == ZigStarted(blank, key')
           w == AllLoaded(n, key')
<1>1. /\ link' = "down" /\ toVehicle' = <<>> /\ toComponent' = <<>>
      /\ front' = NoCommand /\ asked' = "nothing"
      /\ key' = BootKey /\ (storedKey' = storedKey \/ storedKey' = key')
      /\ Remember(w) /\ regenerated' = FALSE /\ misled' = FALSE
      /\ UNCHANGED <<stored, wanted, vehicle>>
      /\ disturbances' = disturbances + 1 /\ disturbances < MaxDisturbances
  BY DEF Restart, Unlinked, Disturb
<1>2. /\ key' \in Nat \ {NoKey} /\ key' \in Nat /\ storedKey' \in Nat /\ epoch \in Nat
  BY <1>1 DEF IInv, TypeOK, BootKey, NewKey, NoKey
<1>3. /\ blank \in [session : Sessions, zigKey : Nat, zig : Mirrors, csm : CSM!States]
      /\ \A d \in Domains : blank.session[d].epoch <= epoch
  <2>1. /\ NoSession \in [epoch : Nat, counter : Nat, key : Nat, valid : BOOLEAN]
        /\ NoMirror \in [epoch : Nat, counter : Nat, key : Nat]
    BY DEF NoSession, NoMirror, NoEpoch, NoKey
  <2>2. /\ [d \in Domains |-> NoSession] \in Sessions
        /\ [d \in Domains |-> NoMirror] \in Mirrors
    BY <2>1 DEF Sessions, Mirrors
  <2>3. NoSession.epoch = 0
    BY DEF NoSession, NoEpoch
  <2> QED
    BY <1>2, <2>2, <2>3 DEF CSM!States, NoKey
<1> HIDE DEF blank
<1>4. Sound(n, key', FALSE, epoch) /\ NotAhead(n)
  BY <1>2, <1>3, StartedSound
<1> HIDE DEF n
<1>5. Sound(w, key', FALSE, epoch) /\ NotAhead(w) /\ w \in Memories
  <2>1. FALSE \in BOOLEAN
    OBVIOUS
  <2>2. Sound(w, key', FALSE, epoch) /\ NotAhead(w)
    BY <1>2, <1>4, <2>1, StoredTypes, AllLoadedSound
  <2> QED
    BY <2>2 DEF Sound
<1> HIDE DEF w
<1>6. /\ Memory' = w /\ session' \in Sessions /\ zigKey' \in Nat \ {NoKey} /\ zig' \in Mirrors
      /\ csm' \in CSM!States
  BY <1>1, <1>5, Remembered
<1>7. TypeOK'
  <2>1. regenerated' \in BOOLEAN /\ misled' \in BOOLEAN /\ asked' \in Waiting
    BY <1>1, Zenon DEF Waiting
  <2>2. disturbances' \in 0..MaxDisturbances
    BY <1>1 DEF IInv, TypeOK
  <2>3. toVehicle' \in Seq(Request \cup Command) /\ toComponent' \in Seq(Reply)
    BY <1>1
  <2> QED
    BY <1>1, <1>2, <1>6, <2>1, <2>2, <2>3 DEF IInv, TypeOK, Sessions, Mirrors, vehicle
<1>8. Sound(Memory, key, regenerated, epoch)' /\ (misled \/ NotAhead(Memory))'
  <2>1. epoch' = epoch /\ regenerated' = FALSE
    BY <1>1 DEF vehicle
  <2> QED
    BY <1>5, <1>6, <2>1 DEF Sound, Mirroring, NotAhead
<1>9. StoredIsPast' /\ AnswersInOrder' /\ NothingOlder'
  BY <1>1 DEF IInv, StoredIsPast, AnswersInOrder, NothingOlder, vehicle
<1> QED
  BY <1>7, <1>8, <1>9 DEF IInv

LEMMA RegenerateStep == ASSUME IInv, regenerateKey PROVE IInv'
<1>1. /\ key' = NewKey /\ (storedKey' = storedKey \/ storedKey' = NewKey)
      /\ regenerated' = TRUE
      /\ UNCHANGED <<link, stored, client, misled, wanted, front, asked, vehicle, messages>>
      /\ disturbances' = disturbances + 1 /\ disturbances < MaxDisturbances
  BY DEF regenerateKey, Disturb
<1>2. TypeOK'
  <2>1. regenerated' \in BOOLEAN
    BY <1>1, Zenon
  <2>2. key' \in Nat \ {NoKey} /\ storedKey' \in Nat /\ disturbances' \in 0..MaxDisturbances
    BY <1>1 DEF IInv, TypeOK, NewKey, NoKey
  <2> QED
    BY <1>1, <2>1, <2>2 DEF IInv, TypeOK, client, vehicle, messages
<1>3. Memory' = Memory /\ UNCHANGED <<misled, epoch, session>>
  BY <1>1 DEF Memory, client, vehicle
<1>4. Sound(Memory, key, regenerated, epoch)' /\ (misled \/ NotAhead(Memory))'
  BY <1>1, <1>3 DEF IInv, Sound, Mirroring, NotAhead
<1>5. StoredIsPast' /\ AnswersInOrder' /\ NothingOlder'
  BY <1>1 DEF IInv, StoredIsPast, AnswersInOrder, NothingOlder,
              client, vehicle, messages
<1> QED
  BY <1>2, <1>4, <1>5 DEF IInv

LEMMA StepIInv == IInv /\ [Next]_vars => IInv'
BY WantStep, StillStep, RequestInfoStep, SendCommandStep, ServeStep, ReceiveStep, OpenedStep,
   ClosedStep, RestartStep, RegenerateStep, RebootStep DEF Next, Talk

LEMMA AlwaysIInv == Spec => []IInv
BY InitIInv, StepIInv, PTL DEF Spec

----------------------------------------------------------------------------
(* Keys, sessions, mirrors and messages are of their types. *)
THEOREM TypesKept == Spec => []TypeOK
<1>1. IInv => TypeOK
  BY DEF IInv
<1> QED
  BY <1>1, AlwaysIInv, PTL

(* The two clients agree on every session both have. *)
THEOREM ClientsAgree == Spec => []MirrorAgrees
<1>1. IInv => MirrorAgrees
  <2>1. Memory.zig = zig /\ Memory.session = session
    BY DEF Memory
  <2> QED
    BY <2>1 DEF IInv, Sound, Mirroring, MirrorAgrees
<1> QED
  BY <1>1, AlwaysIInv, PTL

(* The connection state machine is never ahead of the sessions. *)
THEOREM StateNeverAhead == Spec => []NeverAhead
<1>1. IInv => NeverAhead
  <2>1. Memory.csm = csm /\ Memory.session = session
    BY DEF Memory
  <2> QED
    BY <2>1 DEF IInv, NotAhead, NeverAhead
<1> QED
  BY <1>1, AlwaysIInv, PTL

----------------------------------------------------------------------------
(* A current session stays so while its counter grows past the commands under way. *)

Counts(d, m) == m.kind = "command" /\ m.domain = d /\ m.epoch = epoch

LEMMA CurrentKept ==
  ASSUME IInv, IInv', NEW d \in Domains, Current(d), UNCHANGED <<key, epoch>>,
         session'[d].epoch = epoch, session'[d].key = key, session'[d].valid,
         session'[d].counter >= session[d].counter,
         accepted'[d] <= session'[d].counter,
         \A i \in 1..Len(toVehicle') : Counts(d, toVehicle'[i]) =>
           \/ toVehicle'[i].counter <= session'[d].counter
           \/ \E j \in 1..Len(toVehicle) : toVehicle[j] = toVehicle'[i]
  PROVE  Current(d)'
<1>1. /\ session[d].counter \in Nat /\ session'[d].counter \in Nat /\ accepted'[d] \in Nat
      /\ toVehicle' \in Seq(Request \cup Command)
  BY DEF IInv, TypeOK
<1>2. ASSUME NEW i \in 1..Len(toVehicle'), Counts(d, toVehicle'[i])
      PROVE  toVehicle'[i].counter <= session'[d].counter
  <2>1. CASE \E j \in 1..Len(toVehicle) : toVehicle[j] = toVehicle'[i]
    <3>1. toVehicle'[i].counter <= session[d].counter
      BY <1>2, <2>1 DEF Current, Counts
    <3>2. toVehicle'[i] \in Request \cup Command
      BY <1>1
    <3>3. toVehicle'[i].counter \in Nat
      BY <1>2, <3>2 DEF Counts, Request, Command
    <3> QED
      BY <1>1, <3>1, <3>3
  <2> QED
    BY <1>2, <2>1
<1> QED
  BY <1>1, <1>2 DEF Current, Counts

(* The messages of a queue that lost its first one. *)
LEMMA TailMembers ==
  ASSUME NEW S, NEW q \in Seq(S), q # <<>>
  PROVE  \A i \in 1..Len(Tail(q)) : \E j \in 1..Len(q) : q[j] = Tail(q)[i]
<1>1. ASSUME NEW i \in 1..Len(Tail(q)) PROVE i + 1 \in 1..Len(q) /\ q[i + 1] = Tail(q)[i]
  OBVIOUS
<1> QED
  BY <1>1

LEMMA SendKeepsCurrent ==
  ASSUME IInv, IInv', NEW d \in Domains, Current(d), NEW c \in Domains,
         RequestInfo(c) \/ SendCommand(c)
  PROVE  Current(d)'
<1>1. /\ session \in Sessions /\ session' \in Sessions /\ toVehicle \in Seq(Request \cup Command)
      /\ accepted \in [Domains -> Nat]
  BY DEF IInv, TypeOK, Sessions
<1>2. CASE RequestInfo(c)
  <2>1. /\ Remember(ConnectRequested(Memory, c))
        /\ toVehicle' = Append(toVehicle, [kind |-> "request", domain |-> c])
        /\ key' = key /\ epoch' = epoch /\ accepted' = accepted
    BY <1>2 DEF RequestInfo, vehicle
  <2>2. session' = session
    <3>1. Memory \in Memories
      BY MemoryTypes DEF IInv
    <3>2. ConnectRequested(Memory, c).session = Memory.session
      BY <3>1, EventParts DEF ConnectRequested
    <3> QED
      BY <2>1, <3>2 DEF Remember, Memory
  <2>3. \A i \in 1..Len(toVehicle') :
          \/ toVehicle'[i] = [kind |-> "request", domain |-> c]
          \/ \E j \in 1..Len(toVehicle) : toVehicle[j] = toVehicle'[i]
    BY <1>1, <2>1
  <2>4. \A i \in 1..Len(toVehicle') : Counts(d, toVehicle'[i]) =>
          \E j \in 1..Len(toVehicle) : toVehicle[j] = toVehicle'[i]
    BY <2>3 DEF Counts
  <2>5. session[d].counter \in Nat
    BY <1>1 DEF Sessions
  <2>6. /\ session'[d].epoch = epoch /\ session'[d].key = key /\ session'[d].valid
        /\ session'[d].counter >= session[d].counter
        /\ accepted'[d] <= session'[d].counter
    BY <1>1, <2>1, <2>2, <2>5 DEF Current
  <2> QED
    BY <2>1, <2>4, <2>6, CurrentKept
<1>3. CASE SendCommand(c)
  <2> DEFINE command == [kind |-> "command", domain |-> c, epoch |-> session[c].epoch,
                         counter |-> session[c].counter + 1, secret |-> session[c].key,
                         signer |-> key]
  <2>1. /\ session' = [session EXCEPT ![c].counter = session[c].counter + 1]
        /\ toVehicle' = Append(toVehicle, command)
        /\ key' = key /\ epoch' = epoch /\ accepted' = accepted
    BY <1>3 DEF SendCommand, Counted, vehicle
  <2>2. command.domain = c /\ command.counter = session[c].counter + 1
    OBVIOUS
  <2> HIDE DEF command
  <2>3. /\ session'[d].epoch = session[d].epoch /\ session'[d].key = session[d].key
        /\ session'[d].valid = session[d].valid
        /\ session'[d].counter = IF c = d THEN session[d].counter + 1 ELSE session[d].counter
        /\ session[d].counter \in Nat
    <3> DEFINE counted == [session[c] EXCEPT !.counter = session[c].counter + 1]
    <3>1. session[c] \in [epoch : Nat, counter : Nat, key : Nat, valid : BOOLEAN]
          /\ session[d].counter \in Nat
      BY <1>1 DEF Sessions
    <3>2. /\ counted.epoch = session[c].epoch /\ counted.key = session[c].key
          /\ counted.valid = session[c].valid /\ counted.counter = session[c].counter + 1
      BY <3>1
    <3>3. session' = [session EXCEPT ![c] = counted]
      BY <2>1
    <3> HIDE DEF counted
    <3>4. session'[d] = IF c = d THEN counted ELSE session[d]
      BY <1>1, <3>3 DEF Sessions
    <3> QED
      BY <3>1, <3>2, <3>4
  <2>4. \A i \in 1..Len(toVehicle') :
          \/ toVehicle'[i] = command
          \/ \E j \in 1..Len(toVehicle) : toVehicle[j] = toVehicle'[i]
    BY <1>1, <2>1
  <2>5. \A i \in 1..Len(toVehicle') : Counts(d, toVehicle'[i]) =>
          \/ toVehicle'[i].counter <= session'[d].counter
          \/ \E j \in 1..Len(toVehicle) : toVehicle[j] = toVehicle'[i]
    BY <2>2, <2>3, <2>4 DEF Counts
  <2>6. /\ session'[d].epoch = epoch /\ session'[d].key = key /\ session'[d].valid
        /\ session'[d].counter >= session[d].counter
        /\ accepted'[d] <= session'[d].counter
    BY <1>1, <2>1, <2>3 DEF Current
  <2> QED
    BY <2>1, <2>5, <2>6, CurrentKept
<1> QED
  BY <1>2, <1>3

LEMMA ServeKeepsCurrent ==
  ASSUME IInv, IInv', NEW d \in Domains, Current(d), Serve
  PROVE  Current(d)'
<1> DEFINE m == Head(toVehicle)
<1>1. /\ toVehicle # <<>> /\ toVehicle \in Seq(Request \cup Command)
      /\ toVehicle' = Tail(toVehicle)
      /\ accepted \in [Domains -> Nat] /\ session \in Sessions
      /\ UNCHANGED <<key, session, epoch>>
  BY DEF Serve, Answer, IInv, TypeOK, Sessions, client
<1>2. m = toVehicle[1] /\ 1 \in 1..Len(toVehicle)
  BY <1>1
<1> HIDE DEF m
<1>3. accepted'[d] = accepted[d] \/ (Counts(d, m) /\ accepted'[d] = m.counter)
  <2>1. \/ accepted' = accepted
        \/ /\ m.kind = "command" /\ m.epoch = epoch
           /\ accepted' = [accepted EXCEPT ![m.domain] = m.counter]
    BY DEF Serve, Good, m
  <2> QED
    BY <1>1, <2>1 DEF Counts
<1>4. session[d].counter \in Nat
  BY <1>1 DEF Sessions
<1>5. accepted'[d] <= session'[d].counter
  BY <1>1, <1>2, <1>3, <1>4 DEF Current, Counts
<1>6. \A i \in 1..Len(toVehicle') : \E j \in 1..Len(toVehicle) : toVehicle[j] = toVehicle'[i]
  BY <1>1, TailMembers
<1>7. /\ session'[d].epoch = epoch /\ session'[d].key = key /\ session'[d].valid
      /\ session'[d].counter >= session[d].counter
  BY <1>1, <1>4 DEF Current
<1> QED
  BY <1>1, <1>5, <1>6, <1>7, CurrentKept

LEMMA ReceiveKeepsCurrent ==
  ASSUME IInv, IInv', NEW d \in Domains, Current(d), Receive, ~Overtaken
  PROVE  Current(d)' \/ ~session'[d].valid
<1> DEFINE reply == Head(toComponent)
<1>1. /\ toComponent # <<>> /\ toComponent' = Tail(toComponent)
      /\ toComponent \in Seq(Reply) /\ epoch \in Nat
      /\ session \in Sessions /\ accepted \in [Domains -> Nat]
      /\ Remember(AfterReply(reply))
      /\ UNCHANGED <<key, epoch, accepted, toVehicle>>
  BY DEF Receive, vehicle, IInv, TypeOK, Sessions
<1>2. reply \in Reply /\ reply = toComponent[1] /\ 1 \in 1..Len(toComponent)
  BY <1>1
<1> HIDE DEF reply
<1>3. reply.epoch = epoch /\ ReplyOnly(reply)
  <2>1. reply.epoch = epoch
    BY <1>2 DEF IInv, NothingOlder, Current
  <2> QED
    BY <1>1, <1>2, <2>1, ReplySound
<1>4. session' = AfterReply(reply).session
  BY <1>1 DEF Remember
<1>5. CASE session'[d] = session[d]
  <2>1. session[d].counter \in Nat
    BY <1>1 DEF Sessions
  <2>2. /\ session'[d].epoch = epoch /\ session'[d].key = key /\ session'[d].valid
        /\ session'[d].counter >= session[d].counter
        /\ accepted'[d] <= session'[d].counter
    BY <1>1, <1>5, <2>1 DEF Current
  <2> QED
    BY <1>1, <2>2, CurrentKept
<1>6. CASE /\ reply.status = "ok" /\ reply.domain = d
           /\ session'[d].epoch = reply.epoch /\ session'[d].counter = reply.counter
           /\ session'[d].key = key /\ session'[d].valid
  <2>1. session[d].counter \in Nat /\ reply.counter \in Nat /\ accepted[d] \in Nat
    BY <1>1, <1>2 DEF Sessions, Reply
  <2>2. session[d].counter <= reply.counter
    BY <1>1, <1>6, <2>1 DEF Overtaken, reply
  <2>3. accepted'[d] <= session'[d].counter /\ session'[d].counter >= session[d].counter
    BY <1>1, <1>6, <2>1, <2>2 DEF Current
  <2> QED
    BY <1>1, <1>3, <1>6, <2>3, CurrentKept
<1>7. \/ session'[d] = session[d]
      \/ ~session'[d].valid
      \/ /\ reply.status = "ok" /\ reply.domain = d
         /\ session'[d].epoch = reply.epoch /\ session'[d].counter = reply.counter
         /\ session'[d].key = key /\ session'[d].valid
  BY <1>3, <1>4 DEF ReplyOnly
<1> QED
  BY <1>5, <1>6, <1>7

LEMMA OthersKeepCurrent ==
  ASSUME IInv, IInv', NEW d \in Domains, Current(d),
         UNCHANGED <<client, key, epoch, accepted, toVehicle>>
  PROVE  Current(d)'
BY DEF Current, client

(* While the link holds, a session the vehicle accepts stays one until it is          *)
(* invalidated or overwritten by an older answer.                               *)
THEOREM SessionsStayCurrent == Spec => StaysCurrent
<1>1. ASSUME IInv, IInv', [Next]_vars, NEW d \in Domains, Current(d), link = "open",
             link' = "open", UNCHANGED <<key, epoch>>, ~Overtaken
      PROVE  Current(d)' \/ ~session'[d].valid
  <2>1. CASE \E c \in Domains : RequestInfo(c) \/ SendCommand(c)
    BY <1>1, <2>1, SendKeepsCurrent
  <2>2. CASE Serve
    BY <1>1, <2>2, ServeKeepsCurrent
  <2>3. CASE Receive
    BY <1>1, <2>3, ReceiveKeepsCurrent
  <2>4. CASE (\E c \in Domains : Want(c)) \/ TimeOut \/ startPair \/ UNCHANGED vars
    <3>1. UNCHANGED <<client, key, epoch, accepted, toVehicle>>
      BY <2>4 DEF Want, TimeOut, startPair, vars, client, vehicle, messages
    <3> QED
      BY <1>1, <3>1, OthersKeepCurrent
  <2>5. CASE Opened \/ Closed \/ Restart
    BY <1>1, <2>5 DEF Opened, Closed, Restart, Unlinked
  <2>6. CASE regenerateKey
    <3>1. key \in Nat /\ storedKey \in Nat /\ key' = NewKey
      BY <1>1, <2>6 DEF regenerateKey, IInv, TypeOK
    <3>2. key' # key
      BY <3>1 DEF NewKey
    <3> QED
      BY <1>1, <3>2
  <2>7. CASE Reboot
    <3>1. epoch' # epoch
      BY <1>1, <2>7 DEF Reboot, IInv, TypeOK
    <3> QED
      BY <1>1, <3>1
  <2> QED
    BY <1>1, <2>1, <2>2, <2>3, <2>4, <2>5, <2>6, <2>7 DEF Next, Talk
<1>2. IInv /\ IInv' /\ [Next]_vars =>
        [\A d \in Domains :
           Current(d) /\ link = "open" /\ link' = "open" /\ UNCHANGED <<key, epoch>> /\ ~Overtaken =>
             Current(d)' \/ ~session'[d].valid]_vars
  BY <1>1
<1> QED
  BY <1>2, AlwaysIInv, PTL DEF Spec, StaysCurrent
============================================================================
