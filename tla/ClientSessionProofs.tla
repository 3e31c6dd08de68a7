------------------------- MODULE ClientSessionProofs -------------------------
(***************************************************************************)
(* One session of the Zig client, for every number of counters, commands,  *)
(* epochs and slots of the replay check.                                   *)
(***************************************************************************)
EXTENDS ClientSession, SeenCounterCacheProofs

(* A valid session has completed a key exchange in some epoch. *)
ValidIsShared == session.valid => session.secret = Shared /\ session.epoch # NoEpoch

(* The counter k commands before the one with counter c. *)
Before(c, k) == IF k <= c THEN c - k ELSE c + CounterLimit - k

(* Since the session was last moved its epoch never went back, and in its present *)
(* epoch the counters of the commands count up to its own, build by build.         *)
CountedUp ==
  \A n \in (since + 1)..Len(commands) :
    /\ commands[n].epoch <= session.epoch
    /\ commands[n].build <= builds
    /\ (commands[n].epoch = session.epoch /\ builds - commands[n].build < CounterLimit)
         => commands[n].counter = Before(session.counter, builds - commands[n].build)

(* What steady says of session and last_request_hash. *)
SteadyIsAsSigned ==
  steady => /\ Len(commands) > 0 /\ session.valid /\ request = Len(commands)
            /\ commands[Len(commands)].epoch = session.epoch
            /\ commands[Len(commands)].counter = session.counter
            /\ commands[Len(commands)].secret = session.secret

(* The replay check remembers nothing it was not given. *)
RememberedWasChecked == \A i \in 0..(count - 1) : slots[Back(i)] \in checked

IInv ==
  /\ TypeOK /\ ClientTypeOK /\ ValidIsShared /\ SignedWithSecret
  /\ CountedUp /\ CountersOnce /\ SteadyIsAsSigned /\ RememberedWasChecked

USE LimitAssumption, SessionBounds

----------------------------------------------------------------------------
LEMMA AfterIncrementValue ==
  ASSUME NEW c \in Counters
  PROVE  /\ AfterIncrement(c) = IF c + 1 < CounterLimit THEN c + 1 ELSE 0
         /\ AfterIncrement(c) \in Counters
<1>1. c \in Nat /\ c < CounterLimit /\ CounterLimit \in Nat
  BY DEF Counters
<1>2. (c + 1) % CounterLimit = IF c + 1 < CounterLimit THEN c + 1 ELSE 0
  BY <1>1, SMT
<1> QED
  BY <1>1, <1>2 DEF AfterIncrement, Counters

(* Signing a command takes every earlier one a step further back, and only a whole *)
(* round back is the counter the same.                                            *)
LEMMA OneFurtherBack ==
  ASSUME NEW c \in Counters, NEW k \in Nat, k + 1 < CounterLimit
  PROVE  /\ Before(AfterIncrement(c), k + 1) = Before(c, k)
         /\ Before(c, k) # AfterIncrement(c)
<1>1. c \in Nat /\ c < CounterLimit /\ CounterLimit \in Nat
  BY DEF Counters
<1> QED
  BY <1>1, AfterIncrementValue DEF Before

(* Records and their fields. *)
LEMMA CommandFields ==
  ASSUME NEW c \in Commands
  PROVE  c.epoch \in 1..MaxEpoch /\ c.counter \in Counters /\ c.secret \in Secrets /\ c.build \in 1..MaxBuilds
BY DEF Commands

LEMMA VehicleFields ==
  ASSUME NEW v \in VehicleStates
  PROVE  v.epoch \in 1..MaxEpoch /\ v.counter \in Counters
BY DEF VehicleStates

LEMMA AnswerFields ==
  ASSUME ClientTypeOK, NEW a \in answers
  PROVE  a.pair \in Responses /\ a.to \in 1..Len(commands)
BY DEF ClientTypeOK, Answers

LEMMA SessionFields ==
  ASSUME ClientTypeOK
  PROVE  /\ session \in Sessions
         /\ session.epoch \in 0..MaxEpoch /\ session.counter \in Counters /\ session.secret \in Secrets
BY DEF ClientTypeOK, Sessions

LEMMA CommandTypes ==
  ASSUME ClientTypeOK
  PROVE  /\ commands \in Seq(Commands) /\ Len(commands) \in Nat /\ builds \in 0..MaxBuilds
         /\ since \in 0..Len(commands)
         /\ \A n \in 1..Len(commands) : commands[n] \in Commands
BY DEF ClientTypeOK

(* What a session info stores, and what signing a command does. *)
LEMMA StartedFields ==
  ASSUME ClientTypeOK, NEW i \in VehicleStates
  PROVE  /\ Started(i) \in Sessions
         /\ Started(i).epoch = i.epoch /\ Started(i).counter = i.counter
         /\ Started(i).secret = session.secret /\ Started(i).valid = session.valid
<1>1. session \in Sessions /\ i.epoch \in 0..MaxEpoch /\ i.counter \in Counters
  BY SessionFields, VehicleFields
<1> QED
  BY <1>1 DEF Started, Sessions

LEMMA CompletedFields ==
  ASSUME ClientTypeOK, NEW i \in VehicleStates
  PROVE  /\ Completed(i) \in Sessions
         /\ Completed(i).epoch = i.epoch /\ Completed(i).counter = i.counter
         /\ Completed(i).secret = Shared /\ Completed(i).valid
<1>1. Started(i) \in Sessions /\ Started(i).epoch = i.epoch /\ Started(i).counter = i.counter
  BY StartedFields
<1> QED
  BY <1>1 DEF Completed, Sessions, Secrets

LEMMA CountedFields ==
  ASSUME ClientTypeOK, Count
  PROVE  /\ session' \in Sessions
         /\ session'.epoch = session.epoch /\ session'.counter = AfterIncrement(session.counter)
         /\ session'.secret = session.secret /\ session'.valid = session.valid
<1>1. session \in Sessions /\ AfterIncrement(session.counter) \in Counters
  BY SessionFields, AfterIncrementValue
<1>2. session' = [session EXCEPT !.counter = AfterIncrement(session.counter)]
  BY DEF Count
<1> QED
  BY <1>1, <1>2 DEF Sessions

(* Answers stay answers while no command is taken away. *)
LEMMA AnswersUntouched ==
  ASSUME ClientTypeOK, UNCHANGED <<commands, answers>>
  PROVE  (answers \subseteq Answers)'
BY DEF ClientTypeOK, Answers

LEMMA TypesUntouched ==
  ASSUME ClientTypeOK, UNCHANGED <<clientVars, carVars, checked, outcome>>
  PROVE  ClientTypeOK'
BY DEF ClientTypeOK, Answers, clientVars, carVars

LEMMA AppendFacts ==
  ASSUME NEW S, NEW s \in Seq(S), NEW e \in S
  PROVE  /\ Append(s, e) \in Seq(S) /\ Len(Append(s, e)) = Len(s) + 1
         /\ \A i \in 1..Len(s) : Append(s, e)[i] = s[i]
         /\ Append(s, e)[Len(s) + 1] = e
         /\ Len(s) \in Nat
OBVIOUS

----------------------------------------------------------------------------
LEMMA InitOK == ClientInit => IInv
<1> SUFFICES ASSUME ClientInit PROVE IInv
  OBVIOUS
<1>1. TypeOK
  BY TypeInit DEF ClientInit
<1>2. commands = <<>> /\ Len(commands) = 0
  BY DEF ClientInit
<1>3. ClientTypeOK
  <2>1. 0 \in Counters
    BY DEF Counters
  <2>2. session \in Sessions
    BY <2>1 DEF ClientInit, NoEpoch, Sessions, Secrets
  <2>3. car \in VehicleStates /\ infos \subseteq VehicleStates
    BY DEF ClientInit, VehicleStates
  <2>4. commands \in Seq(Commands)
    BY <1>2
  <2>5. answers \subseteq Answers /\ checked \subseteq Responses /\ steady \in BOOLEAN
    BY DEF ClientInit
  <2>6. outcome \in Outcomes
    BY DEF ClientInit, Outcomes
  <2>7. request \in 0..Len(commands) /\ since \in 0..Len(commands) /\ builds \in 0..MaxBuilds
    BY <1>2 DEF ClientInit, Nothing
  <2> QED
    BY <2>2, <2>3, <2>4, <2>5, <2>6, <2>7 DEF ClientTypeOK
<1>4. ValidIsShared /\ SteadyIsAsSigned
  BY DEF ClientInit, ValidIsShared, SteadyIsAsSigned
<1>5. SignedWithSecret /\ CountedUp /\ CountersOnce
  BY <1>2 DEF ClientInit, SignedWithSecret, CountedUp, CountersOnce
<1>6. RememberedWasChecked
  BY DEF ClientInit, Init, RememberedWasChecked
<1> QED
  BY <1>1, <1>3, <1>4, <1>5, <1>6 DEF IInv

(* The replay check is left alone. *)
LEMMA CacheUntouched ==
  ASSUME TypeOK, RememberedWasChecked, UNCHANGED <<cacheVars, checked>>
  PROVE  TypeOK' /\ RememberedWasChecked'
BY DEF TypeOK, RememberedWasChecked, cacheVars, vars, Back

(* The client is left alone. *)
LEMMA ClientUntouched ==
  ASSUME ValidIsShared, SignedWithSecret, CountedUp, CountersOnce, SteadyIsAsSigned, UNCHANGED clientVars
  PROVE  (ValidIsShared /\ SignedWithSecret /\ CountedUp /\ CountersOnce /\ SteadyIsAsSigned)'
BY DEF clientVars, ValidIsShared, SignedWithSecret, CountedUp, CountersOnce, SteadyIsAsSigned

LEMMA SessionInfoStep ==
  ASSUME IInv, NEW i \in infos, handleSessionInfoResponse(i)
  PROVE  IInv'
<1> USE DEF handleSessionInfoResponse
<1>1. TypeOK /\ ClientTypeOK /\ ValidIsShared /\ SignedWithSecret /\ CountedUp /\ CountersOnce
      /\ SteadyIsAsSigned /\ RememberedWasChecked
  BY DEF IInv
<1>2. i \in VehicleStates /\ i.epoch \in 1..MaxEpoch /\ i.counter \in Counters
  BY <1>1, VehicleFields DEF ClientTypeOK
<1>3. /\ session \in Sessions
      /\ session.epoch \in 0..MaxEpoch /\ session.secret \in Secrets
  BY <1>1, SessionFields
<1>4. /\ session' \in Sessions
      /\ session'.epoch = i.epoch /\ session'.counter = i.counter
      /\ session'.valid => session'.secret = Shared
      /\ session.valid => session'.valid /\ session'.secret = session.secret
  <2>1. CASE session' = Started(i)
    <3>1. /\ session' \in Sessions /\ session'.epoch = i.epoch /\ session'.counter = i.counter
          /\ session'.secret = session.secret /\ session'.valid = session.valid
      BY <1>1, <1>2, <2>1, StartedFields
    <3> QED
      BY <1>1, <3>1 DEF ValidIsShared
  <2>2. CASE session' = Completed(i)
    <3>1. /\ session' \in Sessions /\ session'.epoch = i.epoch /\ session'.counter = i.counter
          /\ session'.secret = Shared /\ session'.valid
      BY <1>1, <1>2, <2>2, CompletedFields
    <3> QED
      BY <1>1, <3>1 DEF ValidIsShared
  <2> QED
    BY <2>1, <2>2
<1>5. TypeOK' /\ RememberedWasChecked'
  BY <1>1, CacheUntouched
<1>6. /\ Len(commands) \in Nat /\ since \in 0..Len(commands)
      /\ \A n \in 1..Len(commands) : commands[n] \in Commands
  BY <1>1, CommandTypes
<1>7. ClientTypeOK'
  <2>1. (answers \subseteq Answers)'
    BY <1>1, AnswersUntouched DEF carVars
  <2>2. since' \in 0..Len(commands') /\ steady' \in BOOLEAN
    BY <1>6
  <2> QED
    BY <1>1, <1>4, <2>1, <2>2 DEF ClientTypeOK, carVars
<1>8. ValidIsShared'
  BY <1>2, <1>4 DEF ValidIsShared, NoEpoch
<1>9. SignedWithSecret'
  BY <1>1 DEF SignedWithSecret
<1>10. CountersOnce'
  BY <1>1, <1>6 DEF CountersOnce
<1>11. SteadyIsAsSigned'
  BY <1>1, <1>3, <1>4 DEF SteadyIsAsSigned
<1>12. CountedUp'
  <2>1. CASE Moves(i)
    BY <1>6, <2>1 DEF CountedUp
  <2>2. CASE ~Moves(i)
    <3>1. since' = since /\ commands' = commands
      BY <2>2
    <3>2. session.epoch < i.epoch \/ (session.epoch = i.epoch /\ session.counter = i.counter)
      BY <1>2, <1>3, <2>2 DEF Moves
    <3>3. \A n \in (since + 1)..Len(commands) : commands[n].epoch \in 1..MaxEpoch
      BY <1>6, CommandFields
    <3> QED
      BY <1>1, <1>2, <1>3, <1>4, <3>1, <3>2, <3>3 DEF CountedUp
  <2> QED
    BY <2>1, <2>2
<1> QED
  BY <1>5, <1>7, <1>8, <1>9, <1>10, <1>11, <1>12 DEF IInv

(* Counting takes every command one build further back. *)
LEMMA CountKeepsOrder ==
  ASSUME IInv, Count, NEW n \in (since + 1)..Len(commands)
  PROVE  /\ n \in 1..Len(commands)
         /\ commands[n].epoch <= session'.epoch /\ commands[n].build < builds'
         /\ (commands[n].epoch = session.epoch /\ builds' - commands[n].build < CounterLimit)
              => /\ commands[n].counter = Before(session'.counter, builds' - commands[n].build)
                 /\ commands[n].counter # session'.counter
<1>1. ClientTypeOK /\ CountedUp
  BY DEF IInv
<1>2. /\ session'.epoch = session.epoch /\ session'.counter = AfterIncrement(session.counter)
      /\ builds' = builds + 1 /\ builds \in Nat /\ session.counter \in Counters
  BY <1>1, CountedFields, CommandTypes, SessionFields DEF Count
<1>3. n \in 1..Len(commands) /\ commands[n] \in Commands /\ commands[n].build \in Nat
  BY <1>1, CommandTypes, CommandFields
<1> DEFINE k == builds - commands[n].build
<1>4. k \in Nat /\ commands[n].build <= builds /\ builds' - commands[n].build = k + 1
  BY <1>1, <1>2, <1>3 DEF CountedUp
<1>5. commands[n].epoch <= session.epoch
  BY <1>1 DEF CountedUp
<1>6. (commands[n].epoch = session.epoch /\ k < CounterLimit) => commands[n].counter = Before(session.counter, k)
  BY <1>1 DEF CountedUp
<1>7. (k + 1 < CounterLimit) => /\ k < CounterLimit
                                /\ Before(AfterIncrement(session.counter), k + 1) = Before(session.counter, k)
                                /\ Before(session.counter, k) # AfterIncrement(session.counter)
  BY <1>2, <1>4, OneFurtherBack
<1> HIDE DEF k
<1> QED
  BY <1>2, <1>3, <1>4, <1>5, <1>6, <1>7

LEMMA CountTypes ==
  ASSUME ClientTypeOK, Count
  PROVE  /\ session' \in Sessions /\ builds' \in 0..MaxBuilds
         /\ car' \in VehicleStates /\ infos' \subseteq VehicleStates /\ answers' = answers
         /\ checked' \subseteq Responses /\ outcome' \in Outcomes /\ since' = since
<1>1. builds \in Nat /\ builds' = builds + 1 /\ builds < MaxBuilds
  BY CommandTypes DEF Count
<1>2. builds' \in 0..MaxBuilds
  BY <1>1
<1>3. /\ car' \in VehicleStates /\ infos' \subseteq VehicleStates /\ answers' = answers
      /\ checked' \subseteq Responses /\ outcome' \in Outcomes /\ since' = since
  BY DEF ClientTypeOK, Count, carVars
<1> QED
  BY <1>2, <1>3, CountedFields

LEMMA BuildStep ==
  ASSUME IInv, Build
  PROVE  IInv'
<1>1. TypeOK /\ ClientTypeOK /\ ValidIsShared /\ SignedWithSecret /\ CountedUp /\ CountersOnce
      /\ RememberedWasChecked /\ Count
  BY DEF IInv, Build
<1> DEFINE L == Len(commands)
           c == [epoch |-> session.epoch, counter |-> session'.counter, secret |-> session.secret,
                 build |-> builds']
<1>2. /\ session.epoch \in 1..MaxEpoch /\ session.counter \in Counters /\ session.secret = Shared
      /\ L \in Nat /\ since \in 0..L /\ commands \in Seq(Commands)
      /\ builds \in Nat /\ builds' = builds + 1 /\ builds' \in 1..MaxBuilds /\ since' = since
  <2>1. session \in Sessions /\ session.epoch \in 0..MaxEpoch /\ session.counter \in Counters
    BY <1>1, SessionFields
  <2>2. session.secret = Shared /\ session.epoch # 0
    BY <1>1 DEF ValidIsShared, NoEpoch, Count
  <2>3. builds \in Nat /\ builds' = builds + 1 /\ builds < MaxBuilds /\ since' = since
    BY <1>1, CommandTypes DEF Count
  <2> QED
    BY <1>1, <2>1, <2>2, <2>3, CommandTypes
<1>3. /\ session' \in Sessions /\ session'.counter \in Counters
      /\ session'.epoch = session.epoch /\ session'.counter = AfterIncrement(session.counter)
      /\ session'.secret = session.secret /\ session'.valid = session.valid
  BY <1>1, <1>2, CountedFields, AfterIncrementValue
<1>4. c \in Commands
  BY <1>2, <1>3 DEF Commands, Secrets
<1>5. /\ commands' \in Seq(Commands) /\ Len(commands') = L + 1
      /\ \A n \in 1..L : commands'[n] = commands[n]
      /\ commands'[L + 1] = c
  <2>1. commands' = Append(commands, c)
    BY DEF Build
  <2> HIDE DEF c
  <2> QED
    BY <1>2, <1>4, <2>1, AppendFacts
<1>6. c.epoch = session.epoch /\ c.counter = session'.counter /\ c.secret = Shared /\ c.build = builds'
  BY <1>2, <1>3
<1>7. request' = L + 1 /\ steady' = TRUE /\ UNCHANGED <<cacheVars, checked>>
  BY <1>5 DEF Build, Count, HashOf
<1> HIDE DEF c
<1>8. TypeOK' /\ RememberedWasChecked'
  BY <1>1, <1>7, CacheUntouched
<1>9. ClientTypeOK'
  <2>1. (answers \subseteq Answers)'
    <3>1. answers' = answers /\ \A k \in 1..L : k \in 1..Len(commands')
      BY <1>1, <1>2, <1>5, CountTypes
    <3> QED
      BY <1>1, <3>1 DEF ClientTypeOK, Answers
  <2>2. request' \in 0..Len(commands') /\ since' \in 0..Len(commands')
    BY <1>2, <1>5, <1>7
  <2>3. steady' \in BOOLEAN
    BY <1>7
  <2> QED
    BY <1>1, <1>5, <2>1, <2>2, <2>3, CountTypes DEF ClientTypeOK
<1>10. ValidIsShared' /\ SignedWithSecret'
  <2>1. \A n \in 1..(L + 1) : n \in 1..L \/ n = L + 1
    BY <1>2
  <2> QED
    BY <1>1, <1>2, <1>3, <1>5, <1>6, <2>1 DEF ValidIsShared, SignedWithSecret
<1>11. SteadyIsAsSigned'
  BY <1>1, <1>2, <1>3, <1>5, <1>6, <1>7 DEF SteadyIsAsSigned, Count
<1>12. \A n \in (since + 1)..(L + 1) : n \in (since + 1)..L \/ n = L + 1
  BY <1>2
<1>13. CountedUp'
  <2>1. ASSUME NEW n \in (since + 1)..(L + 1)
        PROVE  /\ commands'[n].epoch <= session'.epoch
               /\ commands'[n].build <= builds'
               /\ (commands'[n].epoch = session'.epoch /\ builds' - commands'[n].build < CounterLimit)
                    => commands'[n].counter = Before(session'.counter, builds' - commands'[n].build)
    <3>1. CASE n = L + 1
      BY <1>2, <1>3, <1>5, <1>6, <3>1 DEF Before, Counters
    <3>2. CASE n \in (since + 1)..L
      <4>1. n \in 1..L /\ commands'[n] = commands[n] /\ commands[n].build \in Nat
        BY <1>1, <1>2, <1>5, <3>2, CommandTypes, CommandFields
      <4> QED
        BY <1>1, <1>2, <1>3, <3>2, <4>1, CountKeepsOrder
    <3> QED
      BY <1>12, <3>1, <3>2
  <2>2. Len(commands') = L + 1 /\ since' = since
    BY <1>2, <1>5
  <2> HIDE DEF L
  <2>3. CountedUp' <=>
          \A n \in (since' + 1)..Len(commands') :
            /\ commands'[n].epoch <= session'.epoch
            /\ commands'[n].build <= builds'
            /\ (commands'[n].epoch = session'.epoch /\ builds' - commands'[n].build < CounterLimit)
                 => commands'[n].counter = Before(session'.counter, builds' - commands'[n].build)
    BY DEF CountedUp
  <2> QED
    BY <2>1, <2>2, <2>3
<1>14. CountersOnce'
  <2> SUFFICES ASSUME NEW m \in (since + 1)..(L + 1), NEW n \in (since + 1)..(L + 1),
                      m < n, commands'[m].epoch = commands'[n].epoch,
                      commands'[n].build - commands'[m].build < CounterLimit
               PROVE  commands'[m].counter # commands'[n].counter
    BY <1>2, <1>5 DEF CountersOnce
  <2>1. m \in (since + 1)..L /\ m \in 1..L /\ commands'[m] = commands[m]
    BY <1>2, <1>5, <1>12
  <2>2. CASE n \in (since + 1)..L
    <3>1. commands'[n] = commands[n]
      BY <1>2, <1>5, <2>2
    <3> QED
      BY <1>1, <2>1, <2>2, <3>1 DEF CountersOnce
  <2>3. CASE n = L + 1
    BY <1>1, <1>5, <1>6, <2>1, <2>3, CountKeepsOrder
  <2> QED
    BY <1>12, <2>2, <2>3
<1> QED
  BY <1>8, <1>9, <1>10, <1>11, <1>13, <1>14 DEF IInv

LEMMA FailedBuildStep ==
  ASSUME IInv, BuildFails
  PROVE  IInv'
<1>1. TypeOK /\ ClientTypeOK /\ ValidIsShared /\ SignedWithSecret /\ CountersOnce
      /\ RememberedWasChecked /\ Count /\ commands' = commands
  BY DEF IInv, BuildFails
<1>2. TypeOK' /\ RememberedWasChecked'
  BY <1>1, CacheUntouched DEF Count
<1>3. /\ session'.epoch = session.epoch /\ session'.secret = session.secret
      /\ session'.valid = session.valid /\ since' = since
  BY <1>1, CountedFields, CountTypes
<1>4. ClientTypeOK'
  <2>1. (answers \subseteq Answers)'
    BY <1>1, AnswersUntouched, CountTypes
  <2>2. request' \in 0..Len(commands') /\ since' \in 0..Len(commands') /\ commands' \in Seq(Commands)
    BY <1>1, <1>3 DEF ClientTypeOK, BuildFails
  <2>3. steady' \in BOOLEAN
    BY DEF BuildFails
  <2> QED
    BY <1>1, <2>1, <2>2, <2>3, CountTypes DEF ClientTypeOK
<1>5. ValidIsShared'
  BY <1>1, <1>3 DEF ValidIsShared
<1>6. SignedWithSecret' /\ CountersOnce'
  BY <1>1, <1>3 DEF SignedWithSecret, CountersOnce
<1>7. SteadyIsAsSigned'
  BY DEF BuildFails, SteadyIsAsSigned
<1>8. CountedUp'
  <2>1. ASSUME NEW n \in (since + 1)..Len(commands)
        PROVE  commands[n].build <= builds'
    <3>1. commands[n].build < builds' /\ n \in 1..Len(commands)
      BY <1>1, CountKeepsOrder
    <3>2. commands[n].build \in Nat /\ builds' \in Nat
      BY <1>1, <3>1, CommandTypes, CommandFields, CountTypes
    <3> QED
      BY <3>1, <3>2
  <2>2. CountedUp' <=>
          \A n \in (since' + 1)..Len(commands') :
            /\ commands'[n].epoch <= session'.epoch
            /\ commands'[n].build <= builds'
            /\ (commands'[n].epoch = session'.epoch /\ builds' - commands'[n].build < CounterLimit)
                 => commands'[n].counter = Before(session'.counter, builds' - commands'[n].build)
    BY DEF CountedUp
  <2> QED
    BY <1>1, <1>3, <2>1, <2>2, CountKeepsOrder
<1> QED
  BY <1>2, <1>4, <1>5, <1>6, <1>7, <1>8 DEF IInv

LEMMA OtherDomainStep ==
  ASSUME IInv, BuildForOtherDomain
  PROVE  IInv'
<1> USE DEF BuildForOtherDomain
<1>1. TypeOK /\ ClientTypeOK /\ RememberedWasChecked
  BY DEF IInv
<1>2. TypeOK' /\ RememberedWasChecked'
  BY <1>1, CacheUntouched
<1>3. ClientTypeOK'
  <2>1. (answers \subseteq Answers)'
    BY <1>1, AnswersUntouched DEF carVars
  <2>2. request' \in 0..Len(commands')
    <3>1. Len(commands) \in Nat /\ Len(commands') = Len(commands) /\ request' = 0
      BY <1>1, CommandTypes DEF Nothing
    <3> QED
      BY <3>1
  <2>3. steady' \in BOOLEAN
    OBVIOUS
  <2> QED
    BY <1>1, <2>1, <2>2, <2>3 DEF ClientTypeOK, carVars
<1>4. (ValidIsShared /\ SignedWithSecret /\ CountedUp /\ CountersOnce /\ SteadyIsAsSigned)'
  BY DEF IInv, ValidIsShared, SignedWithSecret, CountedUp, CountersOnce, SteadyIsAsSigned
<1> QED
  BY <1>2, <1>3, <1>4 DEF IInv

(* A pair that the check has not seen is accepted and remembered. *)
LEMMA CheckStep ==
  ASSUME TypeOK, RememberedWasChecked, NEW r \in Responses, validateAndAdd(r),
         checked' = checked \cup {r}
  PROVE  /\ TypeOK' /\ RememberedWasChecked'
         /\ r \notin checked => returned'
<1>1. TypeOK'
  BY TypeStep DEF Next
<1>2. CASE Add(r)
  <2> SUFFICES ASSUME NEW i \in 0..(count' - 1) PROVE slots'[Back(i)'] \in checked'
    BY <1>1, <1>2 DEF RememberedWasChecked, Add
  <2>1. slots'[Back(i)'] = IF i = 0 THEN r ELSE slots[Back(i - 1)]
    BY <1>2, AddContents
  <2>2. i # 0 => i - 1 \in 0..(count - 1)
    BY <1>2 DEF Add, Grown, TypeOK
  <2> QED
    BY <2>1, <2>2 DEF RememberedWasChecked
<1>3. CASE Refuse(r)
  <2>1. RememberedWasChecked'
    BY <1>3 DEF Refuse, RememberedWasChecked, Back
  <2>2. r \in checked
    BY <1>3 DEF Refuse, Seen, RememberedWasChecked
  <2> QED
    BY <1>1, <2>1, <2>2
<1> QED
  BY <1>1, <1>2, <1>3 DEF validateAndAdd, Add

LEMMA DecryptStep ==
  ASSUME IInv, NEW a \in answers, decryptResponse(a)
  PROVE  IInv'
<1> USE DEF decryptResponse
<1>1. TypeOK /\ ClientTypeOK /\ RememberedWasChecked
  BY DEF IInv
<1>2. a.pair \in Responses
  BY <1>1, AnswerFields
<1>3. TypeOK' /\ RememberedWasChecked'
  BY <1>1, <1>2, CheckStep
<1>4. outcome' \in Outcomes
  BY DEF Outcomes
<1>5. ClientTypeOK'
  <2>1. (answers \subseteq Answers)'
    BY <1>1, AnswersUntouched DEF clientVars, carVars
  <2> QED
    BY <1>1, <1>2, <1>4, <2>1 DEF ClientTypeOK, clientVars, carVars
<1>6. (ValidIsShared /\ SignedWithSecret /\ CountedUp /\ CountersOnce /\ SteadyIsAsSigned)'
  BY ClientUntouched DEF IInv
<1> QED
  BY <1>3, <1>5, <1>6 DEF IInv

LEMMA VehicleStep ==
  ASSUME IInv, (\E n \in 1..Len(commands) : Execute(n)) \/ Restart
  PROVE  IInv'
<1>1. TypeOK /\ ClientTypeOK /\ RememberedWasChecked
  BY DEF IInv
<1>2. UNCHANGED <<cacheVars, clientVars, checked, outcome>>
  BY DEF Execute, Restart
<1>3. TypeOK' /\ RememberedWasChecked'
  BY <1>1, <1>2, CacheUntouched
<1>4. (ValidIsShared /\ SignedWithSecret /\ CountedUp /\ CountersOnce /\ SteadyIsAsSigned)'
  BY <1>2, ClientUntouched DEF IInv
<1>5. /\ car' \in VehicleStates /\ infos' = infos \cup {car'}
      /\ answers' \subseteq Answers'
  <2>1. ASSUME NEW n \in 1..Len(commands), Execute(n) 
               PROVE  /\ car' \in VehicleStates /\ infos' = infos \cup {car'}
                      /\ answers' \subseteq Answers'
    <3>1. commands[n].counter \in Counters
      BY <1>1, CommandTypes, CommandFields
    <3>2. car \in VehicleStates
      BY <1>1 DEF ClientTypeOK
    <3>3. car' \in VehicleStates
      BY <2>1, <3>1, <3>2 DEF Execute, VehicleStates
    <3>4. commands' = commands /\ \E p \in Responses : answers' = answers \cup {[to |-> n, pair |-> p]}
      BY <2>1 DEF Execute, Unused, clientVars
    <3>5. (answers \subseteq Answers)'
      BY <1>1, <3>4 DEF ClientTypeOK, Answers
    <3> QED
      BY <2>1, <3>3, <3>5 DEF Execute
  <2>2. CASE Restart
    <3>1. car \in VehicleStates
      BY <1>1 DEF ClientTypeOK
    <3>2. car' \in VehicleStates
      BY <2>2, <3>1, VehicleFields DEF Restart, VehicleStates
    <3>3. (answers \subseteq Answers)'
      BY <1>1, <2>2, AnswersUntouched DEF Restart, clientVars
    <3> QED
      BY <2>2, <3>2, <3>3 DEF Restart
  <2> QED
    BY <2>1, <2>2
<1>6. ClientTypeOK'
  BY <1>1, <1>2, <1>5 DEF ClientTypeOK, clientVars
<1> QED
  BY <1>3, <1>4, <1>6 DEF IInv

LEMMA Untouched == IInv /\ UNCHANGED sessionVars => IInv'
<1> SUFFICES ASSUME IInv, UNCHANGED sessionVars PROVE IInv'
  OBVIOUS
<1>1. TypeOK' /\ RememberedWasChecked'
  BY CacheUntouched DEF IInv, sessionVars
<1>2. (ValidIsShared /\ SignedWithSecret /\ CountedUp /\ CountersOnce /\ SteadyIsAsSigned)'
  BY ClientUntouched DEF IInv, sessionVars
<1>3. ClientTypeOK'
  BY TypesUntouched DEF IInv, sessionVars
<1> QED
  BY <1>1, <1>2, <1>3 DEF IInv

LEMMA StepOK == IInv /\ [ClientNext]_sessionVars => IInv'
BY SessionInfoStep, BuildStep, FailedBuildStep, OtherDomainStep, DecryptStep, VehicleStep, Untouched DEF ClientNext

LEMMA Invariance == ClientSpec => []IInv
BY InitOK, StepOK, PTL DEF ClientSpec

----------------------------------------------------------------------------
(* Sessions, commands and answers stay well formed (client.zig:196-284). *)
THEOREM ClientTypes == ClientSpec => []ClientTypeOK
<1>1. IInv => ClientTypeOK
  BY DEF IInv
<1> QED
  BY <1>1, Invariance, PTL

(* Within a round of counters none is used twice in an epoch, unless a late session  *)
(* info moved the session (session.zig:83-86, 90-104).                              *)
THEOREM CountersNotReused == ClientSpec => []CountersOnce
<1>1. IInv => CountersOnce
  BY DEF IInv
<1> QED
  BY <1>1, Invariance, PTL

(* Commands are signed with the shared secret only (session.zig:102).               *)
THEOREM NothingUnshared == ClientSpec => []SignedWithSecret
<1>1. IInv => SignedWithSecret
  BY DEF IInv
<1> QED
  BY <1>1, Invariance, PTL

(* The first arrival of the awaited answer is decrypted (client.zig:275, 405-432).   *)
THEOREM AwaitedAnswerDecrypts == ClientSpec => FreshAnswersDecrypt
<1> DEFINE Promise ==
      \A a \in answers :
        (decryptResponse(a) /\ a.to = Len(commands) /\ steady /\ a.pair \notin checked)
          => outcome' = "decrypted"
<1>1. ASSUME IInv PROVE Promise
  <2> SUFFICES ASSUME NEW a \in answers, decryptResponse(a), a.to = Len(commands), steady,
                      a.pair \notin checked
               PROVE  outcome' = "decrypted"
    OBVIOUS
  <2>1. a.pair \in Responses
    BY <1>1, AnswerFields DEF IInv
  <2>2. returned'
    BY <1>1, <2>1, CheckStep DEF IInv, decryptResponse
  <2>3. Authentic(a)
    BY <1>1 DEF IInv, SteadyIsAsSigned, Authentic
  <2> QED
    BY <2>2, <2>3 DEF decryptResponse
<1>2. IInv => [Promise]_sessionVars
  BY <1>1
<1> QED
  BY <1>2, Invariance, PTL DEF FreshAnswersDecrypt

(* Every use the session makes of its replay check is one the check allows for, so   *)
(* that what is proved of the check holds in the session (client.zig:420-423).       *)
THEOREM SessionUsesCache == ClientSpec => Spec
<1>1. ClientInit => Init
  BY DEF ClientInit
<1>2. IInv /\ [ClientNext]_sessionVars => [Next]_vars
  <2> SUFFICES ASSUME IInv, [ClientNext]_sessionVars PROVE Next \/ UNCHANGED vars
    OBVIOUS
  <2>1. ASSUME NEW a \in answers, decryptResponse(a) PROVE Next
    <3>1. a.pair \in Responses
      BY AnswerFields DEF IInv
    <3> QED
      BY <2>1, <3>1 DEF decryptResponse, Next
  <2> QED
    BY <2>1 DEF ClientNext, sessionVars, cacheVars, handleSessionInfoResponse, Build,
       BuildFails, Count, BuildForOtherDomain, Execute, Restart
<1> QED
  BY <1>1, <1>2, Invariance, PTL DEF ClientSpec, Spec

(* No answer is accepted twice within the window of the session's replay check       *)
(* (session.zig:27-43).                                                             *)
THEOREM SessionNoReplay == ClientSpec => []NoReplayInWindow
BY SessionUsesCache, NoReplay
=============================================================================
