---------------------------- MODULE ClientSession ----------------------------
(***************************************************************************)
(* One session of the Zig client (src/client.zig, src/session.zig): what   *)
(* it learns from session infos, the commands it signs and the answers it  *)
(* decrypts, with the replay check of SeenCounterCache. The vehicle and    *)
(* the link are external: the vehicle restarts, executes commands in any   *)
(* order its counter allows and answers them; every message may come late, *)
(* more than once or never. The times that end a command's life are left   *)
(* out.                                                                    *)
(***************************************************************************)
EXTENDS SeenCounterCache

CONSTANTS
  CounterLimit,  \* values of a signing counter (2^32 in the code)
  MaxEpoch,      \* bound: epochs the vehicle goes through
  MaxBuilds      \* bound: commands whose signing was begun

ASSUME LimitAssumption == CounterLimit \in Nat \ {0}
ASSUME SessionBounds == MaxEpoch \in Nat \ {0} /\ MaxBuilds \in Nat

VARIABLES
  session,   \* epoch, counter, shared_secret and is_valid
  request,   \* last_request_hash: the command it was made from, or Nothing
  commands,  \* the commands signed so far
  car,       \* the vehicle's epoch and the last counter it accepted in it
  infos,     \* what the vehicle has had to tell in session infos
  answers,   \* the answers of the vehicle
  builds,    \* history: how often incrementCounter was called,
  since,     \* how many commands were signed when a session info last
             \* moved the session to another counter or an older epoch,
  steady,    \* whether nothing was built and the session not changed since the
             \* latest of them,
  checked,   \* the pairs that went through the replay check,
  outcome    \* and what became of the latest answer

cacheVars == vars
clientVars == <<session, request, commands, builds, since, steady>>
carVars == <<car, infos, answers>>
sessionVars == <<cacheVars, clientVars, carVars, checked, outcome>>

Counters == 0..(CounterLimit - 1)
NoEpoch == 0    \* the zeros of Session.init
Nothing == 0    \* no command, or one of the other domain
NoSecret == "no secret"
Shared == "shared secret"
Secrets == {NoSecret, Shared}

Sessions == [epoch : 0..MaxEpoch, counter : Counters, secret : Secrets, valid : BOOLEAN]
Commands == [epoch : 1..MaxEpoch, counter : Counters, secret : Secrets, build : 1..MaxBuilds]
VehicleStates == [epoch : 1..MaxEpoch, counter : Counters]
Answers == [to : 1..Len(commands), pair : Responses]
Outcomes == {"none", "replay", "decrypted", "not authentic"}
----------------------------------------------------------------------------
(* The client *)

(* incrementCounter *)
NoIncrement(counter) == counter
WithoutWrap(counter) == counter + 1
AfterIncrement(counter) == (counter + 1) % CounterLimit

(* updateSession: what is stored before the key exchange may fail, *)
ValidTooEarly(i) == [session EXCEPT !.epoch = i.epoch, !.counter = i.counter, !.valid = TRUE]
Started(i) == [session EXCEPT !.epoch = i.epoch, !.counter = i.counter]
(* and after it. *)
Completed(i) == [Started(i) EXCEPT !.secret = Shared, !.valid = TRUE]

(* The info moves the session back or sideways: not to an epoch it has yet to *)
(* learn of, and not to where it already is.                                 *)
Moves(i) == i.epoch < session.epoch \/ (i.epoch = session.epoch /\ i.counter # session.counter)

handleSessionInfoResponse(i) ==
  /\ session' \in {Started(i), Completed(i)}
  /\ since' = IF Moves(i) THEN Len(commands) ELSE since
  /\ steady' = (steady /\ i.epoch = session.epoch /\ i.counter = session.counter)
  /\ UNCHANGED <<cacheVars, request, commands, builds, carVars, checked, outcome>>

(* buildUniversalMessageWithPayload counts before it signs: *)
Count ==
  /\ session.valid
  /\ builds < MaxBuilds
  /\ builds' = builds + 1
  /\ session' = [session EXCEPT !.counter = AfterIncrement(session.counter)]
  /\ UNCHANGED <<cacheVars, since, carVars, checked, outcome>>

(* a command of this domain is signed, *)
HashOfPrevious(n) == n - 1
HashOf(n) == n
Build ==
  /\ Count
  /\ commands' = Append(commands, [epoch |-> session.epoch, counter |-> session'.counter,
                                   secret |-> session.secret, build |-> builds'])
  /\ request' = HashOf(Len(commands'))
  /\ steady' = TRUE

(* or does not fit into the caller's buffer, *)
BuildFails ==
  /\ Count
  /\ steady' = FALSE
  /\ UNCHANGED <<commands, request>>

(* or one of the other domain is signed, which shares last_request_hash. *)
BuildForOtherDomain ==
  /\ request' = Nothing
  /\ steady' = FALSE
  /\ UNCHANGED <<cacheVars, session, commands, builds, since, carVars, checked, outcome>>

(* The tag of an answer is right for the session's key, epoch and counter and the *)
(* hash of the request.                                                        *)
Authentic(a) ==
  /\ session.valid
  /\ a.to = request
  /\ commands[a.to].epoch = session.epoch
  /\ commands[a.to].counter = session.counter
  /\ commands[a.to].secret = session.secret

decryptResponse(a) ==
  /\ validateAndAdd(a.pair)
  /\ outcome' = CASE ~returned' -> "replay"
                  [] returned' /\ Authentic(a) -> "decrypted"
                  [] OTHER -> "not authentic"
  /\ checked' = checked \cup {a.pair}
  /\ UNCHANGED <<clientVars, carVars>>
----------------------------------------------------------------------------
(* The vehicle *)

Unused == Responses \ {a.pair : a \in answers}

Accepts(c) == c.epoch = car.epoch /\ c.counter > car.counter /\ c.secret = Shared

Execute(n) ==
  /\ Accepts(commands[n])
  /\ \E p \in Unused : answers' = answers \cup {[to |-> n, pair |-> p]}
  /\ car' = [car EXCEPT !.counter = commands[n].counter]
  /\ infos' = infos \cup {car'}
  /\ UNCHANGED <<cacheVars, clientVars, checked, outcome>>

Restart ==
  /\ car.epoch < MaxEpoch
  /\ \E c \in Counters : car' = [epoch |-> car.epoch + 1, counter |-> c]
  /\ infos' = infos \cup {car'}
  /\ UNCHANGED <<cacheVars, clientVars, answers, checked, outcome>>
----------------------------------------------------------------------------

ClientInit ==
  /\ Init
  /\ session = [epoch |-> NoEpoch, counter |-> 0, secret |-> NoSecret, valid |-> FALSE]
  /\ request = Nothing
  /\ commands = <<>>
  /\ \E c \in Counters : car = [epoch |-> 1, counter |-> c]
  /\ infos = {car}
  /\ answers = {}
  /\ builds = 0
  /\ since = 0
  /\ steady = FALSE
  /\ checked = {}
  /\ outcome = "none"

ClientNext ==
  \/ \E i \in infos : handleSessionInfoResponse(i)
  \/ Build
  \/ BuildFails
  \/ BuildForOtherDomain
  \/ \E a \in answers : decryptResponse(a)
  \/ \E n \in 1..Len(commands) : Execute(n)
  \/ Restart

ClientSpec == ClientInit /\ [][ClientNext]_sessionVars
----------------------------------------------------------------------------

(* Sessions, commands and answers are well formed, and an answer is one to a *)
(* command that was signed (client.zig:196-284).                             *)
ClientTypeOK ==
  /\ session \in Sessions
  /\ commands \in Seq(Commands)
  /\ builds \in 0..MaxBuilds
  /\ request \in 0..Len(commands)
  /\ car \in VehicleStates
  /\ infos \subseteq VehicleStates
  /\ answers \subseteq Answers
  /\ since \in 0..Len(commands)
  /\ steady \in BOOLEAN
  /\ checked \subseteq Responses
  /\ outcome \in Outcomes

(* No two commands of an epoch are signed with the same counter, over a wrap of   *)
(* the counter, lost commands, builds that fail, restarts of the vehicle and key    *)
(* exchanges that fail, unless a late session info moved the session in between or  *)
(* a whole round of counters was used up (session.zig:83-86, 90-104).              *)
CountersOnce ==
  \A m, n \in (since + 1)..Len(commands) :
    (/\ m < n
     /\ commands[m].epoch = commands[n].epoch
     /\ commands[n].build - commands[m].build < CounterLimit)
      => commands[m].counter # commands[n].counter

(* No command is signed with anything but the key shared with the vehicle: a   *)
(* session whose key exchange never succeeded signs nothing (session.zig:102,   *)
(* client.zig:228).                                                            *)
SignedWithSecret == \A n \in 1..Len(commands) : commands[n].secret = Shared

(* The answer to the command built last is decrypted the first time it arrives,   *)
(* if nothing was built and no session info changed the session since, whatever   *)
(* answers to earlier commands were checked before it (client.zig:275, 405-432). *)
FreshAnswersDecrypt ==
  [][\A a \in answers :
       (decryptResponse(a) /\ a.to = Len(commands) /\ steady /\ a.pair \notin checked)
         => outcome' = "decrypted"]_sessionVars
============================================================================
