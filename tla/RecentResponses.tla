-------------------------- MODULE RecentResponses --------------------------
(***************************************************************************)
(* What the replay check of a session promises: a response is accepted     *)
(* unless it is one of the Window responses accepted last.                 *)
(* SeenCounterCache (src/session.zig) is the ring that implements it.      *)
(***************************************************************************)
EXTENDS Integers, Sequences

CONSTANTS
  Window,    \* responses remembered (16 in the code)
  Responses  \* the pairs of request id and response counter

VARIABLES
  recent,   \* the responses accepted last, the latest first
  offered,  \* the latest response checked,
  accepted  \* and whether it was accepted

recentVars == <<recent, offered, accepted>>

Remembered(r) == \E i \in 1..Len(recent) : recent[i] = r

(* q with r in front, cut to what is remembered *)
Remember(q, r) ==
  [i \in 1..(IF Len(q) < Window THEN Len(q) + 1 ELSE Window) |->
     IF i = 1 THEN r ELSE q[i - 1]]

Init ==
  /\ recent = <<>>
  /\ offered \in Responses
  /\ accepted = FALSE

Accept(r) ==
  /\ ~Remembered(r)
  /\ recent' = Remember(recent, r)
  /\ offered' = r
  /\ accepted' = TRUE

Refuse(r) ==
  /\ Remembered(r)
  /\ offered' = r
  /\ accepted' = FALSE
  /\ UNCHANGED recent

Next == \E r \in Responses : Accept(r) \/ Refuse(r)

Spec == Init /\ [][Next]_recentVars
============================================================================
