---------------------------- MODULE LossyChannel ----------------------------
(***************************************************************************)
(* What a transport of messages over chunks may at most do wrong: messages *)
(* are numbered in the order in which they are sent, some are lost, those  *)
(* that arrive do so whole, in that order and once.                        *)
(***************************************************************************)
EXTENDS Naturals

VARIABLES
  offered,  \* messages sent so far
  latest,   \* the latest that arrived, 0 before the first
  arrivals  \* how many arrived

channelVars == <<offered, latest, arrivals>>

Init == offered = 0 /\ latest = 0 /\ arrivals = 0

Send == offered' = offered + 1 /\ UNCHANGED <<latest, arrivals>>

Arrive ==
  /\ latest' \in (latest + 1)..offered
  /\ arrivals' = arrivals + 1
  /\ UNCHANGED offered

Next == Send \/ Arrive

Spec == Init /\ [][Next]_channelVars
============================================================================
