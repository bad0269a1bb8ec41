---------------------------- MODULE MCWorkGroups ----------------------------
(* Small instances of the time-step protocol for TLC. *)
EXTENDS WorkGroupsInv, TLC

CONSTANTS w1, w2, w3, w4

\* Short-term: groups of one, two and one workers, of granularity 1, 2 and 3.
\* With four base ticks the second group ends exactly at its last countdown
\* and the third one in the middle of its step.
ThreeGroups == w1 :> 1 @@ w2 :> 2 @@ w3 :> 2 @@ w4 :> 3
Steps123 == <<1, 2, 3>>

\* Mid-term: the one group of person workers, at the base granularity or twice.
OneGroup == w1 :> 1 @@ w2 :> 1 @@ w3 :> 1
Steps1 == <<1>>
Steps2 == <<2>>
=============================================================================
