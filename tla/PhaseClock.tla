----------------------------- MODULE PhaseClock -----------------------------
(***************************************************************************)
(* What the time-step protocol promises, without barriers, counts or       *)
(* generations: the simulation goes through numbered rounds (the phases of *)
(* all ticks, one after the other).  In a round every thread arrives       *)
(* exactly once, by itself or together with the other threads somebody     *)
(* answers for; the round ends at the instant the last one arrives, never  *)
(* earlier, and nobody is left over from it.                               *)
(***************************************************************************)
EXTENDS Naturals

CONSTANT Threads

VARIABLES
  round,   \* how many rounds have been completed
  arrived  \* who has arrived in the current round

Init == round = 0 /\ arrived = {}

\* The threads of S arrive together; if nobody is missing the round is over.
Arrive(S) ==
  /\ S # {}
  /\ S \cap arrived = {}
  /\ IF arrived \cup S = Threads
     THEN round' = round + 1 /\ arrived' = {}
     ELSE round' = round /\ arrived' = arrived \cup S

Next == \E S \in SUBSET Threads : Arrive(S)

Spec == Init /\ [][Next]_<<round, arrived>>
=============================================================================
