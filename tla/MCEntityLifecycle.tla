-------------------------- MODULE MCEntityLifecycle --------------------------
(* Small instances of the life of the entities for TLC. *)
EXTENDS EntityLifecycleInv, TLC

CONSTANTS hub, a, b, c

\* Base ticks of two milliseconds: a starts at once, b a little after the start
\* of the second tick, the controller's child c exactly with a tick.
Starts == hub :> 0 @@ a :> 0 @@ b :> 3 @@ c :> 2
=============================================================================
