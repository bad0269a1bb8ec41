---------------------------- MODULE MCMessageBus ----------------------------
(* Small instances of the message bus for TLC. *)
EXTENDS MessageBusInv, TLC

CONSTANTS w1, w2, hub, a1, a2

\* A controller on the main thread (PT_Statistics) and an agent on each worker.
MCHome == hub :> Main @@ a1 :> w1 @@ a2 :> w2

\* Mid-term: an agent on each worker, which may be moved to any thread.
MediumHome == a1 :> w1 @@ a2 :> w2

Steps12 == w1 :> 1 @@ w2 :> 2
Steps11 == w1 :> 1 @@ w2 :> 1

Shape(d, p, m, o) == [dest |-> d, priority |-> p, onMain |-> m, offset |-> o]

\* Plain messages of two priorities, one for main, and timers of one to three.
ShortShapes ==
  {Shape(a1, 0, FALSE, 0), Shape(a2, 9, FALSE, 0), Shape(a2, 0, FALSE, 2),
   Shape(hub, 0, FALSE, 0), Shape(a1, 0, TRUE, 0)}

MediumShapes ==
  {Shape(a1, 0, FALSE, 0), Shape(a2, 0, FALSE, 0), Shape(a2, 0, FALSE, 2)}
=============================================================================
