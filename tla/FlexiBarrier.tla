---------------------------- MODULE FlexiBarrier ----------------------------
(***************************************************************************)
(* sim_mob::FlexiBarrier (shared/util/FlexiBarrier.cpp): a counting        *)
(* barrier on which a thread may wait with an amount, or contribute an     *)
(* amount on behalf of others without waiting.  The whole of wait() up to  *)
(* the condition variable, and the whole of contribute(), run under        *)
(* m_mutex, so each is one step on the record below.                       *)
(***************************************************************************)
EXTENDS Naturals

\* m_threshold, m_count, m_generation.  m_count is never left at zero.
BarrierRecord == [threshold : Nat \ {0}, count : Nat \ {0}, generation : Nat]

\* The constructor; a zero count makes it throw, so n is positive.
NewBarrier(n) == [threshold |-> n, count |-> n, generation |-> 0]

\* "Can't wait more than the amount that would get us to zero": the call throws.
Overflows(b, amount) == amount > b.count

\* The call that brings m_count to zero is the leader and releases the barrier.
Completes(b, amount) == b.count = amount

\* m_count -= amount; at zero, the next generation starts with a full count.
Take(b, amount) ==
  IF Completes(b, amount)
  THEN [b EXCEPT !.count = b.threshold, !.generation = b.generation + 1]
  ELSE [b EXCEPT !.count = b.count - amount]

\* Mutant: a spurious wake-up is taken for the release.
ReleasedByAnyWake(b, seen) == TRUE

\* A sleeper re-reads m_generation and leaves once it is not the one it saw.
Released(b, seen) == seen # b.generation
=============================================================================
