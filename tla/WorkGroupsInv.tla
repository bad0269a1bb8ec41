---------------------------- MODULE WorkGroupsInv ----------------------------
(***************************************************************************)
(* The properties of the time-step protocol, the abstract clock it         *)
(* implements, and the inductive invariant they follow from.               *)
(***************************************************************************)
EXTENDS WorkGroups

\* Type correctness: in particular barriers never keep a zero count, the group
\* countdown never goes below zero and the iterator stays on the groups.
TypeOK ==
  /\ bar \in [Phases -> BarrierRecord]
  /\ macroBar \in [Groups -> BarrierRecord]
  /\ pc \in [Threads -> {"zero", "update", "frame", "flip", "bus", "macro",
                         "exit", "done"}]
  /\ asleep \in [Threads -> BOOLEAN]
  /\ seen \in [Threads -> Nat]
  /\ next \in 1 .. NumGroups + 1
  /\ mainTick \in Nat
  /\ tickOffset \in [Groups -> Nat]
  /\ currTimeTick \in [Groups -> Nat]
  /\ nextTimeTick \in [Groups -> Nat]
  /\ currTick \in [Workers -> Nat]

-----------------------------------------------------------------------------
(* Safety properties. *)

\* FlexiBarrier::contribute never throws its overflow exception: whenever main
\* answers for a group, that many arrivals are still missing at the barrier.
ContributionFits ==
  \A b \in Phases :
    Visiting(b) /\ Contributes(b, next) =>
      Cardinality(WorkersOf(next)) <= bar[b].count

\* Main has the workers' entities to itself: while it stages, collects and
\* distributes, no worker is initialising or updating entities.
MainExclusive ==
  pc[Main] \in {"flip", "bus"} /\ ~asleep[Main] =>
    \A w \in Workers : pc[w] \notin {"zero", "update"}

\* No buffered value is flipped while a worker may still read it or write it,
\* nor while main distributes messages.
FlipIsolated ==
  \A w \in Workers :
    pc[w] = "flip" /\ ~asleep[w] =>
      /\ \A v \in Workers : pc[v] \notin {"zero", "update"}
      /\ pc[Main] = "bus" => asleep[Main]

\* All workers that update at the same time simulate the same tick, which
\* main has begun or is about to begin, and which is before numSimTicks.
SameTick ==
  \A w \in Workers : pc[w] = "update" =>
    /\ currTick[w] < EndTick
    /\ currTick[w] = IF pc[Main] \in {"bus", "macro"} THEN mainTick + 1 ELSE mainTick
    /\ \A v \in Workers : pc[v] = "update" => currTick[v] = currTick[w]

\* Main stages entities "in time for the next tick": when it serves a group,
\* the group's clocks are the ticks its workers just made and will make next.
ClockAgreement ==
  pc[Main] \in {"flip", "bus"} /\ ~asleep[Main] =>
    \A w \in Workers : tickOffset[GroupOf[w]] = 0 =>
      /\ StartTick + nextTimeTick[GroupOf[w]] = currTick[w]
      /\ StartTick + currTimeTick[GroupOf[w]] = currTick[w] - TickStep[GroupOf[w]]

\* Mid-term: every multi-update entity is initialised before any worker
\* updates one for tick zero.
ZeroBarrier ==
  (\E v \in Workers : pc[v] \in {"update", "frame"}) =>
    \A w \in Workers : pc[w] = "zero" => asleep[w]

\* Liveness: the run ends after tick numSimTicks - 1 with every worker out of
\* its loop; no thread is left waiting on a barrier (deadlock, lost wake-up, a
\* worker that makes one tick too many or one too few).
Terminates == <>Terminated

-----------------------------------------------------------------------------
(* The abstract clock. *)

\* A thread is still held by the barrier b.
Blocked(t, b) ==
  /\ pc[t] = b \/ (b = "frame" /\ pc[t] = "zero")
  /\ asleep[t]
  /\ ~Released(bar[b], seen[t])

\* Main has answered for group g in the current generation of b.
Answered(b, g) ==
  /\ pc[Main] = b
  /\ g < next
  /\ Contributes(b, g)
  /\ asleep[Main] => Blocked(Main, b)

ArrivedAt(b) ==
  {t \in Threads : Blocked(t, b)} \cup {w \in Workers : Answered(b, GroupOf[w])}

Clock == INSTANCE PhaseClock WITH
  round <- bar["frame"].generation + bar["flip"].generation + bar["bus"].generation,
  arrived <- UNION {ArrivedAt(b) : b \in Phases}

\* The barriers implement the clock: a phase of a tick ends for everybody at
\* the instant the last thread has arrived, whoever answers for whom.
ClockSpec == Clock!Spec

-----------------------------------------------------------------------------
(* The inductive invariant. *)

\* The frame barrier has one generation more, spent before tick zero.
ZeroWaits == IF Mode = "medium" THEN 1 ELSE 0

\* How often each barrier has been released for a tick.
F == bar["frame"].generation - ZeroWaits
B == bar["flip"].generation
M == bar["bus"].generation

Gens(f, b, m) == F = f /\ B = b /\ M = m

\* The tick main is in, counted from the start of this run.
K == mainTick - StartTick

\* Where main is, in terms of the generations of the barriers.
MainInv ==
  /\ StartTick <= mainTick
  /\ mainTick <= EndTick
  /\ pc[Main] \in {"zero", "frame", "flip", "bus", "macro", "done"}
  /\ pc[Main] # "done" => mainTick < EndTick
  /\ pc[Main] \in {"frame", "flip", "bus"} /\ asleep[Main] => next \notin Groups
  /\ pc[Main] = "zero" =>
       /\ Mode = "medium" /\ K = 0 /\ next = 1
       /\ IF asleep[Main] THEN seen[Main] = 0 /\ (Gens(-1, 0, 0) \/ Gens(0, 0, 0))
                          ELSE Gens(-1, 0, 0)
  /\ pc[Main] = "frame" =>
       IF asleep[Main] THEN seen[Main] = K + ZeroWaits /\ (Gens(K, K, K) \/ Gens(K + 1, K, K))
                       ELSE Gens(K, K, K)
  /\ pc[Main] = "flip" =>
       IF asleep[Main] THEN seen[Main] = K /\ (Gens(K + 1, K, K) \/ Gens(K + 1, K + 1, K))
                       ELSE Gens(K + 1, K, K)
  /\ pc[Main] = "bus" =>
       IF asleep[Main] THEN seen[Main] = K /\ (Gens(K + 1, K + 1, K) \/ Gens(K + 1, K + 1, K + 1))
                       ELSE Gens(K + 1, K + 1, K)
  /\ pc[Main] = "macro" => Gens(K + 1, K + 1, K + 1)
  /\ pc[Main] = "macro" /\ asleep[Main] =>
       next \in Groups /\ tickOffset[next] = 1 /\ HasMacro(next)
  /\ pc[Main] = "done" => Gens(K, K, K) /\ ~asleep[Main] /\ mainTick = EndTick /\ next = 1

\* Main has finished tick K for group g.
Counted(g) == pc[Main] = "macro" /\ g < next

\* The tick group g is in.
TickOf(g) == IF Counted(g) THEN K + 1 ELSE K

\* Main has begun an update of g that it has not yet counted down from.
Updating(g) ==
  /\ tickOffset[g] = 0
  /\ \/ pc[Main] = "frame" /\ g < next
     \/ pc[Main] \in {"flip", "bus"}
     \/ pc[Main] = "macro" /\ next <= g

\* The macro barrier of g has released main, which has not yet noticed.
MacroFreed(g) ==
  /\ pc[Main] = "macro"
  /\ next = g
  /\ asleep[Main]
  /\ Released(macroBar[g], seen[Main])

GroupInv(g) ==
  /\ tickOffset[g] = 0 =>
       nextTimeTick[g] = TickOf(g) + (IF Updating(g) THEN TickStep[g] ELSE 0)
  /\ tickOffset[g] # 0 =>
       nextTimeTick[g] = TickOf(g) + tickOffset[g] /\ tickOffset[g] < TickStep[g]
  /\ currTimeTick[g] = IF nextTimeTick[g] = 0 THEN 0 ELSE nextTimeTick[g] - TickStep[g]

\* The tick a worker is in: perform_frame_tick advances currTick early.
Round(w) ==
  currTick[w] - StartTick -
    (IF pc[w] \in {"zero", "update"} THEN 0 ELSE TickStep[GroupOf[w]])

\* Main is at the update of g that starts at tick r, or main has still to count
\* g down to it: after the message bus if the group has no macro barrier, after
\* that barrier if it has one.
LiveAt(g, r) ==
  \/ nextTimeTick[g] = r + TickStep[g] /\ Updating(g)
  \/ /\ nextTimeTick[g] = r
     /\ \/ tickOffset[g] = 0 /\ (Updating(g) => ~HasMacro(g) /\ M = TickOf(g) + 1)
        \/ tickOffset[g] = 1 /\ MacroFreed(g)

\* Main is between the update of g at tick r and the end of the group's step.
IdleAt(g, r) ==
  /\ nextTimeTick[g] = r + TickStep[g]
  /\ tickOffset[g] = 0 => Updating(g)
  /\ ~MacroFreed(g)

\* The update of g at tick r is its last: main answers for it until the end.
LastAt(g, r) ==
  /\ EndTick <= StartTick + r + TickStep[g]
  /\ nextTimeTick[g] = r + TickStep[g]
  /\ tickOffset[g] = 0 => Updating(g) \/ TickOf(g) = EndTick - StartTick

\* Every barrier has been released for tick r.
Beyond(r) == r + 1 <= F /\ r + 1 <= B /\ r + 1 <= M

\* A barrier has released the worker into the update at tick r.
AgainAt(g, r) == LiveAt(g, r) /\ Gens(r, r, r)

\* The worker is in its macro barrier and may leave it.
MacroReleased(w) == asleep[w] /\ Released(macroBar[GroupOf[w]], seen[w])

\* A worker of group g in tick r before it arrives at the message bus.
BeforeBus(w, g, r) ==
  /\ pc[w] \in {"zero", "update", "frame", "flip"} => LiveAt(g, r)
  /\ pc[w] = "zero" =>
       /\ Mode = "medium" /\ r = 0
       /\ IF asleep[w] THEN seen[w] = 0 /\ (Gens(-1, 0, 0) \/ Gens(0, 0, 0))
                       ELSE Gens(-1, 0, 0)
  /\ pc[w] = "update" => Gens(r, r, r) /\ ~asleep[w]
  /\ pc[w] = "frame" =>
       IF asleep[w] THEN seen[w] = r + ZeroWaits /\ (Gens(r, r, r) \/ Gens(r + 1, r, r))
                    ELSE Gens(r, r, r)
  /\ pc[w] = "flip" =>
       IF asleep[w] THEN seen[w] = r /\ (Gens(r + 1, r, r) \/ Gens(r + 1, r + 1, r))
                    ELSE Gens(r + 1, r, r)

\* A worker at the message bus, still held by it or released from it.
AtBus(w, g, r) ==
  pc[w] = "bus" =>
    /\ (asleep[w] => M = r) => LiveAt(g, r) /\ Gens(r + 1, r + 1, r)
    /\ asleep[w] => seen[w] = r /\ r <= M
    /\ asleep[w] /\ M # r =>
         /\ AfterBus(w) = "macro" => Beyond(r) /\ IdleAt(g, r)
         /\ AfterBus(w) = "exit" => Beyond(r) /\ LastAt(g, r)
         /\ AfterBus(w) \in {"zero", "update"} => AgainAt(g, r + TickStep[g])

\* A worker at its macro barrier or at the end of its loop.
AfterBusInv(w, g, r) ==
  /\ pc[w] = "macro" => HasMacro(g) /\ ExtraActive(currTick[w]) /\ Beyond(r)
  /\ pc[w] = "macro" /\ ~MacroReleased(w) => IdleAt(g, r)
  /\ pc[w] = "macro" /\ MacroReleased(w) =>
       IF Active(currTick[w]) THEN AgainAt(g, r + TickStep[g]) ELSE LastAt(g, r)
  /\ pc[w] = "exit" => LastAt(g, r) /\ ~asleep[w] /\ Beyond(r)

WorkerInv(w) ==
  /\ 0 <= Round(w)
  /\ Round(w) + StartTick < EndTick
  /\ pc[w] # "done"
  /\ BeforeBus(w, GroupOf[w], Round(w))
  /\ AtBus(w, GroupOf[w], Round(w))
  /\ AfterBusInv(w, GroupOf[w], Round(w))

CountInv(b) ==
  /\ bar[b].threshold = BarrierCount
  /\ bar[b].count = BarrierCount - Cardinality(ArrivedAt(b))

MacroArrived(g) ==
  {t \in WorkersOf(g) \cup {Main} :
     /\ pc[t] = "macro" /\ asleep[t] /\ ~Released(macroBar[g], seen[t])
     /\ t = Main => next = g}

MacroCountInv(g) ==
  /\ macroBar[g].threshold = Cardinality(WorkersOf(g)) + 1
  /\ macroBar[g].count = Cardinality(WorkersOf(g)) + 1 - Cardinality(MacroArrived(g))

IInv ==
  /\ TypeOK
  /\ MainInv
  /\ \A g \in Groups : GroupInv(g)
  /\ \A w \in Workers : WorkerInv(w)
  /\ \A b \in Phases : CountInv(b)
  /\ \A g \in Groups : MacroCountInv(g)
=============================================================================
