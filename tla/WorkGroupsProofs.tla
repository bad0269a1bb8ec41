-------------------------- MODULE WorkGroupsProofs --------------------------
(***************************************************************************)
(* Proofs about the time-step protocol, for any number of groups, workers  *)
(* and ticks and any granularities: the counts of a barrier, and every     *)
(* step of a worker preserves the inductive invariant.                     *)
(***************************************************************************)
EXTENDS WorkGroupsInv, FiniteSetTheorems, TLAPS
\* What the assumptions say of single groups and workers.
LEMMA ConstantFacts ==
  /\ NumGroups \in Nat /\ Groups \subseteq Nat
  /\ \A g \in Groups : TickStep[g] \in Nat /\ TickStep[g] > 0 /\ g > 0 /\ g <= NumGroups
  /\ \A w \in Workers : GroupOf[w] \in Groups
  /\ Main \notin Workers /\ Main \in Threads /\ Workers \subseteq Threads
  /\ StartTick \in Nat /\ EndTick \in Nat /\ StartTick < EndTick
  BY GroupsAssumption, TicksAssumption, ThreadsAssumption DEF Groups, Threads

\* A worker is a thread of its own, in some group.
LEMMA WorkerFacts ==
  ASSUME NEW w \in Workers
  PROVE  /\ w \in Threads /\ w # Main
         /\ GroupOf[w] \in Groups
         /\ TickStep[GroupOf[w]] \in Nat /\ TickStep[GroupOf[w]] > 0
<1>1. GroupOf[w] \in Groups
  BY GroupsAssumption
<1>2. TickStep[GroupOf[w]] \in Nat /\ TickStep[GroupOf[w]] > 0
  BY <1>1, GroupsAssumption
<1>. QED
  BY <1>1, <1>2, ThreadsAssumption DEF Threads

\* The threads of the run are finitely many, one more than the workers.
LEMMA ThreadCount ==
  /\ IsFiniteSet(Threads)
  /\ BarrierCount \in Nat \ {0}
  /\ Cardinality(Threads) = BarrierCount
  /\ Cardinality(Workers) \in Nat
<1>1. IsFiniteSet(Workers) /\ Main \notin Workers
  BY ThreadsAssumption
<1>2. Cardinality(Workers) \in Nat
  BY <1>1, FS_CardinalityType
<1>3. IsFiniteSet(Threads) /\ Cardinality(Threads) = Cardinality(Workers) + 1
  BY <1>1, FS_AddElement DEF Threads
<1>. QED
  BY <1>2, <1>3 DEF BarrierCount

\* The workers of a group are finitely many.
LEMMA GroupCount ==
  ASSUME NEW g \in Groups
  PROVE  /\ WorkersOf(g) \subseteq Workers
         /\ IsFiniteSet(WorkersOf(g))
         /\ Cardinality(WorkersOf(g)) \in Nat
<1>1. WorkersOf(g) \subseteq Workers
  BY DEF WorkersOf
<1>2. IsFiniteSet(WorkersOf(g))
  BY <1>1, ThreadsAssumption, FS_Subset
<1>. QED
  BY <1>1, <1>2, FS_CardinalityType

\* An arrival that does not overflow leaves a barrier behind.
LEMMA TakeType ==
  ASSUME NEW b \in BarrierRecord, NEW n \in Nat, ~Overflows(b, n)
  PROVE  Take(b, n) \in BarrierRecord
<1>1. CASE Completes(b, n)
  <2>1. Take(b, n) = [b EXCEPT !.count = b.threshold, !.generation = b.generation + 1]
    BY <1>1 DEF Take
  <2>2. b.threshold \in Nat \ {0} /\ b.generation + 1 \in Nat
    BY DEF BarrierRecord
  <2>. QED
    BY <2>1, <2>2 DEF BarrierRecord
<1>2. CASE ~Completes(b, n)
  <2>1. Take(b, n) = [b EXCEPT !.count = b.count - n]
    BY <1>2 DEF Take
  <2>2. b.count - n \in Nat \ {0}
    BY <1>2 DEF BarrierRecord, Completes, Overflows
  <2>. QED
    BY <2>1, <2>2 DEF BarrierRecord
<1>. QED
  BY <1>1, <1>2

\* What Take does to each field.
LEMMA TakeFields ==
  ASSUME NEW b \in BarrierRecord, NEW n \in Nat, ~Overflows(b, n)
  PROVE  /\ Take(b, n).threshold = b.threshold
         /\ Completes(b, n) => Take(b, n).count = b.threshold
                            /\ Take(b, n).generation = b.generation + 1
         /\ ~Completes(b, n) => Take(b, n).count = b.count - n
                             /\ Take(b, n).generation = b.generation
  BY DEF BarrierRecord, Overflows, Completes, Take

-----------------------------------------------------------------------------
(* Type correctness. *)

PCs == {"zero", "update", "frame", "flip", "bus", "macro", "exit", "done"}

LEMMA InitType == Init => TypeOK
<1>. SUFFICES ASSUME Init PROVE TypeOK
  OBVIOUS
<1>1. NewBarrier(BarrierCount) \in BarrierRecord
  BY ThreadCount DEF NewBarrier, BarrierRecord
<1>2. \A g \in Groups : NewBarrier(Cardinality(WorkersOf(g)) + 1) \in BarrierRecord
  BY GroupCount DEF NewBarrier, BarrierRecord
<1>3. \A x \in Nat : LoopHead(x) \in {"zero", "update"}
  BY DEF LoopHead
<1>. QED
  BY <1>1, <1>2, <1>3, ConstantFacts DEF Init, TypeOK

\* Entering or leaving the wait on a barrier record keeps the thread variables
\* well typed.
LEMMA EnterWaitType ==
  ASSUME TypeOK, NEW t \in Threads, NEW b \in BarrierRecord, NEW after \in PCs,
         EnterWait(t, b, after) \/ LeaveWait(t, b, after)
  PROVE  /\ pc' \in [Threads -> PCs]
         /\ asleep' \in [Threads -> BOOLEAN]
         /\ seen' \in [Threads -> Nat]
<1>1. /\ pc \in [Threads -> PCs]
      /\ asleep \in [Threads -> BOOLEAN]
      /\ seen \in [Threads -> Nat]
      /\ b.generation \in Nat
  BY DEF TypeOK, PCs, BarrierRecord
<1>2. CASE EnterWait(t, b, after) /\ Completes(b, 1)
  BY <1>1, <1>2 DEF EnterWait
<1>3. CASE EnterWait(t, b, after) /\ ~Completes(b, 1)
  BY <1>1, <1>3 DEF EnterWait
<1>4. CASE LeaveWait(t, b, after)
  BY <1>1, <1>4 DEF LeaveWait
<1>. QED
  BY <1>2, <1>3, <1>4

LEMMA WaitType ==
  ASSUME TypeOK, NEW t \in Threads, NEW b \in Phases, NEW after \in PCs,
         Wait(t, b, after)
  PROVE  /\ bar' \in [Phases -> BarrierRecord]
         /\ pc' \in [Threads -> PCs]
         /\ asleep' \in [Threads -> BOOLEAN]
         /\ seen' \in [Threads -> Nat]
<1>1. bar \in [Phases -> BarrierRecord] /\ bar[b] \in BarrierRecord
  BY DEF TypeOK
<1>2. CASE Enter(t, b, after)
  <2>1. Take(bar[b], 1) \in BarrierRecord
    BY <1>1, <1>2, TakeType DEF Enter, EnterWait
  <2>. QED
    BY <1>1, <1>2, <2>1, EnterWaitType DEF Enter
<1>3. CASE Leave(t, b, after)
  BY <1>1, <1>3, EnterWaitType DEF Leave
<1>. QED
  BY <1>2, <1>3 DEF Wait

LEMMA MacroWaitType ==
  ASSUME TypeOK, NEW t \in Threads, NEW g \in Groups, NEW after \in PCs,
         \/ EnterWait(t, macroBar[g], after) /\ macroBar' = [macroBar EXCEPT ![g] = Take(@, 1)]
         \/ LeaveWait(t, macroBar[g], after) /\ UNCHANGED macroBar
  PROVE  /\ macroBar' \in [Groups -> BarrierRecord]
         /\ pc' \in [Threads -> PCs]
         /\ asleep' \in [Threads -> BOOLEAN]
         /\ seen' \in [Threads -> Nat]
<1>1. macroBar \in [Groups -> BarrierRecord] /\ macroBar[g] \in BarrierRecord
  BY DEF TypeOK
<1>2. EnterWait(t, macroBar[g], after) => Take(macroBar[g], 1) \in BarrierRecord
  BY <1>1, TakeType DEF EnterWait
<1>. QED
  BY <1>1, <1>2, EnterWaitType

\* Where a worker goes is one of the values of pc.
LEMMA AfterType ==
  ASSUME NEW w \in Workers
  PROVE  AfterBus(w) \in PCs /\ AfterLoop(currTick[w]) \in PCs
  BY DEF AfterBus, AfterLoop, LoopHead, PCs

LEMMA MainStepType == TypeOK /\ MainStep => TypeOK'
<1>. SUFFICES ASSUME TypeOK, MainStep PROVE TypeOK'
  OBVIOUS
<1>. USE ConstantFacts
<1>0. \A p \in {"frame", "flip", "bus", "macro"} : p \in PCs
  BY DEF PCs
<1>1. CASE MainZero
  <2>1. Wait(Main, "frame", "frame")
    BY <1>1 DEF MainZero
  <2>2. QED
    BY <1>1, <2>1, <1>0, WaitType DEF MainZero, TypeOK, Phases, groupVars, PCs
<1>2. ASSUME NEW b \in Phases, Visit(b)
      PROVE  /\ bar' \in [Phases -> BarrierRecord]
             /\ next \in Groups
             /\ next' \in 1 .. NumGroups + 1
             /\ UNCHANGED <<macroBar, threadVars, mainTick, tickOffset, currTick>>
  <2>1. next \in Groups /\ Cardinality(WorkersOf(next)) \in Nat /\ next' = next + 1
    BY <1>2, GroupCount DEF Visit, Visiting
  <2>2. bar \in [Phases -> BarrierRecord] /\ bar[b] \in BarrierRecord
    BY DEF TypeOK
  <2>3. bar' \in [Phases -> BarrierRecord]
    BY <1>2, <2>1, <2>2, TakeType DEF Visit
  <2>. QED
    BY <1>2, <2>1, <2>3 DEF Visit, Groups
<1>3. CASE WaitFrameTick
  <2>1. Visit("frame") /\ "frame" \in Phases
    BY <1>3 DEF WaitFrameTick, Phases
  <2>2. next \in Groups /\ nextTimeTick[next] \in Nat /\ nextTimeTick[next] + TickStep[next] \in Nat
    BY <1>2, <2>1 DEF TypeOK
  <2>3. currTimeTick' \in [Groups -> Nat] /\ nextTimeTick' \in [Groups -> Nat]
    BY <1>3, <2>2 DEF WaitFrameTick, TypeOK
  <2>. QED
    BY <1>2, <2>1, <2>3 DEF TypeOK, threadVars
<1>4. CASE WaitFlipBuffers
  BY <1>2, <1>4 DEF WaitFlipBuffers, Phases, TypeOK, threadVars
<1>5. CASE WaitAuraManager
  BY <1>2, <1>5 DEF WaitAuraManager, Phases, TypeOK, threadVars
<1>6. ASSUME NEW b \in Phases, NEW after \in PCs, MainWait(b, after) PROVE TypeOK'
  <2>1. Wait(Main, b, after)
    BY <1>6 DEF MainWait
  <2>2. next' \in 1 .. NumGroups + 1
    BY <1>6 DEF MainWait, TypeOK
  <2>. QED
    BY <1>6, <2>1, <2>2, WaitType DEF MainWait, TypeOK, groupVars, PCs
<1>7. CASE MainFrameWait
  BY <1>0, <1>6, <1>7 DEF MainFrameWait, Phases
<1>8. CASE MainFlipWait
  BY <1>0, <1>6, <1>8 DEF MainFlipWait, Phases
<1>9. CASE MainBusWait
  BY <1>0, <1>6, <1>9 DEF MainBusWait, Phases
<1>10. CASE CountDown
  <2>1. next \in Groups /\ tickOffset[next] \in Nat
    BY <1>10 DEF CountDown, Visiting, TypeOK
  <2>2. (IF tickOffset[next] = 0 THEN TickStep[next] ELSE tickOffset[next]) - 1 \in Nat
    BY <2>1
  <2>3. tickOffset' \in [Groups -> Nat]
    BY <1>10, <2>1, <2>2 DEF CountDown, TypeOK
  <2>4. next' \in 1 .. NumGroups + 1
    BY <1>10, <2>1 DEF CountDown, Groups
  <2>. QED
    BY <1>10, <2>3, <2>4 DEF CountDown, TypeOK, barrierVars, threadVars
<1>11. CASE MainMacro
  <2>1. next \in Groups /\ Main \in Threads
    BY <1>11 DEF MainMacro
  <2>2. /\ macroBar' \in [Groups -> BarrierRecord]
        /\ pc' \in [Threads -> PCs]
        /\ asleep' \in [Threads -> BOOLEAN]
        /\ seen' \in [Threads -> Nat]
    BY <1>11, <2>1, <1>0, MacroWaitType DEF MainMacro
  <2>3. next' \in 1 .. NumGroups + 1
    BY <1>11, <2>1 DEF MainMacro, TypeOK, Groups
  <2>4. tickOffset' \in [Groups -> Nat]
    BY <1>11, <2>1 DEF MainMacro, TypeOK
  <2>5. bar' = bar /\ mainTick' = mainTick /\ currTimeTick' = currTimeTick
        /\ nextTimeTick' = nextTimeTick /\ currTick' = currTick
    BY <1>11 DEF MainMacro
  <2>. QED
    BY <2>2, <2>3, <2>4, <2>5 DEF TypeOK, PCs
<1>12. CASE MainNextTick
  BY <1>12 DEF MainNextTick, TypeOK, barrierVars, groupVars
<1>. QED
  BY <1>1, <1>3, <1>4, <1>5, <1>7, <1>8, <1>9, <1>10, <1>11, <1>12 DEF MainStep

LEMMA WorkerStepType ==
  ASSUME TypeOK, NEW w \in Workers, WorkerStep(w)
  PROVE  TypeOK'
<1>. USE ConstantFacts
<1>0. w \in Threads /\ {"update", "frame", "flip", "bus"} \subseteq PCs
  BY DEF PCs
<1>1. ASSUME NEW b \in Phases, NEW after \in PCs, Wait(w, b, after),
             UNCHANGED <<macroBar, next, mainTick, groupVars, currTick>>
      PROVE  TypeOK'
  BY <1>0, <1>1, WaitType DEF TypeOK, groupVars, PCs
<1>2. CASE WorkerZero(w)
  BY <1>0, <1>1, <1>2 DEF WorkerZero, Phases
<1>3. CASE PerformFrameTick(w)
  <2>0. currTick[w] \in Nat
    BY DEF TypeOK
  <2>1. currTick[w] + TickStep[GroupOf[w]] \in Nat
    BY <2>0, WorkerFacts
  <2>2. currTick' \in [Workers -> Nat]
    BY <1>3, <2>1 DEF PerformFrameTick, TypeOK
  <2>3. pc' \in [Threads -> PCs]
    BY <1>0, <1>3 DEF PerformFrameTick, TypeOK, PCs
  <2>. QED
    BY <1>3, <2>2, <2>3 DEF PerformFrameTick, TypeOK, barrierVars, groupVars, PCs
<1>4. CASE WorkerFrameWait(w)
  BY <1>0, <1>1, <1>4 DEF WorkerFrameWait, WorkerWait, Phases
<1>5. CASE WorkerFlipWait(w)
  BY <1>0, <1>1, <1>5 DEF WorkerFlipWait, WorkerWait, Phases
<1>6. CASE WorkerBusWait(w)
  BY <1>0, <1>1, <1>6, AfterType DEF WorkerBusWait, WorkerWait, Phases
<1>7. CASE WorkerMacro(w)
  <2>1. /\ macroBar' \in [Groups -> BarrierRecord]
        /\ pc' \in [Threads -> PCs]
        /\ asleep' \in [Threads -> BOOLEAN]
        /\ seen' \in [Threads -> Nat]
    BY <1>0, <1>7, AfterType, MacroWaitType DEF WorkerMacro
  <2>. QED
    BY <1>7, <2>1 DEF WorkerMacro, TypeOK, groupVars, PCs
<1>. QED
  BY <1>2, <1>3, <1>4, <1>5, <1>6, <1>7 DEF WorkerStep

LEMMA NextType == TypeOK /\ [Next]_vars => TypeOK'
<1>. SUFFICES ASSUME TypeOK, [Next]_vars PROVE TypeOK'
  OBVIOUS
<1>1. CASE MainStep
  BY <1>1, MainStepType
<1>2. CASE \E w \in Workers : WorkerStep(w)
  BY <1>2, WorkerStepType
<1>3. CASE UNCHANGED vars
  BY <1>3 DEF vars, barrierVars, threadVars, groupVars, TypeOK
<1>. QED
  BY <1>1, <1>2, <1>3 DEF Next, Terminating

\* The variables of the protocol always have their types; in particular no
\* barrier is ever left with a count of zero.
THEOREM TypeCorrect == Spec => []TypeOK
<1>1. Init => TypeOK
  BY InitType
<1>2. TypeOK /\ [Next]_vars => TypeOK'
  BY NextType
<1>. QED
  BY <1>1, <1>2, PTL DEF Spec

-----------------------------------------------------------------------------
(* What a release means for a worker: the derived quantities of the invariant. *)

\* The derived quantities of the invariant are integers.
LEMMA IntFacts ==
  ASSUME TypeOK
  PROVE  /\ F \in Int /\ B \in Int /\ M \in Int /\ K \in Int
         /\ ZeroWaits \in {0, 1}
         /\ \A b \in Phases : bar[b].generation \in Nat /\ bar[b] \in BarrierRecord
         /\ F = bar["frame"].generation - ZeroWaits
         /\ B = bar["flip"].generation /\ M = bar["bus"].generation
         /\ mainTick \in Int /\ K = mainTick - StartTick
<1>1. ZeroWaits \in {0, 1}
  BY DEF ZeroWaits
<1>2. \A b \in Phases : bar[b].generation \in Nat /\ bar[b] \in BarrierRecord
  BY DEF TypeOK, BarrierRecord
<1>3. {"frame", "flip", "bus"} = Phases
  BY DEF Phases
<1>4. mainTick \in Int /\ StartTick \in Int
  BY ConstantFacts DEF TypeOK
<1>. QED
  BY <1>1, <1>2, <1>3, <1>4 DEF F, B, M, K

LEMMA RoundFacts ==
  ASSUME TypeOK, NEW w \in Workers
  PROVE  /\ Round(w) \in Int
         /\ currTick[w] \in Nat
         /\ pc[w] \in {"zero", "update"} => Round(w) = currTick[w] - StartTick
         /\ pc[w] \notin {"zero", "update"} =>
              Round(w) = currTick[w] - StartTick - TickStep[GroupOf[w]]
<1>1. currTick[w] \in Nat
  BY DEF TypeOK
<1>. QED
  BY <1>1, WorkerFacts, ConstantFacts DEF Round

\* What an invariant about a group and its workers sees of main.
SameView(g) ==
  /\ nextTimeTick'[g] = nextTimeTick[g]
  /\ tickOffset'[g] = tickOffset[g]
  /\ currTimeTick'[g] = currTimeTick[g]
  /\ TickOf(g)' = TickOf(g)
  /\ Updating(g)' <=> Updating(g)
  /\ MacroFreed(g)' <=> MacroFreed(g)

SameGens == F' = F /\ B' = B /\ M' = M

SameWorker(w) ==
  /\ pc'[w] = pc[w]
  /\ asleep'[w] = asleep[w]
  /\ seen'[w] = seen[w]
  /\ currTick'[w] = currTick[w]

\* A group main did not touch keeps its invariant.
LEMMA GroupUntouched ==
  ASSUME NEW g \in Groups, GroupInv(g), SameView(g)
  PROVE  GroupInv(g)'
  BY DEF GroupInv, SameView

\* The predicates on a group at a round, in an untouched view.
LEMMA ViewUntouched ==
  ASSUME NEW g \in Groups, NEW r \in Int, SameView(g), SameGens
  PROVE  /\ LiveAt(g, r)' <=> LiveAt(g, r)
         /\ IdleAt(g, r)' <=> IdleAt(g, r)
         /\ LastAt(g, r)' <=> LastAt(g, r)
         /\ Beyond(r)' <=> Beyond(r)
         /\ AgainAt(g, r)' <=> AgainAt(g, r)
<1>1. LiveAt(g, r)' <=> LiveAt(g, r)
  BY DEF SameView, SameGens, LiveAt, HasMacro
<1>2. IdleAt(g, r)' <=> IdleAt(g, r)
  BY DEF SameView, IdleAt
<1>3. LastAt(g, r)' <=> LastAt(g, r)
  BY DEF SameView, LastAt
<1>4. Beyond(r)' <=> Beyond(r)
  BY DEF SameGens, Beyond
<1>. QED
  BY <1>1, <1>2, <1>3, <1>4 DEF AgainAt, SameGens, Gens

\* A worker that neither moved nor saw anything move keeps its invariant.
LEMMA WorkerUntouched ==
  ASSUME TypeOK, NEW w \in Workers, WorkerInv(w), SameWorker(w), SameGens,
         SameView(GroupOf[w]),
         macroBar'[GroupOf[w]].generation = macroBar[GroupOf[w]].generation
  PROVE  WorkerInv(w)'
<1>. DEFINE g == GroupOf[w]
<1>1. PICK r \in Int : r = Round(w)
  BY RoundFacts
<1>2. Round(w)' = r
  BY <1>1 DEF Round, SameWorker
<1>3. g \in Groups /\ TickStep[g] \in Nat
  BY WorkerFacts
<1>4. AfterBus(w)' = AfterBus(w) /\ MacroReleased(w)' = MacroReleased(w)
  BY DEF SameWorker, AfterBus, AfterLoop, LoopHead, Active, ExtraActive, HasMacro,
         MacroReleased, Released
<1>5. r + TickStep[g] \in Int
  BY <1>3
<1>6. BeforeBus(w, g, r)'
  <2>1. BeforeBus(w, g, r)
    BY <1>1 DEF WorkerInv
  <2>. QED
    BY <2>1, <1>3, ViewUntouched DEF BeforeBus, SameWorker, SameGens, Gens, ZeroWaits
<1>7. AtBus(w, g, r)'
  <2>1. AtBus(w, g, r)
    BY <1>1 DEF WorkerInv
  <2>. QED
    BY <2>1, <1>3, <1>4, <1>5, ViewUntouched DEF AtBus, SameWorker, SameGens, Gens
<1>8. AfterBusInv(w, g, r)'
  <2>1. AfterBusInv(w, g, r)
    BY <1>1 DEF WorkerInv
  <2>. QED
    BY <2>1, <1>3, <1>4, <1>5, ViewUntouched
    DEF AfterBusInv, SameWorker, ExtraActive, Active, HasMacro
<1>. QED
  BY <1>1, <1>2, <1>6, <1>7, <1>8 DEF WorkerInv, SameWorker

-----------------------------------------------------------------------------
(* What an arrival does to the generations, and to the threads it releases. *)

\* The barrier b has been released once more.
Bumped(b) ==
  /\ F' = IF b = "frame" THEN F + 1 ELSE F
  /\ B' = IF b = "flip" THEN B + 1 ELSE B
  /\ M' = IF b = "bus" THEN M + 1 ELSE M

LEMMA TakeGens ==
  ASSUME TypeOK, NEW b \in Phases, NEW n \in Nat, ~Overflows(bar[b], n),
         bar' = [bar EXCEPT ![b] = Take(@, n)]
  PROVE  /\ Completes(bar[b], n) => Bumped(b)
         /\ ~Completes(bar[b], n) => SameGens
<1>1. bar \in [Phases -> BarrierRecord] /\ bar[b] \in BarrierRecord
  BY DEF TypeOK
<1>2. bar'[b] = Take(bar[b], n) /\ \A c \in Phases : c # b => bar'[c] = bar[c]
  BY <1>1
<1>3. /\ Completes(bar[b], n) => bar'[b].generation = bar[b].generation + 1
      /\ ~Completes(bar[b], n) => bar'[b].generation = bar[b].generation
  BY <1>1, <1>2, TakeFields
<1>4. /\ F = bar["frame"].generation - ZeroWaits
      /\ B = bar["flip"].generation
      /\ M = bar["bus"].generation
      /\ F' = bar'["frame"].generation - ZeroWaits
      /\ B' = bar'["flip"].generation
      /\ M' = bar'["bus"].generation
  BY DEF F, B, M, ZeroWaits
<1>5. Phases = {"frame", "flip", "bus"} /\ bar[b].generation \in Nat /\ ZeroWaits \in {0, 1}
  BY <1>1 DEF Phases, BarrierRecord, ZeroWaits
<1>. QED
  BY <1>2, <1>3, <1>4, <1>5 DEF Bumped, SameGens

\* A group main answers for has no worker at an update.
LEMMA AnsweredNotLive ==
  ASSUME NEW g \in Groups, NEW r \in Int, tickOffset[g] # 0, ~MacroFreed(g)
  PROVE  ~LiveAt(g, r)
  BY DEF LiveAt, Updating

\* The release of any barrier leaves alone a worker main answered for.
LEMMA ReleaseAnswered ==
  ASSUME TypeOK, NEW w \in Workers, NEW b \in Phases, Bumped(b),
         WorkerInv(w), SameWorker(w), SameView(GroupOf[w]),
         macroBar'[GroupOf[w]].generation = macroBar[GroupOf[w]].generation,
         tickOffset[GroupOf[w]] # 0, ~MacroFreed(GroupOf[w])
  PROVE  WorkerInv(w)'
<1>. DEFINE g == GroupOf[w]
<1>1. PICK r \in Int : r = Round(w)
  BY RoundFacts
<1>2. Round(w)' = r
  BY <1>1 DEF Round, SameWorker
<1>3. g \in Groups /\ TickStep[g] \in Nat
  BY WorkerFacts
<1>4. AfterBus(w)' = AfterBus(w) /\ MacroReleased(w)' = MacroReleased(w)
  BY DEF SameWorker, AfterBus, AfterLoop, LoopHead, Active, ExtraActive, HasMacro,
         MacroReleased, Released
<1>5. r + TickStep[g] \in Int
  BY <1>3
<1>6. ~LiveAt(g, r) /\ ~LiveAt(g, r + TickStep[g])
  BY <1>3, <1>5, AnsweredNotLive
<1>7. /\ IdleAt(g, r)' <=> IdleAt(g, r)
      /\ LastAt(g, r)' <=> LastAt(g, r)
  BY DEF SameView, IdleAt, LastAt
<1>8. Beyond(r) => Beyond(r)' /\ M' # r
  BY IntFacts DEF Beyond, Bumped
<1>9. BeforeBus(w, g, r)'
  BY <1>1, <1>6 DEF WorkerInv, BeforeBus, SameWorker
<1>10. AtBus(w, g, r)'
  <2>1. AtBus(w, g, r)
    BY <1>1 DEF WorkerInv
  <2>2. ASSUME pc[w] = "bus"
        PROVE  /\ asleep[w] /\ M # r /\ seen[w] = r /\ r <= M
               /\ AfterBus(w) = "macro" => Beyond(r) /\ IdleAt(g, r)
               /\ AfterBus(w) = "exit" => Beyond(r) /\ LastAt(g, r)
               /\ AfterBus(w) \notin {"zero", "update"}
    BY <2>1, <2>2, <1>6 DEF AtBus, AgainAt
  <2>3. AfterBus(w) \in {"macro", "exit", "zero", "update"}
    BY DEF AfterBus, AfterLoop, LoopHead
  <2>4. r <= M /\ M # r => r <= M' /\ M' # r
    BY IntFacts DEF Bumped
  <2>. QED
    BY <2>2, <2>3, <2>4, <1>4, <1>7, <1>8 DEF AtBus, SameWorker
<1>11. AfterBusInv(w, g, r)'
  <2>1. AfterBusInv(w, g, r)
    BY <1>1 DEF WorkerInv
  <2>. QED
    BY <2>1, <1>4, <1>6, <1>7, <1>8
    DEF AfterBusInv, AgainAt, SameWorker, ExtraActive, Active, HasMacro
<1>. QED
  BY <1>1, <1>2, <1>9, <1>10, <1>11 DEF WorkerInv, SameWorker

\* The release of the frame barrier or of the flip barrier frees the workers
\* it holds.
LEMMA ReleaseBlocked ==
  ASSUME TypeOK, NEW w \in Workers, NEW b \in {"frame", "flip"}, Bumped(b),
         WorkerInv(w), SameWorker(w), SameView(GroupOf[w]),
         Blocked(w, b)
  PROVE  WorkerInv(w)'
<1>. DEFINE g == GroupOf[w]
<1>1. PICK r \in Int : r = Round(w)
  BY RoundFacts
<1>2. Round(w)' = r
  BY <1>1 DEF Round, SameWorker
<1>3. g \in Groups
  BY WorkerFacts
<1>4. pc[w] \in {"zero", "frame", "flip"} /\ asleep[w] /\ seen[w] = bar[b].generation
  BY DEF Blocked, Released
<1>5. LiveAt(g, r)
  BY <1>1, <1>4 DEF WorkerInv, BeforeBus
<1>6. LiveAt(g, r)'
  <2>1. b # "bus" /\ M' = M
    BY DEF Bumped
  <2>. QED
    BY <2>1, <1>5 DEF SameView, LiveAt, HasMacro
<1>7. BeforeBus(w, g, r)'
  <2>1. BeforeBus(w, g, r)
    BY <1>1 DEF WorkerInv
  <2>2. CASE b = "frame" /\ pc[w] = "zero"
    <3>1. seen[w] = 0 /\ Mode = "medium" /\ r = 0 /\ F \in {-1, 0} /\ B = 0 /\ M = 0
      BY <2>1, <2>2, <1>4 DEF BeforeBus, Gens
    <3>2. F = -1
      BY <3>1, <2>2, <1>4 DEF F, ZeroWaits
    <3>3. Gens(0, 0, 0)'
      BY <3>1, <3>2, <2>2 DEF Gens, Bumped
    <3>. QED
      BY <3>1, <3>3, <2>2, <1>4, <1>6 DEF BeforeBus, SameWorker
  <2>3. CASE b = "frame" /\ pc[w] = "frame"
    BY <2>1, <2>3, <1>4, <1>6, IntFacts DEF BeforeBus, SameWorker, Bumped, Gens, ZeroWaits
  <2>4. CASE b = "flip" /\ pc[w] = "flip"
    BY <2>1, <2>4, <1>4, <1>6, IntFacts DEF BeforeBus, SameWorker, Bumped, Gens
  <2>. QED
    BY <2>2, <2>3, <2>4 DEF Blocked
<1>8. AtBus(w, g, r)' /\ AfterBusInv(w, g, r)'
  BY <1>4 DEF AtBus, AfterBusInv, SameWorker
<1>. QED
  BY <1>1, <1>2, <1>4, <1>7, <1>8 DEF WorkerInv, SameWorker

\* When the message bus is released, main is still at it, so a worker that has
\* arrived there becomes idle, has made its last update, or is in the next one
\* if its group has no macro barrier.
LEMMA BusOutcome ==
  ASSUME TypeOK, NEW w \in Workers, Bumped("bus"), SameView(GroupOf[w]),
         GroupInv(GroupOf[w]), pc[Main] = "bus", M = K, StartTick <= mainTick,
         NEW r \in Int, r = currTick[w] - StartTick - TickStep[GroupOf[w]],
         LiveAt(GroupOf[w], r), Gens(r + 1, r + 1, r)
  PROVE  /\ Beyond(r)'
         /\ IdleAt(GroupOf[w], r)'
         /\ AfterBus(w) \in {"macro", "exit", "zero", "update"}
         /\ AfterBus(w) = "macro" => HasMacro(GroupOf[w]) /\ ExtraActive(currTick[w])
         /\ AfterBus(w) = "exit" => LastAt(GroupOf[w], r)'
         /\ AfterBus(w) \in {"zero", "update"} =>
              /\ AgainAt(GroupOf[w], r + TickStep[GroupOf[w]])'
              /\ AfterBus(w) = "update"
              /\ currTick[w] < EndTick
<1>. DEFINE g == GroupOf[w]
<1>. DEFINE s == TickStep[g]
<1>1. g \in Groups /\ s \in Nat /\ s > 0 /\ currTick[w] \in Nat /\ StartTick \in Nat
      /\ EndTick \in Nat
  BY WorkerFacts, RoundFacts, ConstantFacts
<1>2. F \in Int /\ B \in Int /\ M \in Int /\ K \in Int
  BY IntFacts
<1>3. ~MacroFreed(g) /\ TickOf(g) = K
  BY DEF MacroFreed, TickOf, Counted
<1>4. M = r
  BY DEF Gens
<1>5. nextTimeTick[g] = r + s /\ Updating(g) /\ tickOffset[g] = 0
  <2>1. tickOffset[g] = 0
    BY <1>3 DEF LiveAt, Updating
  <2>2. Updating(g)
    BY <2>1 DEF Updating
  <2>. QED
    BY <2>1, <2>2, <1>1, <1>2, <1>3, <1>4 DEF GroupInv
<1>6. Beyond(r)'
  BY <1>2 DEF Beyond, Bumped, Gens
<1>7. IdleAt(g, r)'
  BY <1>3, <1>5 DEF IdleAt, SameView
<1>8. AfterBus(w) \in {"macro", "exit", "zero", "update"}
  BY DEF AfterBus, AfterLoop, LoopHead
<1>9. AfterBus(w) = "macro" => HasMacro(g) /\ ExtraActive(currTick[w])
  BY DEF AfterBus, AfterLoop, LoopHead
<1>10. AfterBus(w) = "exit" => LastAt(g, r)'
  <2>1. AfterBus(w) = "exit" => ~(currTick[w] < EndTick)
    BY DEF AfterBus, AfterLoop, LoopHead, Active
  <2>. QED
    BY <2>1, <1>1, <1>5 DEF LastAt, SameView
<1>11. AfterBus(w) \in {"zero", "update"} =>
         AgainAt(g, r + s)' /\ AfterBus(w) = "update" /\ currTick[w] < EndTick
  <2>. SUFFICES ASSUME AfterBus(w) \in {"zero", "update"}
                PROVE  AgainAt(g, r + s)' /\ AfterBus(w) = "update" /\ currTick[w] < EndTick
    OBVIOUS
  <2>1. currTick[w] < EndTick
    BY DEF AfterBus, AfterLoop, LoopHead, Active
  <2>2. ~HasMacro(g)
    BY <1>1, <2>1 DEF AfterBus, ExtraActive
  <2>3. s = 1
    BY <1>1, <2>2 DEF HasMacro
  <2>4. AfterBus(w) = "update"
    <3>1. 0 <= K
      BY <1>1, IntFacts
    <3>. QED
      BY <1>1, <1>2, <1>4, <2>3, <3>1 DEF AfterBus, AfterLoop, LoopHead
  <2>5. Gens(r + s, r + s, r + s)'
    BY <1>1, <1>2, <2>3 DEF Gens, Bumped
  <2>6. LiveAt(g, r + s)'
    BY <1>1, <1>2, <1>3, <1>4, <1>5, <2>2, <2>3 DEF LiveAt, SameView, Bumped, HasMacro
  <2>. QED
    BY <2>1, <2>4, <2>5, <2>6 DEF AgainAt
<1>. QED
  BY <1>6, <1>7, <1>8, <1>9, <1>10, <1>11

\* A worker held by the message bus keeps its invariant when it is released.
LEMMA ReleaseAtBus ==
  ASSUME TypeOK, NEW w \in Workers, Bumped("bus"),
         WorkerInv(w), SameWorker(w), SameView(GroupOf[w]), GroupInv(GroupOf[w]),
         Blocked(w, "bus"), pc[Main] = "bus", M = K, StartTick <= mainTick
  PROVE  WorkerInv(w)'
<1>. DEFINE g == GroupOf[w]
<1>1. PICK r \in Int : r = Round(w)
  BY RoundFacts
<1>2. Round(w)' = r
  BY <1>1 DEF Round, SameWorker
<1>3. pc[w] = "bus" /\ asleep[w] /\ seen[w] = M
  BY DEF Blocked, Released, M
<1>4. LiveAt(g, r) /\ Gens(r + 1, r + 1, r) /\ seen[w] = r
  BY <1>1, <1>3 DEF WorkerInv, AtBus
<1>5. r = currTick[w] - StartTick - TickStep[g]
  BY <1>1, <1>3, RoundFacts
<1>6. M' = r + 1
  BY <1>3, <1>4 DEF Bumped
<1>7. AfterBus(w)' = AfterBus(w)
  BY DEF SameWorker, AfterBus, AfterLoop, LoopHead, Active, ExtraActive, HasMacro
<1>8. AtBus(w, g, r)'
  BY <1>3, <1>4, <1>5, <1>6, <1>7, BusOutcome DEF AtBus, SameWorker
<1>9. BeforeBus(w, g, r)' /\ AfterBusInv(w, g, r)'
  BY <1>3 DEF BeforeBus, AfterBusInv, SameWorker
<1>. QED
  BY <1>1, <1>2, <1>3, <1>8, <1>9 DEF WorkerInv, SameWorker

-----------------------------------------------------------------------------
(* The induction. *)

\* Main's step leaves true what the workers of g rely on.  A worker relies on
\* its group being live only in the tick the message bus is in.
Keeps(g) ==
  \A r \in Int :
    /\ M = r /\ LiveAt(g, r) => LiveAt(g, r)'
    /\ HasMacro(g) /\ IdleAt(g, r) => IdleAt(g, r)'
    /\ LastAt(g, r) => LastAt(g, r)'

\* A worker that did not move, in a step that releases nobody.
LEMMA WorkerKept ==
  ASSUME TypeOK, NEW w \in Workers, WorkerInv(w), SameWorker(w), SameGens,
         Keeps(GroupOf[w]),
         macroBar'[GroupOf[w]].generation = macroBar[GroupOf[w]].generation
  PROVE  WorkerInv(w)'
<1>. DEFINE g == GroupOf[w]
<1>1. PICK r \in Int : r = Round(w)
  BY RoundFacts
<1>2. Round(w)' = r
  BY <1>1 DEF Round, SameWorker
<1>3. g \in Groups /\ TickStep[g] \in Nat
  BY WorkerFacts
<1>4. /\ AfterBus(w)' = AfterBus(w)
      /\ MacroReleased(w)' = MacroReleased(w)
      /\ AfterBus(w) = "macro" => HasMacro(g)
  BY DEF SameWorker, AfterBus, AfterLoop, LoopHead, Active, ExtraActive, HasMacro,
         MacroReleased, Released
<1>. DEFINE q == r + TickStep[g]
<1>6. q \in Int
  BY <1>3
<1>7. /\ M = r /\ LiveAt(g, r) => LiveAt(g, r)'
      /\ HasMacro(g) /\ IdleAt(g, r) => IdleAt(g, r)'
      /\ LastAt(g, r) => LastAt(g, r)'
      /\ M = q /\ LiveAt(g, q) => LiveAt(g, q)'
  BY <1>6 DEF Keeps
<1>8. Beyond(r) => Beyond(r)'
  BY DEF SameGens, Beyond
<1>9. AgainAt(g, q) => AgainAt(g, q)'
  BY <1>7 DEF AgainAt, SameGens, Gens
<1>. HIDE DEF q
<1>10. BeforeBus(w, g, r)'
  <2>1. BeforeBus(w, g, r)
    BY <1>1 DEF WorkerInv
  <2>2. ASSUME pc[w] \in {"zero", "update", "frame", "flip"}
        PROVE  M = r
    BY <2>1, <2>2 DEF BeforeBus, Gens
  <2>3. pc[w] \in {"zero", "update", "frame", "flip"} => LiveAt(g, r)'
    BY <2>1, <2>2, <1>7 DEF BeforeBus
  <2>. QED
    BY <2>1, <2>3 DEF BeforeBus, SameWorker, SameGens, Gens, ZeroWaits
<1>11. AtBus(w, g, r)'
  <2>1. AtBus(w, g, r)
    BY <1>1 DEF WorkerInv
  <2>. SUFFICES ASSUME pc[w] = "bus" PROVE AtBus(w, g, r)'
    BY DEF AtBus, SameWorker
  <2>2. CASE asleep[w] => M = r
    BY <2>1, <2>2, <1>7 DEF AtBus, SameWorker, SameGens, Gens
  <2>3. CASE asleep[w] /\ M # r
    BY <2>1, <2>3, <1>4, <1>7, <1>8, <1>9 DEF AtBus, SameWorker, SameGens, q
  <2>. QED
    BY <2>2, <2>3
<1>12. AfterBusInv(w, g, r)'
  <2>1. AfterBusInv(w, g, r)
    BY <1>1 DEF WorkerInv
  <2>. QED
    BY <2>1, <1>4, <1>7, <1>8, <1>9
    DEF AfterBusInv, SameWorker, ExtraActive, Active, HasMacro, q
<1>. QED
  BY <1>1, <1>2, <1>10, <1>11, <1>12 DEF WorkerInv, SameWorker

\* In particular when the group looks as before.
LEMMA ViewKeeps ==
  ASSUME NEW g \in Groups, SameView(g), SameGens
  PROVE  Keeps(g)
  BY ViewUntouched DEF Keeps

\* Main keeps its invariant while it and the barriers stand still.
LEMMA MainKept ==
  ASSUME TypeOK, MainInv, SameGens,
         UNCHANGED <<pc[Main], asleep[Main], seen[Main], next, mainTick, tickOffset>>
  PROVE  MainInv'
<1>1. K' = K /\ ZeroWaits' = ZeroWaits
  BY DEF K, ZeroWaits
<1>. QED
  BY <1>1 DEF MainInv, SameGens, Gens, HasMacro

\* A step of a worker leaves the view of every group but for its macro barrier.
LEMMA WorkerStepView ==
  ASSUME UNCHANGED <<pc[Main], asleep[Main], seen[Main], next, mainTick, groupVars>>,
         NEW g \in Groups
  PROVE  /\ GroupInv(g) => GroupInv(g)'
         /\ macroBar'[g].generation = macroBar[g].generation => SameView(g)
<1>1. /\ TickOf(g)' = TickOf(g)
      /\ Updating(g)' <=> Updating(g)
      /\ nextTimeTick' = nextTimeTick /\ currTimeTick' = currTimeTick
      /\ tickOffset' = tickOffset
  BY DEF groupVars, TickOf, Counted, K, Updating
<1>2. macroBar'[g].generation = macroBar[g].generation =>
        (MacroFreed(g)' <=> MacroFreed(g))
  BY DEF MacroFreed, Released
<1>. QED
  BY <1>1, <1>2 DEF GroupInv, SameView

-----------------------------------------------------------------------------
(* Arrivals at the three shared barriers. *)

\* The threads of S, none of which had arrived, arrive at b together.
Arrives(b, S) ==
  ArrivedAt(b)' = IF ArrivedAt(b) \cup S = Threads THEN {} ELSE ArrivedAt(b) \cup S

\* The barrier record r is for the threads of T, and those of A have arrived.
CountsFor(r, T, A) ==
  /\ IsFiniteSet(T) /\ A \subseteq T
  /\ r \in BarrierRecord
  /\ r.threshold = Cardinality(T)
  /\ r.count = Cardinality(T) - Cardinality(A)

Newcomers(S, T, A) == S \subseteq T /\ S \cap A = {}

\* A barrier has room for any newcomers, is released by the last of them, and
\* goes on counting.
LEMMA RoomFor ==
  ASSUME NEW r, NEW T, NEW A, NEW S, CountsFor(r, T, A), Newcomers(S, T, A)
  PROVE  /\ Cardinality(S) \in Nat
         /\ ~Overflows(r, Cardinality(S))
         /\ Cardinality(S) <= r.count
         /\ Completes(r, Cardinality(S)) <=> A \cup S = T
         /\ A \cup S = T => CountsFor(Take(r, Cardinality(S)), T, {})
         /\ A \cup S # T => CountsFor(Take(r, Cardinality(S)), T, A \cup S)
<1>. USE DEF CountsFor, Newcomers
<1>1. IsFiniteSet(A) /\ IsFiniteSet(S)
  BY FS_Subset
<1>2. Cardinality(A) \in Nat /\ Cardinality(S) \in Nat /\ Cardinality(T) \in Nat
  BY <1>1, FS_CardinalityType
<1>3. Cardinality(A \cup S) = Cardinality(A) + Cardinality(S)
  <2>1. Cardinality(A \cup S) = Cardinality(A) + Cardinality(S) - Cardinality(A \cap S)
    BY <1>1, FS_Union
  <2>2. Cardinality(A \cap S) = 0
    <3>1. A \cap S = {}
      OBVIOUS
    <3>. QED
      BY <3>1, FS_EmptySet
  <2>. QED
    BY <2>1, <2>2, <1>2
<1>4. /\ Cardinality(A \cup S) <= Cardinality(T)
      /\ Cardinality(A \cup S) = Cardinality(T) <=> A \cup S = T
  BY FS_Subset
<1>5. PICK n \in Nat : n = Cardinality(S)
  BY <1>2
<1>6. n <= r.count /\ ~Overflows(r, n)
  BY <1>2, <1>3, <1>4, <1>5 DEF Overflows
<1>7. Completes(r, n) <=> A \cup S = T
  BY <1>2, <1>3, <1>4, <1>5 DEF Completes
<1>8. /\ Take(r, n) \in BarrierRecord
      /\ Take(r, n).threshold = r.threshold
      /\ Completes(r, n) => Take(r, n).count = r.threshold
      /\ ~Completes(r, n) => Take(r, n).count = r.count - n
  BY <1>6, TakeFields, TakeType
<1>9. CASE A \cup S = T
  <2>1. Cardinality({}) = 0
    BY FS_EmptySet
  <2>. QED
    BY <2>1, <1>2, <1>5, <1>6, <1>7, <1>8, <1>9
<1>10. CASE A \cup S # T
  <2>1. Take(r, n).count = Cardinality(T) - Cardinality(A \cup S)
    BY <1>2, <1>3, <1>5, <1>7, <1>8, <1>10
  <2>. QED
    BY <2>1, <1>5, <1>6, <1>7, <1>8, <1>10
<1>. QED
  BY <1>9, <1>10

\* The invariant of a shared barrier is that it counts the arrived threads.
LEMMA CountMeans ==
  ASSUME bar \in [Phases -> BarrierRecord], NEW b \in Phases
  PROVE  CountInv(b) <=> CountsFor(bar[b], Threads, ArrivedAt(b))
  BY ConstantFacts, ThreadCount DEF ArrivedAt, CountInv, CountsFor

\* The barrier has room for every arrival, and is released by the last thread.
LEMMA ArrivalFits ==
  ASSUME TypeOK, NEW b \in Phases, CountInv(b),
         NEW S \in SUBSET Threads, S \cap ArrivedAt(b) = {}
  PROVE  /\ ~Overflows(bar[b], Cardinality(S))
         /\ Cardinality(S) <= bar[b].count
         /\ Completes(bar[b], Cardinality(S)) <=> ArrivedAt(b) \cup S = Threads
         /\ ArrivedAt(b) \cup S = Threads =>
              CountsFor(Take(bar[b], Cardinality(S)), Threads, {})
         /\ ArrivedAt(b) \cup S # Threads =>
              CountsFor(Take(bar[b], Cardinality(S)), Threads, ArrivedAt(b) \cup S)
<1>1. CountsFor(bar[b], Threads, ArrivedAt(b))
  BY CountMeans DEF TypeOK
<1>2. Newcomers(S, Threads, ArrivedAt(b))
  BY DEF Newcomers
<1>3. /\ ~Overflows(bar[b], Cardinality(S))
      /\ Cardinality(S) <= bar[b].count
      /\ Completes(bar[b], Cardinality(S)) <=> ArrivedAt(b) \cup S = Threads
  BY ONLY <1>1, <1>2, RoomFor
<1>4. /\ ArrivedAt(b) \cup S = Threads =>
           CountsFor(Take(bar[b], Cardinality(S)), Threads, {})
      /\ ArrivedAt(b) \cup S # Threads =>
           CountsFor(Take(bar[b], Cardinality(S)), Threads, ArrivedAt(b) \cup S)
  BY ONLY <1>1, <1>2, RoomFor
<1>. QED
  BY <1>3, <1>4

\* The counters stay what they were made to count.
LEMMA CountKept ==
  ASSUME TypeOK, TypeOK', \A b \in Phases : CountInv(b), NEW b \in Phases,
         NEW S \in SUBSET Threads, S \cap ArrivedAt(b) = {},
         bar' = [bar EXCEPT ![b] = Take(@, Cardinality(S))],
         Arrives(b, S), \A c \in Phases \ {b} : ArrivedAt(c)' = ArrivedAt(c)
  PROVE  \A c \in Phases : CountInv(c)'
<1>1. bar'[b] = Take(bar[b], Cardinality(S)) /\ \A c \in Phases : c # b => bar'[c] = bar[c]
  BY DEF TypeOK
<1>2. \A c \in Phases \ {b} : CountInv(c)'
  BY <1>1 DEF CountInv, BarrierCount
<1>3. CountsFor(bar[b], Threads, ArrivedAt(b))'
  <2>1. CountsFor(bar'[b], Threads, ArrivedAt(b)')
    BY <1>1, ArrivalFits DEF Arrives
  <2>. QED
    BY <2>1 DEF CountsFor
<1>4. CountInv(b)'
  BY <1>3, ThreadCount DEF CountInv, CountsFor, BarrierCount
<1>. QED
  BY <1>2, <1>4

\* A step in which nobody arrives.
LEMMA CountUnmoved ==
  ASSUME \A b \in Phases : CountInv(b), bar' = bar,
         \A b \in Phases : ArrivedAt(b)' = ArrivedAt(b)
  PROVE  \A b \in Phases : CountInv(b)'
  BY DEF CountInv, BarrierCount

\* A worker that main answers for is not held by the barrier itself.
LEMMA AnsweredNotBlocked ==
  ASSUME TypeOK, NEW w \in Workers, WorkerInv(w), NEW b \in Phases,
         pc[Main] = b, tickOffset[GroupOf[w]] # 0
  PROVE  /\ ~Blocked(w, b)
         /\ pc[w] \notin {"zero", "update", "frame", "flip"}
         /\ pc[w] = "bus" => asleep[w] /\ seen[w] < M
<1>. DEFINE g == GroupOf[w]
<1>1. PICK r \in Int : r = Round(w)
  BY RoundFacts
<1>2. ~LiveAt(g, r)
  BY WorkerFacts, AnsweredNotLive DEF MacroFreed, Phases
<1>3. pc[w] \notin {"zero", "update", "frame", "flip"}
  BY <1>1, <1>2 DEF WorkerInv, BeforeBus
<1>4. pc[w] = "bus" => asleep[w] /\ M # r /\ seen[w] = r /\ r <= M
  BY <1>1, <1>2 DEF WorkerInv, AtBus
<1>5. M \in Int /\ M = bar["bus"].generation
  BY IntFacts
<1>6. pc[w] = "bus" => seen[w] < M
  BY <1>4, <1>5
<1>7. ~Blocked(w, b)
  BY <1>3, <1>4, <1>5 DEF Blocked, Released, Phases
<1>. QED
  BY <1>3, <1>4, <1>6, <1>7

\* A thread stands before the wait on b.
AtBarrier(t, b) == pc[t] = b \/ (b = "frame" /\ pc[t] = "zero")

\* Who is held by which barrier after t enters the wait on b.
LEMMA EnterBlocks ==
  ASSUME TypeOK, NEW t \in Threads, NEW b \in Phases, NEW after,
         Enter(t, b, after), AtBarrier(t, b)
  PROVE  /\ \A c \in Phases : ~Blocked(t, c)
         /\ \A c \in Phases : Blocked(t, c)' <=> c = b /\ ~Completes(bar[b], 1)
         /\ \A u \in Threads \ {t} :
              /\ \A c \in Phases \ {b} : Blocked(u, c)' <=> Blocked(u, c)
              /\ ~Completes(bar[b], 1) => (Blocked(u, b)' <=> Blocked(u, b))
              /\ Completes(bar[b], 1) /\ seen[u] <= bar[b].generation => ~Blocked(u, b)'
<1>1. /\ bar \in [Phases -> BarrierRecord] /\ bar[b] \in BarrierRecord
      /\ pc \in [Threads -> PCs] /\ asleep \in [Threads -> BOOLEAN]
      /\ seen \in [Threads -> Nat]
      /\ bar[b].generation \in Nat
  BY DEF TypeOK, PCs, BarrierRecord
<1>2. ~asleep[t] /\ ~Overflows(bar[b], 1) /\ bar' = [bar EXCEPT ![b] = Take(@, 1)]
  BY DEF Enter, EnterWait
<1>3. bar'[b] = Take(bar[b], 1) /\ \A c \in Phases : c # b => bar'[c] = bar[c]
  BY <1>1, <1>2
<1>4. /\ Completes(bar[b], 1) => bar'[b].generation = bar[b].generation + 1
      /\ ~Completes(bar[b], 1) => bar'[b].generation = bar[b].generation
  BY <1>1, <1>2, <1>3, TakeFields
<1>5. \A u \in Threads \ {t} : pc'[u] = pc[u] /\ asleep'[u] = asleep[u] /\ seen'[u] = seen[u]
  BY <1>1 DEF Enter, EnterWait
<1>6. \A c \in Phases : ~Blocked(t, c)
  BY <1>2 DEF Blocked
<1>7. ASSUME NEW c \in Phases
      PROVE  Blocked(t, c)' <=> c = b /\ ~Completes(bar[b], 1)
  <2>1. CASE Completes(bar[b], 1)
    BY <1>2, <2>1 DEF Enter, EnterWait, Blocked
  <2>2. CASE ~Completes(bar[b], 1)
    <3>1. asleep'[t] /\ seen'[t] = bar[b].generation /\ pc' = pc
      BY <1>1, <2>2 DEF Enter, EnterWait
    <3>2. CASE c = b
      BY <3>1, <3>2, <2>2, <1>4 DEF Blocked, AtBarrier, Released
    <3>3. CASE c # b
      BY <3>1, <3>3 DEF Blocked, AtBarrier, Phases
    <3>. QED
      BY <3>2, <3>3
  <2>. QED
    BY <2>1, <2>2
<1>8. ASSUME NEW u \in Threads \ {t}
      PROVE  /\ \A c \in Phases \ {b} : Blocked(u, c)' <=> Blocked(u, c)
             /\ ~Completes(bar[b], 1) => (Blocked(u, b)' <=> Blocked(u, b))
             /\ Completes(bar[b], 1) /\ seen[u] <= bar[b].generation => ~Blocked(u, b)'
  <2>1. \A c \in Phases \ {b} : Blocked(u, c)' <=> Blocked(u, c)
    BY <1>3, <1>5 DEF Blocked, Released
  <2>2. ~Completes(bar[b], 1) => (Blocked(u, b)' <=> Blocked(u, b))
    BY <1>4, <1>5 DEF Blocked, Released
  <2>3. seen[u] \in Nat /\ seen'[u] = seen[u]
    BY <1>1, <1>5
  <2>4. Completes(bar[b], 1) /\ seen[u] <= bar[b].generation => ~Blocked(u, b)'
    BY <2>3, <1>1, <1>4 DEF Blocked, Released
  <2>. QED
    BY <2>1, <2>2, <2>4
<1>. QED
  BY <1>6, <1>7, <1>8

\* A worker that stands before a barrier has not arrived at it.
LEMMA WorkerNotArrived ==
  ASSUME IInv, NEW w \in Workers, NEW b \in Phases, AtBarrier(w, b), ~asleep[w]
  PROVE  /\ w \notin ArrivedAt(b)
         /\ {w} \in SUBSET Threads
         /\ {w} \cap ArrivedAt(b) = {}
         /\ Cardinality({w}) = 1
<1>1. TypeOK /\ WorkerInv(w)
  BY DEF IInv
<1>2. ~Blocked(w, b)
  BY DEF Blocked
<1>3. ~Answered(b, GroupOf[w])
  <2>1. pc[w] \in {"zero", "frame", "flip", "bus"}
    BY DEF AtBarrier, Phases
  <2>. QED
    BY <1>1, <2>1, AnsweredNotBlocked DEF Answered, Contributes
<1>. QED
  BY <1>2, <1>3, WorkerFacts, FS_Singleton DEF ArrivedAt

\* Once everybody has arrived at b, all that wait there saw this generation.
LEMMA AllArrived ==
  ASSUME IInv, NEW b \in Phases, NEW t \in Threads, ArrivedAt(b) \cup {t} = Threads,
         NEW u \in Threads \ {t}
  PROVE  /\ Blocked(u, b) \/ (u \in Workers /\ Answered(b, GroupOf[u]))
         /\ (b = "frame" /\ pc[u] = "zero") \/ pc[u] = b => seen[u] <= bar[b].generation
<1>1. TypeOK /\ \A w \in Workers : WorkerInv(w)
  BY DEF IInv
<1>2. Blocked(u, b) \/ (u \in Workers /\ Answered(b, GroupOf[u]))
  BY DEF ArrivedAt
<1>3. bar[b].generation \in Nat /\ M = bar["bus"].generation
  BY <1>1, IntFacts
<1>4. CASE Blocked(u, b)
  BY <1>2, <1>3, <1>4 DEF Blocked, Released
<1>5. CASE u \in Workers /\ Answered(b, GroupOf[u])
  <2>1. /\ pc[u] \notin {"zero", "update", "frame", "flip"}
        /\ pc[u] = "bus" => asleep[u] /\ seen[u] < M
    BY <1>1, <1>5, AnsweredNotBlocked DEF Answered, Contributes
  <2>2. seen[u] \in Nat
    BY <1>1 DEF TypeOK
  <2>. QED
    BY <1>2, <1>3, <2>1, <2>2 DEF Phases
<1>. QED
  BY <1>2, <1>4, <1>5

\* Nobody is held by a barrier that t has just released.
LEMMA NobodyHeld ==
  ASSUME IInv, NEW t \in Threads, NEW b \in Phases, NEW after,
         Enter(t, b, after), AtBarrier(t, b), Completes(bar[b], 1),
         ArrivedAt(b) \cup {t} = Threads, NEW u \in Threads
  PROVE  ~Blocked(u, b)'
<1>1. TypeOK
  BY DEF IInv
<1>2. CASE u = t
  BY <1>1, <1>2, EnterBlocks
<1>3. CASE u # t /\ AtBarrier(u, b)
  <2>1. seen[u] <= bar[b].generation
    BY <1>3, AllArrived DEF AtBarrier
  <2>. QED
    BY <1>1, <1>3, <2>1, EnterBlocks
<1>4. CASE u # t /\ ~AtBarrier(u, b)
  <2>1. pc'[u] = pc[u]
    BY <1>1, <1>4 DEF Enter, EnterWait, TypeOK
  <2>. QED
    BY <1>4, <2>1 DEF Blocked, AtBarrier
<1>. QED
  BY <1>2, <1>3, <1>4

\* A worker that enters the wait on b arrives there, and nowhere else.
LEMMA WorkerArrives ==
  ASSUME IInv, NEW w \in Workers, NEW b \in Phases, NEW after, AtBarrier(w, b),
         Enter(w, b, after), UNCHANGED <<next, mainTick, groupVars>>
  PROVE  /\ Arrives(b, {w})
         /\ \A c \in Phases \ {b} : ArrivedAt(c)' = ArrivedAt(c)
<1>1. TypeOK /\ CountInv(b)
  BY DEF IInv
<1>2. ~asleep[w]
  BY DEF Enter, EnterWait
<1>3. w \in Threads /\ Main \in Threads \ {w}
  BY WorkerFacts, ConstantFacts
<1>4. {w} \cap ArrivedAt(b) = {} /\ Cardinality({w}) = 1 /\ {w} \in SUBSET Threads
  BY <1>2, WorkerNotArrived
<1>5. Completes(bar[b], 1) <=> ArrivedAt(b) \cup {w} = Threads
  <2>1. Completes(bar[b], Cardinality({w})) <=> ArrivedAt(b) \cup {w} = Threads
    BY <1>1, <1>4, ArrivalFits
  <2>. QED
    BY <1>4, <2>1
<1>6. pc'[Main] = pc[Main] /\ asleep'[Main] = asleep[Main] /\ tickOffset' = tickOffset
  BY <1>1, <1>3 DEF Enter, EnterWait, TypeOK, groupVars
<1>7. ASSUME NEW c \in Phases \ {b}
      PROVE  ArrivedAt(c)' = ArrivedAt(c)
  <2>1. \A u \in Threads : Blocked(u, c)' <=> Blocked(u, c)
    BY <1>1, <1>3, EnterBlocks
  <2>2. \A g \in Groups : Answered(c, g)' <=> Answered(c, g)
    BY <1>3, <1>6, <2>1 DEF Answered, Contributes
  <2>. QED
    BY <2>1, <2>2, ConstantFacts DEF ArrivedAt
<1>8. CASE ~Completes(bar[b], 1)
  <2>1. \A u \in Threads : Blocked(u, b)' <=> Blocked(u, b) \/ u = w
    BY <1>1, <1>3, <1>8, EnterBlocks
  <2>2. \A g \in Groups : Answered(b, g)' <=> Answered(b, g)
    BY <1>3, <1>6, <2>1 DEF Answered, Contributes
  <2>3. ArrivedAt(b)' = ArrivedAt(b) \cup {w}
    BY <1>3, <2>1, <2>2, ConstantFacts DEF ArrivedAt
  <2>. QED
    BY <1>5, <1>7, <1>8, <2>3 DEF Arrives
<1>9. CASE Completes(bar[b], 1)
  <2>1. \A u \in Threads : ~Blocked(u, b)'
    BY <1>3, <1>5, <1>9, NobodyHeld
  <2>2. Blocked(Main, b)
    BY <1>3, <1>5, <1>9, AllArrived, ConstantFacts
  <2>3. \A g \in Groups : ~Answered(b, g)'
    BY <1>3, <1>6, <2>1, <2>2 DEF Answered, Blocked
  <2>4. ArrivedAt(b)' = {}
    BY <2>1, <2>3, ConstantFacts DEF ArrivedAt
  <2>. QED
    BY <1>5, <1>7, <1>9, <2>4 DEF Arrives
<1>. QED
  BY <1>7, <1>8, <1>9

\* Main arrives at b; when it leaves at once it starts over with the groups.
LEMMA MainArrives ==
  ASSUME IInv, NEW b \in Phases, NEW after, AtBarrier(Main, b),
         Enter(Main, b, after), UNCHANGED <<mainTick, groupVars>>,
         after # b \/ pc[Main] = "zero", pc[Main] = "zero" => next = 1,
         IF Completes(bar[b], 1) THEN next' = 1 ELSE next' = next
  PROVE  /\ {Main} \in SUBSET Threads /\ {Main} \cap ArrivedAt(b) = {}
         /\ Cardinality({Main}) = 1
         /\ Arrives(b, {Main})
         /\ \A c \in Phases \ {b} : ArrivedAt(c)' = ArrivedAt(c)
<1>1. TypeOK /\ CountInv(b) /\ Main \in Threads /\ Main \notin Workers
  BY ConstantFacts DEF IInv
<1>2. ~asleep[Main] /\ ~Blocked(Main, b)
  BY <1>1, EnterBlocks DEF Enter, EnterWait
<1>4. {Main} \cap ArrivedAt(b) = {} /\ Cardinality({Main}) = 1 /\ {Main} \in SUBSET Threads
  BY <1>1, <1>2, FS_Singleton DEF ArrivedAt
<1>5. Completes(bar[b], 1) <=> ArrivedAt(b) \cup {Main} = Threads
  <2>1. Completes(bar[b], Cardinality({Main})) <=> ArrivedAt(b) \cup {Main} = Threads
    BY <1>1, <1>4, ArrivalFits
  <2>. QED
    BY <1>4, <2>1
<1>6. tickOffset' = tickOffset /\ \A g \in Groups : ~(g < 1)
  BY ConstantFacts DEF groupVars
<1>7. ASSUME Completes(bar[b], 1), NEW c \in Phases, NEW g \in Groups
      PROVE  ~Answered(c, g)'
  BY <1>6, <1>7 DEF Answered
<1>8. ASSUME ~Completes(bar[b], 1)
      PROVE  asleep'[Main] /\ pc' = pc /\ next' = next
  BY <1>1, <1>8 DEF Enter, EnterWait, TypeOK
<1>9. ASSUME NEW c \in Phases, NEW g \in Groups, c # b
      PROVE  ~(pc[Main] = c /\ g < next)
  BY <1>6, <1>9 DEF AtBarrier
<1>10. ASSUME NEW c \in Phases \ {b}
       PROVE  ArrivedAt(c)' = ArrivedAt(c)
  <2>1. \A u \in Threads : Blocked(u, c)' <=> Blocked(u, c)
    BY <1>1, EnterBlocks
  <2>2. \A g \in Groups : ~Answered(c, g)'
    <3>1. CASE Completes(bar[b], 1)
      BY <1>7, <3>1
    <3>2. CASE ~Completes(bar[b], 1)
      BY <1>8, <1>9, <3>2 DEF Answered
    <3>. QED
      BY <3>1, <3>2
  <2>. QED
    BY <1>9, <2>1, <2>2, ConstantFacts DEF ArrivedAt, Answered
<1>11. CASE ~Completes(bar[b], 1)
  <2>1. \A u \in Threads : Blocked(u, b)' <=> Blocked(u, b) \/ u = Main
    BY <1>1, <1>11, EnterBlocks
  <2>2. \A g \in Groups : Answered(b, g)' <=> Answered(b, g)
    BY <1>1, <1>2, <1>6, <1>8, <1>11, <2>1 DEF Answered, Contributes
  <2>3. ArrivedAt(b)' = ArrivedAt(b) \cup {Main}
    BY <1>1, <2>1, <2>2, ConstantFacts DEF ArrivedAt
  <2>. QED
    BY <1>4, <1>5, <1>10, <1>11, <2>3 DEF Arrives
<1>12. CASE Completes(bar[b], 1)
  <2>1. \A u \in Threads : ~Blocked(u, b)'
    BY <1>1, <1>5, <1>12, NobodyHeld
  <2>2. ArrivedAt(b)' = {}
    BY <1>7, <1>12, <2>1, ConstantFacts DEF ArrivedAt
  <2>. QED
    BY <1>4, <1>5, <1>10, <1>12, <2>2 DEF Arrives
<1>. QED
  BY <1>4, <1>10, <1>11, <1>12

\* When main answers for a group, none of its workers has arrived, there is
\* room for all of them, and main itself is still missing.
LEMMA AnswerFits ==
  ASSUME IInv, NEW b \in Phases, Visiting(b), Contributes(b, next)
  PROVE  /\ WorkersOf(next) \in SUBSET Threads
         /\ WorkersOf(next) \cap ArrivedAt(b) = {}
         /\ Cardinality(WorkersOf(next)) <= bar[b].count
         /\ ~Overflows(bar[b], Cardinality(WorkersOf(next)))
         /\ ~Completes(bar[b], Cardinality(WorkersOf(next)))
         /\ ArrivedAt(b) \cup WorkersOf(next) # Threads
<1>1. TypeOK /\ CountInv(b) /\ \A w \in Workers : WorkerInv(w)
  BY DEF IInv
<1>2. next \in Groups /\ next \in Nat /\ pc[Main] = b /\ ~asleep[Main] /\ tickOffset[next] # 0
  BY ConstantFacts DEF Visiting, Contributes
<1>3. WorkersOf(next) \in SUBSET Threads
  BY ConstantFacts DEF WorkersOf
<1>4. ASSUME NEW w \in WorkersOf(next)
      PROVE  w \notin ArrivedAt(b)
  <2>1. w \in Workers /\ GroupOf[w] = next
    BY DEF WorkersOf
  <2>2. ~Blocked(w, b)
    BY <1>1, <1>2, <2>1, AnsweredNotBlocked
  <2>3. ~Answered(b, GroupOf[w])
    BY <1>2, <2>1 DEF Answered
  <2>. QED
    BY <2>2, <2>3 DEF ArrivedAt
<1>5. Main \notin ArrivedAt(b) \cup WorkersOf(next)
  BY <1>2, ConstantFacts DEF ArrivedAt, Blocked, WorkersOf
<1>. QED
  BY <1>1, <1>3, <1>4, <1>5, ArrivalFits, ConstantFacts

LEMMA AnswerArrives ==
  ASSUME IInv, NEW b \in Phases, Visiting(b), Contributes(b, next),
         bar' = [bar EXCEPT ![b] = Take(@, Cardinality(WorkersOf(next)))],
         next' = next + 1, UNCHANGED <<threadVars, tickOffset>>
  PROVE  /\ SameGens
         /\ \A c \in Phases : bar'[c].generation = bar[c].generation
         /\ Arrives(b, WorkersOf(next))
         /\ \A c \in Phases \ {b} : ArrivedAt(c)' = ArrivedAt(c)
<1>. DEFINE n == Cardinality(WorkersOf(next))
<1>1. TypeOK
  BY DEF IInv
<1>2. next \in Groups /\ next \in Nat /\ pc[Main] = b /\ ~asleep[Main]
  BY ConstantFacts DEF Visiting
<1>3. n \in Nat /\ ~Overflows(bar[b], n) /\ ~Completes(bar[b], n)
  BY <1>2, AnswerFits, GroupCount
<1>. HIDE DEF n
<1>4. bar' = [bar EXCEPT ![b] = Take(@, n)]
  BY DEF n
<1>5. SameGens
  BY <1>1, <1>3, <1>4, TakeGens
<1>6. \A c \in Phases : bar'[c].generation = bar[c].generation
  <2>1. bar \in [Phases -> BarrierRecord] /\ bar[b] \in BarrierRecord
    BY <1>1 DEF TypeOK
  <2>2. Take(bar[b], n).generation = bar[b].generation
    BY <1>3, <2>1, TakeFields
  <2>. QED
    BY <1>4, <2>1, <2>2
<1>7. \A u \in Threads, c \in Phases : Blocked(u, c)' <=> Blocked(u, c)
  BY <1>6 DEF threadVars, Blocked, Released
<1>8. \A g \in Groups, c \in Phases :
        Answered(c, g)' <=> Answered(c, g) \/ (c = b /\ g = next)
  <2>. SUFFICES ASSUME NEW g \in Groups, NEW c \in Phases
                PROVE  Answered(c, g)' <=> Answered(c, g) \/ (c = b /\ g = next)
    OBVIOUS
  <2>1. g \in Nat /\ (g < next + 1 <=> g < next \/ g = next)
    BY <1>2, ConstantFacts
  <2>2. CASE c = b
    BY <1>2, <2>1, <2>2 DEF threadVars, Answered, Contributes
  <2>3. CASE c # b
    BY <1>2, <2>3 DEF threadVars, Answered
  <2>. QED
    BY <2>2, <2>3
<1>9. ArrivedAt(b)' = ArrivedAt(b) \cup WorkersOf(next)
  BY <1>7, <1>8, ConstantFacts DEF ArrivedAt, WorkersOf
<1>10. \A c \in Phases \ {b} : ArrivedAt(c)' = ArrivedAt(c)
  BY <1>7, <1>8, ConstantFacts DEF ArrivedAt
<1>11. ArrivedAt(b) \cup WorkersOf(next) # Threads
  BY AnswerFits
<1>. QED
  BY <1>5, <1>6, <1>9, <1>10, <1>11 DEF Arrives

\* Nobody arrives in a step that touches no shared barrier and moves only
\* threads that are not held by one.
LEMMA ArrivedUnmoved ==
  ASSUME TypeOK, bar' = bar, NEW t \in Threads,
         \A u \in Threads \ {t} : pc'[u] = pc[u] /\ asleep'[u] = asleep[u] /\ seen'[u] = seen[u],
         \A c \in Phases : ~Blocked(t, c) /\ ~Blocked(t, c)',
         \/ t # Main /\ UNCHANGED <<next, tickOffset>>
         \/ \A c \in Phases, g \in Groups : ~Answered(c, g) /\ ~Answered(c, g)'
  PROVE  \A c \in Phases : ArrivedAt(c)' = ArrivedAt(c)
<1>1. \A u \in Threads, c \in Phases : Blocked(u, c)' <=> Blocked(u, c)
  BY DEF Blocked, Released
<1>2. \A g \in Groups, c \in Phases : Answered(c, g)' <=> Answered(c, g)
  <2>1. CASE t # Main /\ UNCHANGED <<next, tickOffset>>
    BY <1>1, <2>1, ConstantFacts DEF Answered, Contributes
  <2>. QED
    BY <2>1
<1>. QED
  BY <1>1, <1>2, ConstantFacts DEF ArrivedAt

-----------------------------------------------------------------------------
(* The release of a shared barrier. *)

\* When the last thread is at b, main is there too.
LEMMA MainIsThere ==
  ASSUME IInv, NEW b \in Phases, NEW t \in Threads, AtBarrier(t, b), ~asleep[t],
         ArrivedAt(b) \cup {t} = Threads
  PROVE  /\ AtBarrier(Main, b)
         /\ t # Main => Blocked(Main, b)
         /\ b = "bus" => M = K
         /\ StartTick <= mainTick
<1>1. TypeOK /\ MainInv /\ Main \in Threads /\ Main \notin Workers
  BY ConstantFacts DEF IInv
<1>2. t # Main => Blocked(Main, b)
  BY <1>1, AllArrived
<1>3. AtBarrier(Main, b)
  BY <1>2 DEF Blocked, AtBarrier
<1>4. b = "bus" => M = K
  <2>. SUFFICES ASSUME b = "bus" PROVE M = K
    OBVIOUS
  <2>1. pc[Main] = "bus"
    BY <1>3 DEF AtBarrier
  <2>2. CASE t = Main
    BY <1>1, <2>1, <2>2 DEF MainInv, Gens
  <2>3. CASE t # Main
    <3>1. asleep[Main] /\ seen[Main] = M
      BY <1>2, <2>3 DEF Blocked, Released, M
    <3>. QED
      BY <1>1, <2>1, <3>1 DEF MainInv
  <2>. QED
    BY <2>2, <2>3
<1>. QED
  BY <1>1, <1>2, <1>3, <1>4 DEF MainInv

\* The workers that the last arrival finds at b, or finds answered for.
LEMMA OthersReleased ==
  ASSUME IInv, NEW b \in Phases, NEW t \in Threads, AtBarrier(t, b), ~asleep[t],
         ArrivedAt(b) \cup {t} = Threads, Bumped(b), macroBar' = macroBar,
         NEW w \in Workers, w # t, SameWorker(w), SameView(GroupOf[w])
  PROVE  WorkerInv(w)'
<1>1. TypeOK /\ WorkerInv(w) /\ GroupInv(GroupOf[w])
  BY WorkerFacts DEF IInv
<1>2. AtBarrier(Main, b) /\ (b = "bus" => M = K) /\ StartTick <= mainTick
  BY MainIsThere
<1>3. Blocked(w, b) \/ Answered(b, GroupOf[w])
  BY WorkerFacts, AllArrived
<1>4. CASE Blocked(w, b) /\ b = "bus"
  BY <1>1, <1>2, <1>4, ReleaseAtBus DEF AtBarrier
<1>5. CASE Blocked(w, b) /\ b # "bus"
  <2>1. b \in {"frame", "flip"}
    BY <1>5 DEF Phases
  <2>. QED
    BY <1>1, <1>5, <2>1, ReleaseBlocked
<1>6. CASE Answered(b, GroupOf[w])
  <2>1. tickOffset[GroupOf[w]] # 0 /\ pc[Main] = b
    BY <1>6 DEF Answered, Contributes
  <2>2. ~MacroFreed(GroupOf[w])
    BY <2>1 DEF MacroFreed, Phases
  <2>. QED
    BY <1>1, <2>1, <2>2, ReleaseAnswered
<1>. QED
  BY <1>3, <1>4, <1>5, <1>6

\* A held main thread keeps its invariant when the barrier is released.
LEMMA MainReleased ==
  ASSUME TypeOK, MainInv, NEW b \in Phases, Bumped(b), Blocked(Main, b),
         UNCHANGED <<pc[Main], asleep[Main], seen[Main], next, mainTick, tickOffset>>
  PROVE  MainInv'
<1>1. K' = K /\ ZeroWaits' = ZeroWaits
  BY DEF K, ZeroWaits
<1>2. /\ F \in Int /\ B \in Int /\ M \in Int /\ K \in Int /\ ZeroWaits \in {0, 1}
      /\ F = bar["frame"].generation - ZeroWaits
      /\ B = bar["flip"].generation /\ M = bar["bus"].generation
      /\ bar["frame"].generation \in Nat
  BY IntFacts DEF Phases
<1>3. asleep[Main] /\ AtBarrier(Main, b) /\ seen[Main] = bar[b].generation
  BY DEF Blocked, AtBarrier, Released
<1>4. CASE b = "frame" /\ pc[Main] = "zero"
  <2>1. Mode = "medium" /\ K = 0 /\ next = 1 /\ seen[Main] = 0 /\ B = 0 /\ M = 0
    BY <1>3, <1>4 DEF MainInv, Gens
  <2>2. F = -1 /\ ZeroWaits = 1
    BY <1>2, <1>3, <1>4, <2>1 DEF ZeroWaits
  <2>3. Gens(0, 0, 0)'
    BY <2>1, <2>2, <1>4 DEF Gens, Bumped
  <2>. QED
    BY <1>1, <1>3, <1>4, <2>1, <2>3 DEF MainInv
<1>5. CASE b = "frame" /\ pc[Main] = "frame"
  <2>1. seen[Main] = K + ZeroWaits /\ Gens(K, K, K)
    BY <1>2, <1>3, <1>5 DEF MainInv, Gens
  <2>2. Gens(K + 1, K, K)'
    BY <1>1, <2>1, <1>5 DEF Gens, Bumped
  <2>. QED
    BY <1>1, <1>3, <1>5, <2>1, <2>2 DEF MainInv
<1>6. CASE b = "flip" /\ pc[Main] = "flip"
  <2>1. seen[Main] = K /\ Gens(K + 1, K, K)
    BY <1>2, <1>3, <1>6 DEF MainInv, Gens
  <2>2. Gens(K + 1, K + 1, K)'
    BY <1>1, <2>1, <1>6 DEF Gens, Bumped
  <2>. QED
    BY <1>1, <1>3, <1>6, <2>1, <2>2 DEF MainInv
<1>7. CASE b = "bus" /\ pc[Main] = "bus"
  <2>1. seen[Main] = K /\ Gens(K + 1, K + 1, K)
    BY <1>2, <1>3, <1>7 DEF MainInv, Gens
  <2>2. Gens(K + 1, K + 1, K + 1)'
    BY <1>1, <2>1, <1>7 DEF Gens, Bumped
  <2>. QED
    BY <1>1, <1>3, <1>7, <2>1, <2>2 DEF MainInv
<1>. QED
  BY <1>3, <1>4, <1>5, <1>6, <1>7 DEF AtBarrier, Phases

-----------------------------------------------------------------------------
(* The thread that moves. *)

\* A worker that goes to sleep in the wait on b.
LEMMA WorkerHeld ==
  ASSUME TypeOK, NEW w \in Workers, WorkerInv(w), NEW b \in Phases, AtBarrier(w, b),
         ~asleep[w], SameView(GroupOf[w]), SameGens,
         pc'[w] = pc[w], asleep'[w], seen'[w] = bar[b].generation,
         currTick'[w] = currTick[w]
  PROVE  WorkerInv(w)'
<1>. DEFINE g == GroupOf[w]
<1>1. PICK r \in Int : r = Round(w)
  BY RoundFacts
<1>2. Round(w)' = r
  BY <1>1 DEF Round
<1>3. g \in Groups
  BY WorkerFacts
<1>4. pc[w] \in {"zero", "frame", "flip", "bus"}
  BY DEF AtBarrier, Phases
<1>5. /\ F \in Int /\ B \in Int /\ M \in Int /\ ZeroWaits \in {0, 1}
      /\ F = bar["frame"].generation - ZeroWaits
      /\ B = bar["flip"].generation /\ M = bar["bus"].generation
      /\ bar["frame"].generation \in Nat
  BY IntFacts DEF Phases
<1>6. LiveAt(g, r)' <=> LiveAt(g, r)
  BY <1>3, ViewUntouched
<1>7. BeforeBus(w, g, r)'
  <2>1. BeforeBus(w, g, r)
    BY <1>1 DEF WorkerInv
  <2>2. CASE pc[w] = "zero"
    <3>1. b = "frame"
      BY <2>2 DEF AtBarrier, Phases
    <3>2. Mode = "medium" /\ r = 0 /\ Gens(-1, 0, 0)
      BY <2>1, <2>2 DEF BeforeBus
    <3>3. seen'[w] = 0
      BY <3>1, <3>2, <1>5 DEF Gens, ZeroWaits
    <3>. QED
      BY <2>1, <2>2, <3>2, <3>3, <1>6 DEF BeforeBus, SameGens, Gens
  <2>3. CASE pc[w] = "frame"
    BY <2>1, <2>3, <1>5, <1>6 DEF BeforeBus, SameGens, Gens, AtBarrier, ZeroWaits
  <2>4. CASE pc[w] = "flip"
    BY <2>1, <2>4, <1>5, <1>6 DEF BeforeBus, SameGens, Gens, AtBarrier
  <2>5. CASE pc[w] = "bus"
    BY <2>5 DEF BeforeBus
  <2>. QED
    BY <1>4, <2>2, <2>3, <2>4, <2>5
<1>8. AtBus(w, g, r)'
  <2>1. AtBus(w, g, r)
    BY <1>1 DEF WorkerInv
  <2>. QED
    BY <2>1, <1>4, <1>5, <1>6 DEF AtBus, SameGens, Gens, AtBarrier
<1>9. AfterBusInv(w, g, r)'
  BY <1>4 DEF AfterBusInv
<1>. QED
  BY <1>1, <1>2, <1>4, <1>7, <1>8, <1>9 DEF WorkerInv

\* A worker that gets through the frame barrier or the flip barrier, as the
\* last to arrive or released by it.
LEMMA WorkerThrough ==
  ASSUME TypeOK, NEW w \in Workers, WorkerInv(w), NEW b \in {"frame", "flip"},
         AtBarrier(w, b), SameView(GroupOf[w]),
         \/ ~asleep[w] /\ Bumped(b)
         \/ asleep[w] /\ Released(bar[b], seen[w]) /\ SameGens,
         pc'[w] = (IF pc[w] = "zero" THEN "update" ELSE IF b = "frame" THEN "flip" ELSE "bus"),
         ~asleep'[w], currTick'[w] = currTick[w]
  PROVE  WorkerInv(w)'
<1>. DEFINE g == GroupOf[w]
<1>1. PICK r \in Int : r = Round(w)
  BY RoundFacts
<1>2. Round(w)' = r
  BY <1>1 DEF Round, AtBarrier
<1>3. g \in Groups
  BY WorkerFacts
<1>5. /\ F \in Int /\ B \in Int /\ M \in Int /\ ZeroWaits \in {0, 1}
      /\ F = bar["frame"].generation - ZeroWaits
      /\ B = bar["flip"].generation /\ M = bar["bus"].generation
      /\ bar["frame"].generation \in Nat
  BY IntFacts DEF Phases
<1>6. BeforeBus(w, g, r)
  BY <1>1 DEF WorkerInv
<1>7. LiveAt(g, r)'
  <2>1. LiveAt(g, r)
    BY <1>6 DEF AtBarrier, BeforeBus
  <2>2. M' = M
    BY DEF Bumped, SameGens
  <2>. QED
    BY <2>1, <2>2 DEF SameView, LiveAt, HasMacro
<1>8. CASE b = "frame" /\ pc[w] = "zero"
  <2>1. Mode = "medium" /\ r = 0
    BY <1>6, <1>8 DEF BeforeBus
  <2>2. Gens(0, 0, 0)'
    <3>1. CASE ~asleep[w] /\ Bumped(b)
      BY <1>6, <1>8, <3>1 DEF BeforeBus, Bumped, Gens
    <3>2. CASE asleep[w] /\ Released(bar[b], seen[w]) /\ SameGens
      BY <1>5, <1>6, <1>8, <2>1, <3>2 DEF BeforeBus, SameGens, Gens, Released, ZeroWaits
    <3>. QED
      BY <3>1, <3>2
  <2>. QED
    BY <1>1, <1>2, <1>7, <1>8, <2>1, <2>2 DEF WorkerInv, BeforeBus, AtBus, AfterBusInv
<1>9. CASE b = "frame" /\ pc[w] = "frame"
  <2>1. Gens(r + 1, r, r)'
    <3>1. CASE ~asleep[w] /\ Bumped(b)
      BY <1>6, <1>9, <3>1 DEF BeforeBus, Bumped, Gens
    <3>2. CASE asleep[w] /\ Released(bar[b], seen[w]) /\ SameGens
      BY <1>5, <1>6, <1>9, <3>2 DEF BeforeBus, SameGens, Gens, Released
    <3>. QED
      BY <3>1, <3>2
  <2>. QED
    BY <1>1, <1>2, <1>7, <1>9, <2>1 DEF WorkerInv, BeforeBus, AtBus, AfterBusInv
<1>10. CASE b = "flip"
  <2>1. pc[w] = "flip" /\ pc'[w] = "bus"
    BY <1>10 DEF AtBarrier
  <2>2. Gens(r + 1, r + 1, r)'
    <3>1. CASE ~asleep[w] /\ Bumped(b)
      BY <1>6, <1>10, <2>1, <3>1 DEF BeforeBus, Bumped, Gens
    <3>2. CASE asleep[w] /\ Released(bar[b], seen[w]) /\ SameGens
      BY <1>5, <1>6, <1>10, <2>1, <3>2 DEF BeforeBus, SameGens, Gens, Released
    <3>. QED
      BY <3>1, <3>2
  <2>. QED
    BY <1>1, <1>2, <1>7, <2>1, <2>2 DEF WorkerInv, BeforeBus, AtBus, AfterBusInv
<1>. QED
  BY <1>8, <1>9, <1>10 DEF AtBarrier

\* A worker that begins its next update, from the message bus or from its macro
\* barrier.
LEMMA WorkerAgain ==
  ASSUME TypeOK, NEW w \in Workers, NEW r \in Int, 0 <= r,
         r = currTick[w] - StartTick - TickStep[GroupOf[w]], currTick[w] < EndTick,
         AgainAt(GroupOf[w], r + TickStep[GroupOf[w]])',
         pc'[w] = "update", ~asleep'[w], currTick'[w] = currTick[w]
  PROVE  WorkerInv(w)'
<1>. DEFINE g == GroupOf[w]
<1>. DEFINE q == r + TickStep[g]
<1>1. /\ TickStep[g] \in Nat /\ currTick[w] \in Nat /\ StartTick \in Nat /\ EndTick \in Nat
      /\ q \in Int
  BY WorkerFacts, RoundFacts, ConstantFacts
<1>2. Round(w)' = q
  BY <1>1 DEF Round
<1>3. 0 <= q /\ q + StartTick < EndTick
  BY <1>1
<1>4. LiveAt(g, q)' /\ Gens(q, q, q)'
  BY DEF AgainAt
<1>. HIDE DEF q
<1>5. BeforeBus(w, g, q)' /\ AtBus(w, g, q)' /\ AfterBusInv(w, g, q)'
  BY <1>4 DEF BeforeBus, AtBus, AfterBusInv
<1>. QED
  BY <1>2, <1>3, <1>5 DEF WorkerInv

\* A worker that leaves the message bus.
LEMMA WorkerPastBus ==
  ASSUME TypeOK, NEW w \in Workers, NEW r \in Int, 0 <= r, r + StartTick < EndTick,
         r = currTick[w] - StartTick - TickStep[GroupOf[w]],
         Beyond(r)',
         AfterBus(w) = "macro" => IdleAt(GroupOf[w], r)',
         AfterBus(w) = "exit" => LastAt(GroupOf[w], r)',
         AfterBus(w) \in {"zero", "update"} => AgainAt(GroupOf[w], r + TickStep[GroupOf[w]])',
         pc'[w] = AfterBus(w), ~asleep'[w], currTick'[w] = currTick[w]
  PROVE  WorkerInv(w)'
<1>. DEFINE g == GroupOf[w]
<1>1. /\ TickStep[g] \in Nat /\ TickStep[g] > 0 /\ currTick[w] \in Nat
      /\ StartTick \in Nat /\ EndTick \in Nat
  BY WorkerFacts, RoundFacts, ConstantFacts
<1>2. AfterBus(w) \in {"macro", "exit", "update"}
  <2>1. currTick[w] # 0
    BY <1>1
  <2>. QED
    BY <2>1 DEF AfterBus, AfterLoop, LoopHead
<1>3. CASE AfterBus(w) = "update"
  <2>1. currTick[w] < EndTick
    BY <1>3 DEF AfterBus, AfterLoop, Active
  <2>. QED
    BY <1>3, <2>1, WorkerAgain
<1>4. CASE AfterBus(w) \in {"macro", "exit"}
  <2>1. Round(w)' = r
    BY <1>4 DEF Round
  <2>2. AfterBus(w) = "macro" => HasMacro(g) /\ ExtraActive(currTick[w])
    BY DEF AfterBus, AfterLoop, LoopHead
  <2>3. ~MacroReleased(w)'
    BY DEF MacroReleased
  <2>4. BeforeBus(w, g, r)' /\ AtBus(w, g, r)'
    BY <1>4 DEF BeforeBus, AtBus
  <2>5. AfterBusInv(w, g, r)'
    BY <1>4, <2>2, <2>3 DEF AfterBusInv, HasMacro, ExtraActive
  <2>. QED
    BY <1>4, <2>1, <2>4, <2>5 DEF WorkerInv
<1>. QED
  BY <1>2, <1>3, <1>4

\* The macro barriers in a step that neither takes from them nor moves a thread
\* that one of them holds.
LEMMA MacroUnmoved ==
  ASSUME \A g \in Groups : MacroCountInv(g), macroBar' = macroBar, NEW t,
         \A u \in Threads \ {t} : pc'[u] = pc[u] /\ asleep'[u] = asleep[u] /\ seen'[u] = seen[u],
         \A g \in Groups : t \notin MacroArrived(g) /\ t \notin MacroArrived(g)',
         t = Main \/ next' = next
  PROVE  \A g \in Groups : MacroCountInv(g)'
<1>. SUFFICES ASSUME NEW g \in Groups PROVE MacroCountInv(g)'
  OBVIOUS
<1>1. MacroArrived(g)' = MacroArrived(g)
  BY ConstantFacts DEF MacroArrived, Released, WorkersOf
<1>. QED
  BY <1>1 DEF MacroCountInv, WorkersOf

\* Where a worker goes from the wait on b.
WorkerNext(w, b) ==
  IF pc[w] = "zero" THEN "update"
  ELSE IF b = "frame" THEN "flip"
  ELSE IF b = "flip" THEN "bus"
  ELSE AfterBus(w)

\* A worker that is the last at b.
LEMMA WorkerLast ==
  ASSUME IInv, NEW w \in Workers, NEW b \in Phases, AtBarrier(w, b),
         Enter(w, b, WorkerNext(w, b)), Completes(bar[b], 1), Bumped(b),
         UNCHANGED <<macroBar, next, mainTick, groupVars, currTick>>
  PROVE  MainInv' /\ \A v \in Workers : WorkerInv(v)'
<1>1. TypeOK /\ MainInv /\ CountInv(b) /\ \A v \in Workers : WorkerInv(v)
  BY DEF IInv
<1>2. w \in Threads /\ Main \in Threads /\ w # Main /\ Workers \subseteq Threads
  BY WorkerFacts, ConstantFacts
<1>3. ~asleep[w] /\ ~asleep'[w] /\ pc'[w] = WorkerNext(w, b)
  BY <1>1, <1>2 DEF Enter, EnterWait, TypeOK
<1>4. \A u \in Threads \ {w} : pc'[u] = pc[u] /\ asleep'[u] = asleep[u] /\ seen'[u] = seen[u]
  BY <1>1 DEF Enter, EnterWait, TypeOK
<1>5. \A g \in Groups : SameView(g) /\ GroupInv(g)
  BY <1>2, <1>4, WorkerStepView DEF IInv
<1>6. ArrivedAt(b) \cup {w} = Threads
  <2>1. {w} \cap ArrivedAt(b) = {} /\ Cardinality({w}) = 1 /\ {w} \in SUBSET Threads
    BY <1>3, WorkerNotArrived
  <2>2. Completes(bar[b], Cardinality({w})) <=> ArrivedAt(b) \cup {w} = Threads
    BY <1>1, <2>1, ArrivalFits
  <2>. QED
    BY <2>1, <2>2
<1>7. /\ AtBarrier(Main, b) /\ Blocked(Main, b)
      /\ b = "bus" => M = K
      /\ StartTick <= mainTick
  BY <1>2, <1>3, <1>6, MainIsThere
<1>8. MainInv'
  BY <1>1, <1>2, <1>4, <1>7, MainReleased DEF groupVars
<1>9. ASSUME NEW v \in Workers, v # w PROVE WorkerInv(v)'
  BY <1>2, <1>3, <1>4, <1>5, <1>6, <1>9, OthersReleased, ConstantFacts DEF SameWorker
<1>10. WorkerInv(w)'
  <2>1. SameView(GroupOf[w]) /\ GroupInv(GroupOf[w]) /\ currTick'[w] = currTick[w]
    BY <1>5, WorkerFacts
  <2>2. CASE b # "bus"
    <3>1. b \in {"frame", "flip"}
      BY <2>2 DEF Phases
    <3>. QED
      BY <1>1, <1>3, <2>1, <3>1, WorkerThrough DEF WorkerNext
  <2>3. CASE b = "bus"
    <3>1. PICK r \in Int : r = Round(w)
      BY <1>1, RoundFacts
    <3>2. pc[w] = "bus" /\ pc[Main] = "bus" /\ M = K /\ pc'[w] = AfterBus(w)
      BY <2>3, <1>3, <1>7 DEF AtBarrier, WorkerNext
    <3>3. r = currTick[w] - StartTick - TickStep[GroupOf[w]]
      BY <1>1, <3>1, <3>2, RoundFacts
    <3>4. LiveAt(GroupOf[w], r) /\ Gens(r + 1, r + 1, r) /\ 0 <= r /\ r + StartTick < EndTick
      BY <1>1, <1>3, <3>1, <3>2 DEF WorkerInv, AtBus
    <3>5. /\ Beyond(r)'
          /\ IdleAt(GroupOf[w], r)'
          /\ AfterBus(w) = "exit" => LastAt(GroupOf[w], r)'
          /\ AfterBus(w) \in {"zero", "update"} =>
               AgainAt(GroupOf[w], r + TickStep[GroupOf[w]])'
      BY <1>1, <1>7, <2>1, <2>3, <3>2, <3>3, <3>4, BusOutcome
    <3>. QED
      BY <1>1, <1>3, <2>1, <3>2, <3>3, <3>4, <3>5, WorkerPastBus
  <2>. QED
    BY <2>2, <2>3
<1>. QED
  BY <1>8, <1>9, <1>10

\* A worker that has been released from b.
LEMMA WorkerLeaves ==
  ASSUME TypeOK, NEW w \in Workers, WorkerInv(w), NEW b \in Phases, AtBarrier(w, b),
         asleep[w], Released(bar[b], seen[w]), SameGens, SameView(GroupOf[w]),
         pc'[w] = WorkerNext(w, b), ~asleep'[w], currTick'[w] = currTick[w]
  PROVE  WorkerInv(w)'
<1>. DEFINE g == GroupOf[w]
<1>1. CASE b # "bus"
  <2>1. b \in {"frame", "flip"}
    BY <1>1 DEF Phases
  <2>. QED
    BY <2>1, WorkerThrough DEF WorkerNext
<1>2. CASE b = "bus"
  <2>1. PICK r \in Int : r = Round(w)
    BY RoundFacts
  <2>2. pc[w] = "bus" /\ pc'[w] = AfterBus(w)
    BY <1>2 DEF AtBarrier, WorkerNext
  <2>3. r = currTick[w] - StartTick - TickStep[g]
    BY <2>1, <2>2, RoundFacts
  <2>4. AtBus(w, g, r) /\ 0 <= r /\ r + StartTick < EndTick
    BY <2>1 DEF WorkerInv
  <2>5. M # r
    BY <1>2, <2>2, <2>4 DEF AtBus, Released, M
  <2>6. AfterBus(w) \in {"macro", "exit", "zero", "update"}
    BY DEF AfterBus, AfterLoop, LoopHead
  <2>7. g \in Groups /\ r + TickStep[g] \in Int /\ TickStep[g] > 0 /\ TickStep[g] \in Nat
    BY WorkerFacts
  <2>8. /\ AfterBus(w) = "macro" => Beyond(r) /\ IdleAt(g, r)
        /\ AfterBus(w) = "exit" => Beyond(r) /\ LastAt(g, r)
        /\ AfterBus(w) \in {"zero", "update"} => AgainAt(g, r + TickStep[g])
    BY <2>2, <2>4, <2>5 DEF AtBus
  <2>9. AgainAt(g, r + TickStep[g]) => Beyond(r)
    BY <2>7 DEF AgainAt, Gens, Beyond
  <2>10. /\ Beyond(r)'
         /\ AfterBus(w) = "macro" => IdleAt(g, r)'
         /\ AfterBus(w) = "exit" => LastAt(g, r)'
         /\ AfterBus(w) \in {"zero", "update"} => AgainAt(g, r + TickStep[g])'
    BY <2>6, <2>7, <2>8, <2>9, ViewUntouched
  <2>. QED
    BY <2>2, <2>3, <2>4, <2>10, WorkerPastBus
<1>. QED
  BY <1>1, <1>2

\* A worker's step at a shared barrier preserves the invariant.
LEMMA WorkerWaitStep ==
  ASSUME IInv, TypeOK', NEW w \in Workers, NEW b \in Phases, AtBarrier(w, b),
         Wait(w, b, WorkerNext(w, b)),
         UNCHANGED <<macroBar, next, mainTick, groupVars, currTick>>
  PROVE  IInv'
<1>1. /\ TypeOK /\ MainInv /\ \A g \in Groups : GroupInv(g)
      /\ \A v \in Workers : WorkerInv(v)
      /\ \A c \in Phases : CountInv(c)
      /\ \A g \in Groups : MacroCountInv(g)
  BY DEF IInv
<1>2. w \in Threads /\ Main \in Threads /\ w # Main /\ Workers \subseteq Threads
  BY WorkerFacts, ConstantFacts
<1>3. \A u \in Threads \ {w} : pc'[u] = pc[u] /\ asleep'[u] = asleep[u] /\ seen'[u] = seen[u]
  BY <1>1 DEF Wait, Enter, Leave, EnterWait, LeaveWait, TypeOK
<1>4. \A g \in Groups : GroupInv(g)' /\ SameView(g)
  BY <1>1, <1>2, <1>3, WorkerStepView
<1>5. \A g \in Groups : MacroCountInv(g)'
  <2>1. pc[w] # "macro"
    BY DEF AtBarrier, Phases
  <2>2. ~(pc'[w] = "macro" /\ asleep'[w])
    BY <1>1, <1>2, <2>1 DEF Wait, Enter, Leave, EnterWait, LeaveWait, TypeOK
  <2>. QED
    BY <1>1, <1>3, <2>1, <2>2, MacroUnmoved DEF MacroArrived
<1>6. ASSUME SameGens
      PROVE  MainInv' /\ \A v \in Workers \ {w} : WorkerInv(v)'
  <2>1. MainInv'
    BY <1>1, <1>2, <1>3, <1>6, MainKept DEF groupVars
  <2>2. ASSUME NEW v \in Workers \ {w}
        PROVE  WorkerInv(v)'
    <3>1. SameWorker(v) /\ SameView(GroupOf[v])
      BY <1>2, <1>3, <1>4, WorkerFacts DEF SameWorker
    <3>. QED
      BY <1>1, <1>6, <3>1, WorkerUntouched
  <2>. QED
    BY <2>1, <2>2
<1>7. CASE Enter(w, b, WorkerNext(w, b))
  <2>1. /\ ~asleep[w]
        /\ bar' = [bar EXCEPT ![b] = Take(@, 1)]
        /\ ~Overflows(bar[b], 1)
    BY <1>7 DEF Enter, EnterWait
  <2>2. \A c \in Phases : CountInv(c)'
    <3>1. {w} \cap ArrivedAt(b) = {} /\ Cardinality({w}) = 1 /\ {w} \in SUBSET Threads
      BY <2>1, WorkerNotArrived
    <3>2. Arrives(b, {w}) /\ \A c \in Phases \ {b} : ArrivedAt(c)' = ArrivedAt(c)
      BY <1>7, WorkerArrives
    <3>3. bar' = [bar EXCEPT ![b] = Take(@, Cardinality({w}))]
      BY <2>1, <3>1
    <3>. QED
      BY <1>1, <3>1, <3>2, <3>3, CountKept
  <2>3. /\ Completes(bar[b], 1) => Bumped(b)
        /\ ~Completes(bar[b], 1) => SameGens
    BY <1>1, <2>1, TakeGens
  <2>4. CASE Completes(bar[b], 1)
    BY <1>4, <1>5, <1>7, <2>2, <2>3, <2>4, WorkerLast DEF IInv
  <2>5. CASE ~Completes(bar[b], 1)
    <3>1. pc'[w] = pc[w] /\ asleep'[w] /\ seen'[w] = bar[b].generation
      BY <1>1, <1>2, <1>7, <2>5 DEF Enter, EnterWait, TypeOK
    <3>2. WorkerInv(w)'
      BY <1>1, <1>4, <2>1, <2>3, <2>5, <3>1, WorkerHeld, WorkerFacts
    <3>. QED
      BY <1>4, <1>5, <1>6, <2>2, <2>3, <2>5, <3>2 DEF IInv
  <2>. QED
    BY <2>4, <2>5
<1>8. CASE Leave(w, b, WorkerNext(w, b))
  <2>1. /\ asleep[w] /\ Released(bar[b], seen[w]) /\ bar' = bar
        /\ pc'[w] = WorkerNext(w, b) /\ ~asleep'[w]
    BY <1>1, <1>2, <1>8 DEF Leave, LeaveWait, TypeOK
  <2>2. SameGens
    BY <2>1 DEF SameGens, F, B, M, ZeroWaits
  <2>3. WorkerInv(w)'
    BY <1>1, <1>4, <2>1, <2>2, WorkerLeaves, WorkerFacts
  <2>4. \A c \in Phases : CountInv(c)'
    <3>1. \A c \in Phases : ~Blocked(w, c) /\ ~Blocked(w, c)'
      BY <2>1 DEF Blocked, AtBarrier, Phases
    <3>. QED
      BY <1>1, <1>2, <1>3, <2>1, <3>1, ArrivedUnmoved, CountUnmoved DEF groupVars
  <2>. QED
    BY <1>4, <1>5, <1>6, <2>2, <2>3, <2>4 DEF IInv
<1>. QED
  BY <1>7, <1>8 DEF Wait

\* perform_frame_tick moves nothing that main or another worker looks at.
LEMMA PerformFrameTickStep ==
  ASSUME IInv, TypeOK', NEW w \in Workers, PerformFrameTick(w)
  PROVE  IInv'
<1>1. /\ TypeOK /\ MainInv /\ \A g \in Groups : GroupInv(g)
      /\ \A v \in Workers : WorkerInv(v)
      /\ \A c \in Phases : CountInv(c)
      /\ \A g \in Groups : MacroCountInv(g)
  BY DEF IInv
<1>2. w \in Threads /\ w # Main
  BY WorkerFacts
<1>3. /\ pc[w] = "update" /\ pc'[w] = "frame" /\ asleep' = asleep /\ seen' = seen
      /\ currTick'[w] = currTick[w] + TickStep[GroupOf[w]]
      /\ bar' = bar /\ macroBar' = macroBar
      /\ UNCHANGED <<next, mainTick, groupVars>>
      /\ \A u \in Threads \ {w} : pc'[u] = pc[u]
      /\ \A v \in Workers \ {w} : currTick'[v] = currTick[v]
  BY <1>1, <1>2 DEF PerformFrameTick, TypeOK, barrierVars
<1>4. SameGens
  BY <1>3 DEF SameGens, F, B, M, ZeroWaits
<1>5. \A g \in Groups : GroupInv(g)' /\ SameView(g)
  BY <1>1, <1>2, <1>3, WorkerStepView, ConstantFacts
<1>6. MainInv'
  BY <1>1, <1>2, <1>3, <1>4, MainKept, ConstantFacts DEF groupVars
<1>7. ASSUME NEW v \in Workers \ {w}
      PROVE  WorkerInv(v)'
  <2>1. SameWorker(v) /\ SameView(GroupOf[v])
    BY <1>3, <1>5, WorkerFacts DEF SameWorker
  <2>. QED
    BY <1>1, <1>3, <1>4, <2>1, WorkerUntouched
<1>8. WorkerInv(w)'
  <2>. DEFINE g == GroupOf[w]
  <2>1. PICK r \in Int : r = Round(w)
    BY <1>1, RoundFacts
  <2>2. /\ g \in Groups /\ TickStep[g] \in Nat /\ currTick[w] \in Nat /\ StartTick \in Nat
        /\ r = currTick[w] - StartTick
    BY <1>1, <1>3, <2>1, RoundFacts, WorkerFacts, ConstantFacts
  <2>3. Round(w)' = r
    BY <1>3, <2>2 DEF Round
  <2>4. LiveAt(g, r) /\ Gens(r, r, r) /\ ~asleep[w] /\ 0 <= r /\ r + StartTick < EndTick
    BY <1>1, <1>3, <2>1 DEF WorkerInv, BeforeBus
  <2>5. LiveAt(g, r)' /\ Gens(r, r, r)'
    BY <1>4, <1>5, <2>2, <2>4, ViewUntouched DEF SameGens, Gens
  <2>. QED
    BY <1>3, <2>3, <2>4, <2>5 DEF WorkerInv, BeforeBus, AtBus, AfterBusInv
<1>9. \A c \in Phases : CountInv(c)'
  <2>1. \A c \in Phases : ~Blocked(w, c) /\ ~Blocked(w, c)'
    <3>1. ~asleep[w]
      BY <1>1, <1>3 DEF WorkerInv, BeforeBus
    <3>. QED
      BY <1>3, <3>1 DEF Blocked
  <2>. QED
    BY <1>1, <1>2, <1>3, <2>1, ArrivedUnmoved, CountUnmoved DEF groupVars
<1>10. \A g \in Groups : MacroCountInv(g)'
  BY <1>1, <1>3, MacroUnmoved DEF MacroArrived
<1>. QED
  BY <1>5, <1>6, <1>7, <1>8, <1>9, <1>10 DEF IInv

-----------------------------------------------------------------------------
(* The macro barriers. *)

\* Who meets at the macro barrier of g.
Team(g) == WorkersOf(g) \cup {Main}

\* The invariant of a macro barrier is that it counts the threads it holds.
LEMMA MacroCountMeans ==
  ASSUME macroBar \in [Groups -> BarrierRecord], NEW g \in Groups
  PROVE  /\ MacroCountInv(g) <=> CountsFor(macroBar[g], Team(g), MacroArrived(g))
         /\ Cardinality(Team(g)) = Cardinality(WorkersOf(g)) + 1
<1>1. IsFiniteSet(WorkersOf(g)) /\ Main \notin WorkersOf(g)
  BY GroupCount, ConstantFacts
<1>2. IsFiniteSet(Team(g)) /\ Cardinality(Team(g)) = Cardinality(WorkersOf(g)) + 1
  BY <1>1, FS_AddElement DEF Team
<1>3. MacroArrived(g) \subseteq Team(g)
  BY DEF MacroArrived, Team
<1>4. macroBar[g] \in BarrierRecord
  OBVIOUS
<1>5. MacroCountInv(g) <=>
        /\ macroBar[g].threshold = Cardinality(Team(g))
        /\ macroBar[g].count = Cardinality(Team(g)) - Cardinality(MacroArrived(g))
  <2>1. Cardinality(WorkersOf(g)) \in Nat /\ Cardinality(MacroArrived(g)) \in Nat
    BY <1>2, <1>3, GroupCount, FS_Subset, FS_CardinalityType
  <2>. QED
    BY <1>2, <2>1 DEF MacroCountInv
<1>. QED
  BY <1>2, <1>3, <1>4, <1>5 DEF CountsFor

\* t stands before the wait on the macro barrier of g.
AtMacro(t, g) ==
  t \in Team(g) /\ pc[t] = "macro" /\ ~asleep[t] /\ (t = Main => next = g)

\* One more thread at the macro barrier of g: it is released when all are there.
LEMMA MacroEnter ==
  ASSUME TypeOK, TypeOK', NEW g \in Groups, \A h \in Groups : MacroCountInv(h),
         NEW t, AtMacro(t, g), NEW after,
         EnterWait(t, macroBar[g], after),
         macroBar' = [macroBar EXCEPT ![g] = Take(@, 1)],
         IF t # Main THEN next' = next /\ (after # "macro") ELSE asleep'[t] => next' = next
  PROVE  /\ \A h \in Groups : MacroCountInv(h)'
         /\ Completes(macroBar[g], 1) <=> MacroArrived(g) \cup {t} = Team(g)
         /\ Completes(macroBar[g], 1) =>
              macroBar'[g].generation = macroBar[g].generation + 1
         /\ ~Completes(macroBar[g], 1) =>
              macroBar'[g].generation = macroBar[g].generation
         /\ \A h \in Groups \ {g} : macroBar'[h] = macroBar[h]
<1>1. /\ macroBar \in [Groups -> BarrierRecord] /\ macroBar[g] \in BarrierRecord
      /\ macroBar' \in [Groups -> BarrierRecord]
      /\ t \in Threads /\ pc \in [Threads -> PCs] /\ asleep \in [Threads -> BOOLEAN]
      /\ seen \in [Threads -> Nat] /\ macroBar[g].generation \in Nat
  BY ConstantFacts DEF TypeOK, AtMacro, Team, WorkersOf, BarrierRecord, PCs
<1>2. ~asleep[t] /\ ~Overflows(macroBar[g], 1) /\ pc[t] = "macro"
  BY DEF EnterWait, AtMacro
<1>3. macroBar'[g] = Take(macroBar[g], 1) /\ \A h \in Groups \ {g} : macroBar'[h] = macroBar[h]
  BY <1>1
<1>4. /\ Completes(macroBar[g], 1) => macroBar'[g].generation = macroBar[g].generation + 1
      /\ ~Completes(macroBar[g], 1) => macroBar'[g].generation = macroBar[g].generation
  BY <1>1, <1>2, <1>3, TakeFields
<1>5. \A u \in Threads \ {t} : pc'[u] = pc[u] /\ asleep'[u] = asleep[u] /\ seen'[u] = seen[u]
  BY <1>1 DEF EnterWait
<1>6. CountsFor(macroBar[g], Team(g), MacroArrived(g))
  BY <1>1, MacroCountMeans
<1>7. Cardinality({t}) = 1 /\ Newcomers({t}, Team(g), MacroArrived(g))
  BY <1>2, FS_Singleton DEF AtMacro, Newcomers, MacroArrived
<1>8. /\ Completes(macroBar[g], Cardinality({t})) <=> MacroArrived(g) \cup {t} = Team(g)
      /\ MacroArrived(g) \cup {t} = Team(g) =>
           CountsFor(Take(macroBar[g], Cardinality({t})), Team(g), {})
      /\ MacroArrived(g) \cup {t} # Team(g) =>
           CountsFor(Take(macroBar[g], Cardinality({t})), Team(g), MacroArrived(g) \cup {t})
  BY <1>6, <1>7, RoomFor
<1>9. Completes(macroBar[g], 1) <=> MacroArrived(g) \cup {t} = Team(g)
  BY <1>7, <1>8
<1>10. ASSUME NEW h \in Groups \ {g}
       PROVE  MacroCountInv(h)'
  <2>1. MacroArrived(h)' = MacroArrived(h)
    <3>1. t \notin MacroArrived(h)
      BY <1>2 DEF MacroArrived
    <3>2. t \in Workers => t \notin WorkersOf(h)
      BY ConstantFacts DEF AtMacro, Team, WorkersOf
    <3>3. t = Main => (asleep'[Main] => next' = g) /\ Main \notin MacroArrived(h)'
      BY DEF AtMacro, MacroArrived
    <3>4. t # Main => next' = next
      OBVIOUS
    <3>5. \A u \in Team(h) : u # t => (u \in MacroArrived(h)' <=> u \in MacroArrived(h))
      <4>. TAKE u \in Team(h)
      <4>. HAVE u # t
      <4>1. u \in Threads
        BY ConstantFacts DEF Team, WorkersOf
      <4>2. macroBar'[h] = macroBar[h]
        BY <1>3
      <4>3. pc'[u] = pc[u] /\ asleep'[u] = asleep[u] /\ seen'[u] = seen[u]
        BY <1>5, <4>1
      <4>4. u = Main => next' = next
        BY <3>4
      <4>. QED
        BY <4>2, <4>3, <4>4 DEF MacroArrived, Released, Team, WorkersOf
    <3>6. t \notin MacroArrived(h)'
      BY <3>2, <3>3, ConstantFacts DEF MacroArrived, AtMacro, Team, WorkersOf
    <3>. QED
      BY <3>1, <3>5, <3>6 DEF MacroArrived, Team, WorkersOf
  <2>. QED
    BY <1>3, <2>1 DEF MacroCountInv, WorkersOf
<1>11. MacroCountInv(g)'
  <2>. SUFFICES CountsFor(macroBar'[g], Team(g), MacroArrived(g)')
    <3>1. Cardinality(Team(g)) = Cardinality(WorkersOf(g)) + 1
      BY <1>1, MacroCountMeans
    <3>2. Cardinality(WorkersOf(g)) \in Nat
      BY GroupCount
    <3>3. CountsFor(macroBar'[g], Team(g), MacroArrived(g)') =>
            Cardinality(MacroArrived(g)') \in Nat
      BY FS_Subset, FS_CardinalityType DEF CountsFor
    <3>. QED
      BY <3>1, <3>2, <3>3 DEF MacroCountInv, CountsFor, WorkersOf
  <2>1. \A u \in Team(g) : u \in Threads
    BY ConstantFacts DEF Team, WorkersOf
  <2>2. CASE Completes(macroBar[g], 1)
    <3>1. \A u \in Team(g) : u = t \/ (asleep[u] /\ seen[u] = macroBar[g].generation)
      BY <1>9, <2>2 DEF MacroArrived, Released
    <3>2. ~asleep'[t]
      BY <1>2, <2>2 DEF EnterWait
    <3>3. MacroArrived(g)' = {}
      BY <1>1, <1>4, <1>5, <2>1, <2>2, <3>1, <3>2 DEF MacroArrived, Released, Team, WorkersOf
    <3>. QED
      BY <1>3, <1>7, <1>8, <1>9, <2>2, <3>3
  <2>3. CASE ~Completes(macroBar[g], 1)
    <3>1. pc'[t] = "macro" /\ asleep'[t] /\ seen'[t] = macroBar[g].generation /\ next' = next
      BY <1>1, <1>2, <2>3 DEF EnterWait
    <3>2. MacroArrived(g)' = MacroArrived(g) \cup {t}
      BY <1>4, <1>5, <2>1, <2>3, <3>1 DEF MacroArrived, Released, Team, WorkersOf, AtMacro
    <3>. QED
      BY <1>3, <1>7, <1>8, <1>9, <2>3, <3>2
  <2>. QED
    BY <2>2, <2>3
<1>. QED
  BY <1>3, <1>4, <1>9, <1>10, <1>11

\* Where a worker stands once its macro barrier is released: in its next update,
\* or past its last one.
PastMacro(w, r) ==
  /\ Beyond(r)
  /\ IF Active(currTick[w])
     THEN AgainAt(GroupOf[w], r + TickStep[GroupOf[w]])
     ELSE LastAt(GroupOf[w], r)

\* A worker that leaves its macro barrier, as the last there or released.
LEMMA WorkerPastMacro ==
  ASSUME TypeOK, NEW w \in Workers, WorkerInv(w), pc[w] = "macro",
         NEW r \in Int, r = Round(w), PastMacro(w, r)',
         pc'[w] = AfterLoop(currTick[w]), ~asleep'[w], currTick'[w] = currTick[w]
  PROVE  WorkerInv(w)'
<1>. DEFINE g == GroupOf[w]
<1>1. /\ TickStep[g] \in Nat /\ TickStep[g] > 0 /\ currTick[w] \in Nat
      /\ StartTick \in Nat /\ EndTick \in Nat
      /\ r = currTick[w] - StartTick - TickStep[g]
  BY WorkerFacts, RoundFacts, ConstantFacts
<1>2. 0 <= r /\ r + StartTick < EndTick
  BY DEF WorkerInv
<1>3. CASE Active(currTick[w])
  <2>1. currTick[w] # 0
    BY <1>1, <1>2
  <2>2. pc'[w] = "update" /\ currTick[w] < EndTick
    BY <2>1, <1>3 DEF AfterLoop, LoopHead, Active
  <2>3. AgainAt(g, r + TickStep[g])'
    BY <1>3 DEF PastMacro, Active
  <2>. QED
    BY <2>2, <2>3, <1>1, <1>2, WorkerAgain
<1>4. CASE ~Active(currTick[w])
  <2>1. pc'[w] = "exit"
    BY <1>4 DEF AfterLoop
  <2>2. Round(w)' = r
    BY <2>1, <1>1 DEF Round
  <2>3. LastAt(g, r)' /\ Beyond(r)'
    BY <1>4 DEF PastMacro, Active
  <2>. QED
    BY <2>1, <2>2, <2>3, <1>2 DEF WorkerInv, BeforeBus, AtBus, AfterBusInv
<1>. QED
  BY <1>3, <1>4

\* A worker that its macro barrier releases.
LEMMA WorkerFreed ==
  ASSUME TypeOK, NEW w \in Workers, WorkerInv(w), pc[w] = "macro",
         NEW r \in Int, r = Round(w), PastMacro(w, r)',
         SameWorker(w), MacroReleased(w)'
  PROVE  WorkerInv(w)'
<1>. DEFINE g == GroupOf[w]
<1>1. Round(w)' = r
  BY DEF Round, SameWorker
<1>2. AfterBusInv(w, g, r)'
  <2>1. AfterBusInv(w, g, r)
    BY DEF WorkerInv
  <2>2. Beyond(r)' /\ (IF Active(currTick'[w]) THEN AgainAt(g, r + TickStep[g])'
                                              ELSE LastAt(g, r)')
    BY DEF PastMacro, SameWorker, Active
  <2>. QED
    BY <2>1, <2>2 DEF AfterBusInv, SameWorker, HasMacro, ExtraActive
<1>3. BeforeBus(w, g, r)' /\ AtBus(w, g, r)'
  BY DEF BeforeBus, AtBus, SameWorker
<1>. QED
  BY <1>1, <1>2, <1>3 DEF WorkerInv, SameWorker

\* Main meets a worker of g at the macro barrier only at the end of the step.
LEMMA MacroMeeting ==
  ASSUME IInv, NEW w \in Workers, pc[w] = "macro", ~MacroReleased(w),
         pc[Main] = "macro", next = GroupOf[w], tickOffset[GroupOf[w]] = 1,
         NEW r \in Int, r = Round(w)
  PROVE  /\ nextTimeTick[GroupOf[w]] = r + TickStep[GroupOf[w]]
         /\ Beyond(r)
         /\ Gens(r + TickStep[GroupOf[w]], r + TickStep[GroupOf[w]], r + TickStep[GroupOf[w]])
         /\ K + 1 = r + TickStep[GroupOf[w]]
         /\ mainTick + 1 <= EndTick
         /\ ~Active(currTick[w]) => EndTick <= StartTick + r + TickStep[GroupOf[w]]
<1>. DEFINE g == GroupOf[w]
<1>1. TypeOK /\ MainInv /\ WorkerInv(w) /\ GroupInv(g) /\ g \in Groups
  BY WorkerFacts DEF IInv
<1>2. /\ TickStep[g] \in Nat /\ currTick[w] \in Nat /\ StartTick \in Nat /\ EndTick \in Nat
      /\ r = currTick[w] - StartTick - TickStep[g]
      /\ K \in Int /\ mainTick \in Int /\ next \in Nat
  BY <1>1, WorkerFacts, RoundFacts, ConstantFacts, IntFacts DEF TypeOK
<1>3. IdleAt(g, r) /\ Beyond(r)
  BY <1>1 DEF WorkerInv, AfterBusInv
<1>4. TickOf(g) = K
  BY <1>2 DEF TickOf, Counted
<1>5. nextTimeTick[g] = K + 1
  BY <1>1, <1>4 DEF GroupInv
<1>6. K + 1 = r + TickStep[g]
  BY <1>3, <1>5 DEF IdleAt
<1>7. Gens(K + 1, K + 1, K + 1) /\ mainTick < EndTick
  BY <1>1 DEF MainInv
<1>8. mainTick + 1 <= EndTick
  BY <1>2, <1>7
<1>9. ~Active(currTick[w]) => EndTick <= StartTick + r + TickStep[g]
  BY <1>2 DEF Active
<1>. QED
  BY <1>3, <1>5, <1>6, <1>7, <1>8, <1>9

\* A worker's step at its macro barrier preserves the invariant.
LEMMA WorkerMacroStep ==
  ASSUME IInv, TypeOK', NEW w \in Workers, WorkerMacro(w)
  PROVE  IInv'
<1>. DEFINE g == GroupOf[w]
<1>1. /\ TypeOK /\ MainInv /\ \A h \in Groups : GroupInv(h)
      /\ \A v \in Workers : WorkerInv(v)
      /\ \A c \in Phases : CountInv(c)
      /\ \A h \in Groups : MacroCountInv(h)
  BY DEF IInv
<1>2. /\ w \in Threads /\ Main \in Threads /\ w # Main /\ Workers \subseteq Threads
      /\ g \in Groups
  BY WorkerFacts, ConstantFacts
<1>3. /\ pc[w] = "macro" /\ bar' = bar /\ next' = next /\ mainTick' = mainTick
      /\ UNCHANGED groupVars /\ currTick' = currTick
  BY DEF WorkerMacro
<1>4. PICK r \in Int : r = Round(w)
  BY <1>1, RoundFacts
<1>5. \A u \in Threads \ {w} : pc'[u] = pc[u] /\ asleep'[u] = asleep[u] /\ seen'[u] = seen[u]
  BY <1>1 DEF WorkerMacro, EnterWait, LeaveWait, TypeOK
<1>6. SameGens
  BY <1>3 DEF SameGens, F, B, M, ZeroWaits
<1>7. MainInv'
  BY <1>1, <1>2, <1>3, <1>5, <1>6, MainKept DEF groupVars
<1>8. /\ \A h \in Groups : GroupInv(h)'
      /\ \A h \in Groups : macroBar'[h].generation = macroBar[h].generation => SameView(h)
  BY <1>1, <1>2, <1>3, <1>5, WorkerStepView
<1>9. \A c \in Phases : CountInv(c)'
  <2>1. \A c \in Phases : ~Blocked(w, c) /\ ~Blocked(w, c)'
    <3>1. pc'[w] \notin {"zero", "frame", "flip", "bus"} \/ ~asleep'[w]
      BY <1>1, <1>2, <1>3 DEF WorkerMacro, EnterWait, LeaveWait, TypeOK
    <3>. QED
      BY <1>3, <3>1 DEF Blocked, Phases
  <2>. QED
    BY <1>1, <1>2, <1>3, <1>5, <2>1, ArrivedUnmoved, CountUnmoved DEF groupVars
<1>10. ASSUME NEW v \in Workers \ {w}, macroBar'[GroupOf[v]].generation = macroBar[GroupOf[v]].generation
       PROVE  WorkerInv(v)'
  <2>1. SameWorker(v) /\ SameView(GroupOf[v])
    BY <1>2, <1>3, <1>5, <1>8, <1>10, WorkerFacts DEF SameWorker
  <2>. QED
    BY <1>1, <1>6, <1>10, <2>1, WorkerUntouched
<1>11. CASE /\ EnterWait(w, macroBar[g], AfterLoop(currTick[w]))
            /\ macroBar' = [macroBar EXCEPT ![g] = Take(@, 1)]
  <2>1. AtMacro(w, g) /\ AfterLoop(currTick[w]) # "macro"
    BY <1>2, <1>3, <1>11 DEF AtMacro, Team, WorkersOf, EnterWait, AfterLoop, LoopHead
  <2>2. /\ \A h \in Groups : MacroCountInv(h)'
        /\ Completes(macroBar[g], 1) <=> MacroArrived(g) \cup {w} = Team(g)
        /\ Completes(macroBar[g], 1) => macroBar'[g].generation = macroBar[g].generation + 1
        /\ ~Completes(macroBar[g], 1) => macroBar'[g].generation = macroBar[g].generation
        /\ \A h \in Groups \ {g} : macroBar'[h] = macroBar[h]
    BY <1>1, <1>2, <1>3, <1>11, <2>1, MacroEnter
  <2>3. CASE ~Completes(macroBar[g], 1)
    <3>1. \A h \in Groups : macroBar'[h].generation = macroBar[h].generation
      BY <2>2, <2>3
    <3>2. \A v \in Workers \ {w} : WorkerInv(v)'
      BY <1>10, <3>1, WorkerFacts
    <3>3. /\ pc'[w] = "macro" /\ asleep'[w] /\ seen'[w] = macroBar[g].generation
          /\ ~asleep[w]
      BY <1>1, <1>2, <1>3, <1>11, <2>3 DEF EnterWait, TypeOK
    <3>4. ~MacroReleased(w) /\ ~MacroReleased(w)'
      BY <1>2, <3>1, <3>3 DEF MacroReleased, Released
    <3>5. AfterBusInv(w, g, r)
      BY <1>1, <1>4 DEF WorkerInv
    <3>6. AfterBusInv(w, g, r)'
      BY <1>2, <1>3, <1>6, <1>8, <3>1, <3>3, <3>4, <3>5, ViewUntouched
      DEF AfterBusInv, HasMacro, ExtraActive
    <3>7. Round(w)' = r
      BY <1>3, <1>4, <3>3 DEF Round
    <3>8. WorkerInv(w)'
      BY <1>1, <1>4, <3>3, <3>6, <3>7 DEF WorkerInv, BeforeBus, AtBus
    <3>. QED
      BY <1>7, <1>8, <1>9, <2>2, <3>2, <3>8 DEF IInv
  <2>4. CASE Completes(macroBar[g], 1)
    <3>1. \A u \in Team(g) : u = w \/ u \in MacroArrived(g)
      BY <2>2, <2>4
    <3>2. /\ pc[Main] = "macro" /\ asleep[Main] /\ next = g
          /\ seen[Main] = macroBar[g].generation
      BY <1>2, <3>1 DEF MacroArrived, Team, Released
    <3>3. tickOffset[g] = 1
      BY <1>1, <3>2 DEF MainInv
    <3>4. macroBar[g].generation \in Nat /\ macroBar'[g].generation = macroBar[g].generation + 1
      BY <1>1, <1>2, <2>2, <2>4 DEF TypeOK, BarrierRecord
    <3>5. MacroFreed(g)'
      BY <1>2, <1>3, <1>5, <3>2, <3>4 DEF MacroFreed, Released
    <3>6. ASSUME NEW v \in WorkersOf(g), NEW q \in Int, q = Round(v), pc[v] = "macro",
                 ~MacroReleased(v)
          PROVE  PastMacro(v, q)'
      <4>1. v \in Workers /\ GroupOf[v] = g
        BY DEF WorkersOf
      <4>2. /\ nextTimeTick[g] = q + TickStep[g] /\ Beyond(q)
            /\ Gens(q + TickStep[g], q + TickStep[g], q + TickStep[g])
            /\ ~Active(currTick[v]) => EndTick <= StartTick + q + TickStep[g]
        BY <3>2, <3>3, <3>6, <4>1, MacroMeeting
      <4>3. nextTimeTick'[g] = q + TickStep[g] /\ tickOffset'[g] = 1
        BY <1>3, <3>3, <4>2 DEF groupVars
      <4>4. Beyond(q)' /\ Gens(q + TickStep[g], q + TickStep[g], q + TickStep[g])'
        BY <1>6, <4>2 DEF SameGens, Beyond, Gens
      <4>5. AgainAt(g, q + TickStep[g])'
        BY <3>5, <4>3, <4>4 DEF AgainAt, LiveAt
      <4>6. ~Active(currTick'[v]) => LastAt(g, q)'
        BY <1>3, <4>2, <4>3 DEF LastAt, Active
      <4>. QED
        BY <4>1, <4>4, <4>5, <4>6 DEF PastMacro
    <3>7. ASSUME NEW v \in Workers \ {w}
          PROVE  WorkerInv(v)'
      <4>1. CASE GroupOf[v] # g
        BY <1>10, <2>2, <4>1, WorkerFacts
      <4>2. CASE GroupOf[v] = g
        <5>1. PICK q \in Int : q = Round(v)
          BY <1>1, RoundFacts
        <5>2. v \in WorkersOf(g) /\ v # Main
          BY <4>2, WorkerFacts DEF WorkersOf
        <5>3. pc[v] = "macro" /\ asleep[v] /\ seen[v] = macroBar[g].generation
          BY <3>1, <5>2 DEF MacroArrived, Team, Released
        <5>4. ~MacroReleased(v)
          BY <4>2, <5>3 DEF MacroReleased, Released
        <5>5. PastMacro(v, q)'
          BY <3>6, <5>1, <5>2, <5>3, <5>4
        <5>6. SameWorker(v)
          BY <1>2, <1>3, <1>5 DEF SameWorker
        <5>7. MacroReleased(v)'
          BY <3>4, <4>2, <5>3, <5>6 DEF MacroReleased, Released, SameWorker
        <5>. QED
          BY <1>1, <5>1, <5>3, <5>5, <5>6, <5>7, WorkerFreed
      <4>. QED
        BY <4>1, <4>2
    <3>8. WorkerInv(w)'
      <4>1. ~asleep[w] /\ ~asleep'[w] /\ pc'[w] = AfterLoop(currTick[w])
        BY <1>1, <1>2, <1>11, <2>4 DEF EnterWait, TypeOK
      <4>2. w \in WorkersOf(g) /\ ~MacroReleased(w)
        BY <4>1 DEF WorkersOf, MacroReleased
      <4>3. PastMacro(w, r)'
        BY <1>3, <1>4, <3>6, <4>2
      <4>. QED
        BY <1>1, <1>3, <1>4, <4>1, <4>3, WorkerPastMacro
    <3>. QED
      BY <1>7, <1>8, <1>9, <2>2, <3>7, <3>8 DEF IInv
  <2>. QED
    BY <2>3, <2>4
<1>12. CASE LeaveWait(w, macroBar[g], AfterLoop(currTick[w])) /\ UNCHANGED macroBar
  <2>1. /\ asleep[w] /\ ~asleep'[w] /\ pc'[w] = AfterLoop(currTick[w])
        /\ MacroReleased(w) /\ macroBar' = macroBar
    BY <1>1, <1>2, <1>12 DEF LeaveWait, MacroReleased, TypeOK
  <2>2. PastMacro(w, r)
    BY <1>1, <1>3, <1>4, <2>1 DEF WorkerInv, AfterBusInv, PastMacro
  <2>3. PastMacro(w, r)'
    <3>1. SameView(g) /\ r + TickStep[g] \in Int
      BY <1>2, <1>8, <2>1, WorkerFacts
    <3>. QED
      BY <1>2, <1>3, <1>6, <2>2, <3>1, ViewUntouched DEF PastMacro, Active
  <2>4. WorkerInv(w)'
    BY <1>1, <1>3, <1>4, <2>1, <2>3, WorkerPastMacro
  <2>5. \A v \in Workers \ {w} : WorkerInv(v)'
    BY <1>10, <2>1, WorkerFacts
  <2>6. \A h \in Groups : MacroCountInv(h)'
    <3>1. w \in WorkersOf(g) /\ w \notin MacroArrived(g) /\ w \notin MacroArrived(g)'
      BY <1>2, <2>1 DEF MacroArrived, WorkersOf, MacroReleased
    <3>2. \A h \in Groups : h # g => w \notin WorkersOf(h)
      BY DEF WorkersOf
    <3>3. \A h \in Groups : w \notin MacroArrived(h) /\ w \notin MacroArrived(h)'
      BY <1>2, <3>1, <3>2 DEF MacroArrived, WorkersOf
    <3>. QED
      BY <1>1, <1>3, <1>5, <2>1, <3>3, MacroUnmoved
  <2>. QED
    BY <1>7, <1>8, <1>9, <2>4, <2>5, <2>6 DEF IInv
<1>. QED
  BY <1>11, <1>12 DEF WorkerMacro

\* Every step of a worker preserves the invariant.
LEMMA WorkerStepInv ==
  ASSUME IInv, NEW w \in Workers, WorkerStep(w)
  PROVE  IInv'
<1>1. TypeOK /\ TypeOK'
  BY WorkerStepType DEF IInv
<1>2. CASE WorkerZero(w)
  BY <1>1, <1>2, WorkerWaitStep DEF WorkerZero, AtBarrier, WorkerNext, Phases
<1>3. CASE PerformFrameTick(w)
  BY <1>1, <1>3, PerformFrameTickStep
<1>4. CASE WorkerFrameWait(w)
  BY <1>1, <1>4, WorkerWaitStep
  DEF WorkerFrameWait, WorkerWait, AtBarrier, WorkerNext, Phases
<1>5. CASE WorkerFlipWait(w)
  BY <1>1, <1>5, WorkerWaitStep
  DEF WorkerFlipWait, WorkerWait, AtBarrier, WorkerNext, Phases
<1>6. CASE WorkerBusWait(w)
  BY <1>1, <1>6, WorkerWaitStep
  DEF WorkerBusWait, WorkerWait, AtBarrier, WorkerNext, Phases
<1>7. CASE WorkerMacro(w)
  BY <1>1, <1>7, WorkerMacroStep
<1>. QED
  BY <1>2, <1>3, <1>4, <1>5, <1>6, <1>7 DEF WorkerStep
=============================================================================
