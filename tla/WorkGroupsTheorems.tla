-------------------------- MODULE WorkGroupsTheorems --------------------------
(***************************************************************************)
(* Every step of the main thread preserves the inductive invariant of the  *)
(* time-step protocol too, and the safety properties follow from it.  The  *)
(* protocol also implements the abstract phase clock.                      *)
(***************************************************************************)
EXTENDS WorkGroupsProofs
\* Main's step leaves each worker and each macro barrier where it is.
MainOnly ==
  /\ currTick' = currTick
  /\ macroBar' = macroBar
  /\ \A u \in Threads \ {Main} : pc'[u] = pc[u] /\ asleep'[u] = asleep[u] /\ seen'[u] = seen[u]

\* A main step that releases nobody.
LEMMA MainQuiet ==
  ASSUME TypeOK, NEW w \in Workers, WorkerInv(w), MainOnly, SameGens, Keeps(GroupOf[w])
  PROVE  WorkerInv(w)'
<1>1. SameWorker(w)
  BY WorkerFacts DEF MainOnly, SameWorker
<1>. QED
  BY <1>1, WorkerKept DEF MainOnly

\* Main's wait at a shared barrier, before its first tick or ending a phase.
MainWaits(b, after) ==
  /\ Wait(Main, b, after)
  /\ UNCHANGED <<macroBar, mainTick, groupVars, currTick>>
  /\ \/ pc[Main] = "zero" /\ b = "frame" /\ after = "frame" /\ next' = next
     \/ /\ pc[Main] = b /\ next \notin Groups
        /\ after = (IF b = "frame" THEN "flip" ELSE IF b = "flip" THEN "bus" ELSE "macro")
        /\ next' = IF pc'[Main] = b THEN next ELSE 1

\* The groups see nothing of it.
LEMMA MainWaitView ==
  ASSUME TypeOK, MainInv, NEW b \in Phases, NEW after, MainWaits(b, after), NEW g \in Groups
  PROVE  SameView(g)
<1>1. g \in Nat /\ 0 < g /\ g <= NumGroups /\ NumGroups \in Nat /\ Main \in Threads
  BY ConstantFacts
<1>2. next \in 1 .. NumGroups + 1
  BY DEF TypeOK
<1>3. pc'[Main] = pc[Main] \/ (pc'[Main] = after /\ ~asleep'[Main])
  BY <1>1 DEF MainWaits, Wait, Enter, Leave, EnterWait, LeaveWait, TypeOK
<1>4. K' = K /\ UNCHANGED <<macroBar, groupVars>>
  BY DEF K, MainWaits
<1>5. CASE pc[Main] = "zero" /\ b = "frame" /\ after = "frame" /\ next' = next
  <2>1. next = 1 /\ next' = 1
    BY <1>5 DEF MainInv
  <2>. QED
    BY <1>1, <1>3, <1>4, <1>5, <2>1
    DEF SameView, TickOf, Counted, Updating, MacroFreed, groupVars
<1>6. CASE pc[Main] = b /\ next \notin Groups
            /\ after = (IF b = "frame" THEN "flip" ELSE IF b = "flip" THEN "bus" ELSE "macro")
            /\ next' = IF pc'[Main] = b THEN next ELSE 1
  <2>1. next = NumGroups + 1
    BY <1>1, <1>2, <1>6 DEF Groups
  <2>2. TickOf(g)' = TickOf(g)
    BY <1>1, <1>3, <1>4, <1>6 DEF TickOf, Counted, Phases
  <2>3. MacroFreed(g)' <=> MacroFreed(g)
    BY <1>3, <1>6 DEF MacroFreed, Phases
  <2>4. Updating(g)' <=> Updating(g)
    BY <1>1, <1>3, <1>4, <1>6, <2>1 DEF Updating, Phases, groupVars
  <2>. QED
    BY <1>4, <2>2, <2>3, <2>4 DEF SameView, groupVars
<1>. QED
  BY <1>5, <1>6 DEF MainWaits

\* Main's own invariant when it gets through the barrier, as the last to arrive
\* or released by it, and when it goes to sleep.
LEMMA MainWaitInv ==
  ASSUME TypeOK, MainInv, NEW b \in Phases, NEW after, MainWaits(b, after),
         \/ ~asleep[Main] /\ Completes(bar[b], 1) /\ Bumped(b)
         \/ ~asleep[Main] /\ ~Completes(bar[b], 1) /\ SameGens
         \/ asleep[Main] /\ SameGens
  PROVE  MainInv'
<1>1. K' = K /\ ZeroWaits' = ZeroWaits /\ mainTick' = mainTick
  BY DEF K, ZeroWaits, MainWaits
<1>2. /\ F \in Int /\ B \in Int /\ M \in Int /\ K \in Int /\ ZeroWaits \in {0, 1}
      /\ F = bar["frame"].generation - ZeroWaits
      /\ B = bar["flip"].generation /\ M = bar["bus"].generation
      /\ bar["frame"].generation \in Nat
  BY IntFacts DEF Phases
<1>3. Main \in Threads
  BY ConstantFacts
<1>4. CASE ~asleep[Main] /\ ~Completes(bar[b], 1) /\ SameGens
  <2>1. pc' = pc /\ asleep'[Main] /\ seen'[Main] = bar[b].generation
    BY <1>3, <1>4 DEF MainWaits, Wait, Enter, Leave, EnterWait, LeaveWait, TypeOK
  <2>2. CASE pc[Main] = "zero"
    <3>1. b = "frame" /\ next' = next
      BY <2>2 DEF MainWaits, Phases
    <3>2. Mode = "medium" /\ K = 0 /\ next = 1 /\ Gens(-1, 0, 0)
      BY <1>4, <2>2 DEF MainInv
    <3>3. seen'[Main] = 0
      BY <1>2, <2>1, <3>1, <3>2 DEF Gens, ZeroWaits
    <3>. QED
      BY <1>1, <1>4, <2>1, <2>2, <3>1, <3>2, <3>3 DEF MainInv, SameGens, Gens
  <2>3. CASE pc[Main] # "zero"
    <3>1. pc[Main] = b /\ next \notin Groups /\ next' = next
      BY <2>1, <2>3 DEF MainWaits
    <3>2. CASE b = "frame"
      BY <1>1, <1>2, <1>4, <2>1, <3>1, <3>2 DEF MainInv, SameGens, Gens
    <3>3. CASE b = "flip"
      BY <1>1, <1>2, <1>4, <2>1, <3>1, <3>3 DEF MainInv, SameGens, Gens
    <3>4. CASE b = "bus"
      BY <1>1, <1>2, <1>4, <2>1, <3>1, <3>4 DEF MainInv, SameGens, Gens
    <3>. QED
      BY <3>2, <3>3, <3>4 DEF Phases
  <2>. QED
    BY <2>2, <2>3
<1>5. CASE \/ ~asleep[Main] /\ Completes(bar[b], 1) /\ Bumped(b)
           \/ asleep[Main] /\ SameGens
  <2>1. /\ pc'[Main] = after /\ ~asleep'[Main]
        /\ asleep[Main] => seen[Main] # bar[b].generation
    BY <1>3, <1>5 DEF MainWaits, Wait, Enter, Leave, EnterWait, LeaveWait, TypeOK, Released
  <2>2. CASE pc[Main] = "zero"
    <3>1. b = "frame" /\ next' = next /\ after = "frame"
      BY <2>2 DEF MainWaits, Phases
    <3>2. Mode = "medium" /\ K = 0 /\ next = 1
      BY <2>2 DEF MainInv
    <3>3. Gens(0, 0, 0)'
      <4>1. CASE ~asleep[Main] /\ Bumped(b)
        BY <2>2, <3>1, <4>1 DEF MainInv, Bumped, Gens
      <4>2. CASE asleep[Main] /\ SameGens
        BY <1>2, <2>1, <2>2, <3>1, <3>2, <4>2 DEF MainInv, SameGens, Gens, ZeroWaits
      <4>. QED
        BY <1>5, <4>1, <4>2
    <3>. QED
      BY <1>1, <2>1, <2>2, <3>1, <3>2, <3>3 DEF MainInv
  <2>3. CASE pc[Main] # "zero"
    <3>1. /\ pc[Main] = b
          /\ after = (IF b = "frame" THEN "flip" ELSE IF b = "flip" THEN "bus" ELSE "macro")
      BY <2>3 DEF MainWaits
    <3>2. CASE b = "frame"
      <4>1. Gens(K + 1, K, K)'
        BY <1>1, <1>2, <1>5, <2>1, <3>1, <3>2 DEF MainInv, SameGens, Bumped, Gens
      <4>. QED
        BY <1>1, <2>1, <3>1, <3>2, <4>1 DEF MainInv
    <3>3. CASE b = "flip"
      <4>1. Gens(K + 1, K + 1, K)'
        BY <1>1, <1>2, <1>5, <2>1, <3>1, <3>3 DEF MainInv, SameGens, Bumped, Gens
      <4>. QED
        BY <1>1, <2>1, <3>1, <3>3, <4>1 DEF MainInv
    <3>4. CASE b = "bus"
      <4>1. Gens(K + 1, K + 1, K + 1)'
        BY <1>1, <1>2, <1>5, <2>1, <3>1, <3>4 DEF MainInv, SameGens, Bumped, Gens
      <4>. QED
        BY <1>1, <2>1, <3>1, <3>4, <4>1 DEF MainInv
    <3>. QED
      BY <3>2, <3>3, <3>4 DEF Phases
  <2>. QED
    BY <2>2, <2>3
<1>. QED
  BY <1>4, <1>5

\* Main's step at a shared barrier preserves the invariant.
LEMMA MainWaitStep ==
  ASSUME IInv, TypeOK', NEW b \in Phases, NEW after, MainWaits(b, after)
  PROVE  IInv'
<1>1. /\ TypeOK /\ MainInv /\ \A g \in Groups : GroupInv(g)
      /\ \A v \in Workers : WorkerInv(v)
      /\ \A c \in Phases : CountInv(c)
      /\ \A g \in Groups : MacroCountInv(g)
  BY DEF IInv
<1>2. /\ Main \in Threads /\ Workers \subseteq Threads \ {Main}
      /\ AtBarrier(Main, b) /\ pc[Main] # "macro"
  BY ConstantFacts DEF MainWaits, AtBarrier, Phases
<1>3. MainOnly
  BY <1>1 DEF MainWaits, MainOnly, Wait, Enter, Leave, EnterWait, LeaveWait, TypeOK
<1>4. \A g \in Groups : SameView(g) /\ GroupInv(g)'
  BY <1>1, MainWaitView, GroupUntouched
<1>5. \A g \in Groups : MacroCountInv(g)'
  <2>1. ~(pc'[Main] = "macro" /\ asleep'[Main])
    BY <1>1, <1>2 DEF MainWaits, Wait, Enter, Leave, EnterWait, LeaveWait, TypeOK
  <2>. QED
    BY <1>1, <1>2, <1>3, <2>1, MacroUnmoved DEF MacroArrived, MainOnly
<1>6. ASSUME SameGens, NEW v \in Workers
      PROVE  WorkerInv(v)'
  BY <1>1, <1>3, <1>4, <1>6, MainQuiet, ViewKeeps, WorkerFacts
<1>7. pc[Main] = "zero" => next = 1
  BY <1>1 DEF MainInv
<1>8. CASE Enter(Main, b, after)
  <2>1. /\ ~asleep[Main] /\ ~Overflows(bar[b], 1)
        /\ bar' = [bar EXCEPT ![b] = Take(@, 1)]
    BY <1>8 DEF Enter, EnterWait
  <2>2. /\ after # b \/ pc[Main] = "zero"
        /\ IF Completes(bar[b], 1) THEN next' = 1 ELSE next' = next
    BY <1>1, <1>2, <1>7, <1>8 DEF MainWaits, Enter, EnterWait, TypeOK, Phases
  <2>3. /\ {Main} \in SUBSET Threads /\ {Main} \cap ArrivedAt(b) = {}
        /\ Cardinality({Main}) = 1
        /\ Arrives(b, {Main})
        /\ \A c \in Phases \ {b} : ArrivedAt(c)' = ArrivedAt(c)
    BY <1>2, <1>7, <1>8, <2>2, MainArrives DEF MainWaits
  <2>4. \A c \in Phases : CountInv(c)'
    BY <1>1, <2>1, <2>3, CountKept
  <2>5. /\ Completes(bar[b], 1) => Bumped(b)
        /\ ~Completes(bar[b], 1) => SameGens
    BY <1>1, <2>1, TakeGens
  <2>6. MainInv'
    BY <1>1, <2>1, <2>5, MainWaitInv
  <2>7. CASE Completes(bar[b], 1)
    <3>1. ArrivedAt(b) \cup {Main} = Threads
      <4>1. Completes(bar[b], Cardinality({Main})) <=> ArrivedAt(b) \cup {Main} = Threads
        BY <1>1, <2>3, ArrivalFits
      <4>. QED
        BY <2>3, <2>7, <4>1
    <3>2. ASSUME NEW v \in Workers
          PROVE  WorkerInv(v)'
      <4>1. v # Main /\ SameWorker(v) /\ SameView(GroupOf[v])
        BY <1>2, <1>3, <1>4, WorkerFacts DEF MainOnly, SameWorker
      <4>. QED
        BY <1>2, <1>3, <2>1, <2>5, <2>7, <3>1, <4>1, OthersReleased DEF MainOnly
    <3>. QED
      BY <1>4, <1>5, <2>4, <2>6, <3>2 DEF IInv
  <2>8. CASE ~Completes(bar[b], 1)
    BY <1>4, <1>5, <1>6, <2>4, <2>5, <2>6, <2>8 DEF IInv
  <2>. QED
    BY <2>7, <2>8
<1>9. CASE Leave(Main, b, after)
  <2>1. /\ asleep[Main] /\ Released(bar[b], seen[Main]) /\ bar' = bar
        /\ pc'[Main] = after /\ ~asleep'[Main]
    BY <1>1, <1>2, <1>9 DEF Leave, LeaveWait, TypeOK
  <2>2. SameGens
    BY <2>1 DEF SameGens, F, B, M, ZeroWaits
  <2>3. MainInv'
    BY <1>1, <2>1, <2>2, MainWaitInv
  <2>4. \A c \in Phases : ~Blocked(Main, c) /\ ~Blocked(Main, c)'
    BY <1>2, <2>1 DEF Blocked, AtBarrier, Phases
  <2>5. next' = 1
    BY <1>7, <2>1 DEF MainWaits, Phases
  <2>6. \A c \in Phases, g \in Groups : ~Answered(c, g) /\ ~Answered(c, g)'
    BY <2>1, <2>4, <2>5, ConstantFacts DEF Answered
  <2>7. \A c \in Phases : CountInv(c)'
    BY <1>1, <1>2, <1>3, <2>1, <2>4, <2>6, ArrivedUnmoved, CountUnmoved DEF MainOnly
  <2>. QED
    BY <1>4, <1>5, <1>6, <2>2, <2>3, <2>7 DEF IInv
<1>. QED
  BY <1>8, <1>9 DEF MainWaits, Wait

-----------------------------------------------------------------------------
(* Main's visit to a group in one of the three phases. *)

\* What Visit does to the barriers and to main.
LEMMA VisitFrame ==
  ASSUME IInv, TypeOK', NEW b \in Phases, Visit(b)
  PROVE  /\ MainOnly /\ SameGens
         /\ \A c \in Phases : CountInv(c)'
         /\ \A g \in Groups : MacroCountInv(g)'
         /\ MainInv'
         /\ pc'[Main] = b /\ ~asleep'[Main] /\ next \in Groups /\ next' = next + 1
         /\ tickOffset' = tickOffset /\ K' = K
<1>1. /\ TypeOK /\ MainInv
      /\ \A c \in Phases : CountInv(c)
      /\ \A g \in Groups : MacroCountInv(g)
  BY DEF IInv
<1>2. /\ pc[Main] = b /\ ~asleep[Main] /\ next \in Groups /\ next' = next + 1
      /\ UNCHANGED <<macroBar, pc, asleep, seen, mainTick, tickOffset, currTick>>
  BY DEF Visit, Visiting, threadVars
<1>3. MainOnly /\ K' = K
  BY <1>2 DEF MainOnly, K
<1>4. SameGens /\ \A c \in Phases : CountInv(c)'
  <2>1. CASE Contributes(b, next)
    <3>1. bar' = [bar EXCEPT ![b] = Take(@, Cardinality(WorkersOf(next)))]
      BY <2>1 DEF Visit
    <3>2. /\ WorkersOf(next) \in SUBSET Threads /\ WorkersOf(next) \cap ArrivedAt(b) = {}
          /\ SameGens
          /\ Arrives(b, WorkersOf(next))
          /\ \A c \in Phases \ {b} : ArrivedAt(c)' = ArrivedAt(c)
      BY <1>2, <2>1, <3>1, AnswerFits, AnswerArrives DEF Visiting, threadVars
    <3>. QED
      BY <1>1, <3>1, <3>2, CountKept
  <2>2. CASE ~Contributes(b, next)
    <3>1. bar' = bar
      BY <2>2 DEF Visit
    <3>2. SameGens
      BY <3>1 DEF SameGens, F, B, M, ZeroWaits
    <3>3. \A u \in Threads, c \in Phases : Blocked(u, c)' <=> Blocked(u, c)
      BY <1>2, <3>1 DEF Blocked, Released
    <3>4. \A g \in Groups, c \in Phases : Answered(c, g)' <=> Answered(c, g)
      <4>. SUFFICES ASSUME NEW g \in Groups, NEW c \in Phases
                    PROVE  Answered(c, g)' <=> Answered(c, g)
        OBVIOUS
      <4>1. g \in Nat /\ next \in Nat
        BY <1>2, ConstantFacts
      <4>2. g < next + 1 <=> g < next \/ g = next
        BY <4>1
      <4>3. pc[Main] = c /\ g = next => ~Contributes(c, g)
        BY <1>2, <2>2
      <4>. QED
        BY <1>2, <4>2, <4>3 DEF Answered, Contributes
    <3>5. \A c \in Phases : ArrivedAt(c)' = ArrivedAt(c)
      BY <3>3, <3>4, ConstantFacts DEF ArrivedAt
    <3>. QED
      BY <1>1, <3>1, <3>2, <3>5, CountUnmoved
  <2>. QED
    BY <2>1, <2>2
<1>5. \A g \in Groups : MacroCountInv(g)'
  BY <1>1, <1>2, <1>3, MacroUnmoved DEF MacroArrived, MainOnly, Phases
<1>6. MainInv'
  <2>1. pc[Main] \notin {"zero", "macro", "done"} /\ ZeroWaits' = ZeroWaits
    BY <1>2 DEF Phases, ZeroWaits
  <2>. QED
    BY <1>1, <1>2, <1>3, <1>4, <2>1 DEF MainInv, SameGens, Gens, Phases
<1>. QED
  BY <1>2, <1>3, <1>4, <1>5, <1>6

\* A visit that leaves the group's clocks alone is not seen by the groups.
LEMMA VisitView ==
  ASSUME IInv, TypeOK', NEW b \in Phases, Visit(b),
         currTimeTick' = currTimeTick, nextTimeTick' = nextTimeTick,
         b = "frame" => tickOffset[next] # 0, NEW g \in Groups
  PROVE  SameView(g)
<1>1. /\ pc[Main] = b /\ pc'[Main] = b /\ ~asleep[Main] /\ ~asleep'[Main]
      /\ next \in Groups /\ next' = next + 1
      /\ tickOffset' = tickOffset /\ K' = K
  BY VisitFrame DEF Visit, Visiting
<1>2. g \in Nat /\ next \in Nat
  BY <1>1, ConstantFacts
<1>3. TickOf(g)' = TickOf(g) /\ ~MacroFreed(g) /\ ~MacroFreed(g)'
  BY <1>1 DEF TickOf, Counted, MacroFreed, Phases
<1>4. Updating(g)' <=> Updating(g)
  <2>1. CASE b = "frame"
    <3>1. g < next + 1 <=> g < next \/ g = next
      BY <1>2
    <3>. QED
      BY <1>1, <2>1, <3>1 DEF Updating
  <2>2. CASE b # "frame"
    BY <1>1, <2>2 DEF Updating, Phases
  <2>. QED
    BY <2>1, <2>2
<1>. QED
  BY <1>1, <1>3, <1>4 DEF SameView

LEMMA VisitStep ==
  ASSUME IInv, TypeOK', NEW b \in Phases, Visit(b),
         currTimeTick' = currTimeTick, nextTimeTick' = nextTimeTick,
         b = "frame" => tickOffset[next] # 0
  PROVE  IInv'
<1>1. \A g \in Groups : SameView(g)
  BY VisitView
<1>2. /\ MainOnly /\ SameGens /\ MainInv'
      /\ \A c \in Phases : CountInv(c)'
      /\ \A g \in Groups : MacroCountInv(g)'
  BY VisitFrame
<1>3. \A g \in Groups : GroupInv(g)'
  BY <1>1, GroupUntouched DEF IInv
<1>4. \A w \in Workers : WorkerInv(w)'
  BY <1>1, <1>2, MainQuiet, ViewKeeps, WorkerFacts DEF IInv
<1>. QED
  BY <1>2, <1>3, <1>4 DEF IInv

\* waitFrameTick begins an update of the group: its workers, if it has any left,
\* are exactly in the tick that begins.
LEMMA BeginUpdateStep ==
  ASSUME IInv, TypeOK', WaitFrameTick, NEW g \in Groups, next = g, tickOffset[g] = 0
  PROVE  IInv'
<1>1. /\ TypeOK /\ MainInv /\ \A h \in Groups : GroupInv(h)
      /\ \A v \in Workers : WorkerInv(v)
  BY DEF IInv
<1>2. Visit("frame") /\ "frame" \in Phases
  BY DEF WaitFrameTick, Phases
<1>3. /\ MainOnly /\ SameGens /\ MainInv'
      /\ \A c \in Phases : CountInv(c)'
      /\ \A h \in Groups : MacroCountInv(h)'
      /\ pc[Main] = "frame" /\ pc'[Main] = "frame" /\ ~asleep[Main] /\ ~asleep'[Main]
      /\ next' = g + 1
      /\ tickOffset' = tickOffset /\ K' = K
  BY <1>2, VisitFrame DEF Visit, Visiting
<1>4. /\ currTimeTick' = [currTimeTick EXCEPT ![g] = nextTimeTick[g]]
      /\ nextTimeTick' = [nextTimeTick EXCEPT ![g] = @ + TickStep[g]]
  BY DEF WaitFrameTick
<1>5. /\ g \in Nat /\ K \in Int /\ TickStep[g] \in Nat /\ TickStep[g] > 0
      /\ nextTimeTick[g] \in Nat /\ StartTick \in Nat /\ EndTick \in Nat /\ mainTick \in Nat
  BY <1>1, IntFacts, ConstantFacts DEF TypeOK
<1>6. ~Updating(g) /\ TickOf(g) = K /\ TickOf(g)' = K
  BY <1>3, <1>5 DEF Updating, TickOf, Counted
<1>7. Updating(g)' /\ ~MacroFreed(g) /\ ~MacroFreed(g)'
  BY <1>3, <1>5 DEF Updating, MacroFreed
<1>8. nextTimeTick[g] = K /\ 0 <= K
  BY <1>1, <1>3, <1>5, <1>6 DEF GroupInv
<1>9. nextTimeTick'[g] = K + TickStep[g] /\ currTimeTick'[g] = K
  BY <1>1, <1>4, <1>8 DEF TypeOK
<1>10. ASSUME NEW h \in Groups \ {g}
       PROVE  SameView(h)
  <2>1. nextTimeTick'[h] = nextTimeTick[h] /\ currTimeTick'[h] = currTimeTick[h]
    BY <1>1, <1>4 DEF TypeOK
  <2>2. h \in Nat /\ (h < g + 1 <=> h < g)
    BY <1>5, ConstantFacts
  <2>. QED
    BY <1>3, <2>1, <2>2 DEF SameView, TickOf, Counted, Updating, MacroFreed
<1>11. \A h \in Groups : GroupInv(h)'
  <2>1. GroupInv(g)'
    BY <1>3, <1>5, <1>6, <1>7, <1>8, <1>9 DEF GroupInv
  <2>2. \A h \in Groups \ {g} : GroupInv(h)'
    BY <1>1, <1>10, GroupUntouched
  <2>. QED
    BY <2>1, <2>2
<1>12. Keeps(g)
  <2>. SUFFICES ASSUME NEW r \in Int
                PROVE  /\ M = r /\ LiveAt(g, r) => LiveAt(g, r)'
                       /\ HasMacro(g) /\ IdleAt(g, r) => IdleAt(g, r)'
                       /\ LastAt(g, r) => LastAt(g, r)'
    BY DEF Keeps
  <2>1. M = K
    BY <1>1, <1>3 DEF MainInv, Gens
  <2>2. M = r => LiveAt(g, r)'
    BY <1>7, <1>9, <2>1 DEF LiveAt
  <2>3. ~IdleAt(g, r)
    BY <1>6 DEF IdleAt
  <2>4. ~LastAt(g, r)
    <3>1. K # EndTick - StartTick
      BY <1>1, <1>3, <1>5 DEF MainInv, K
    <3>. QED
      BY <1>6, <3>1 DEF LastAt
  <2>. QED
    BY <2>2, <2>3, <2>4
<1>13. ASSUME NEW w \in Workers
       PROVE  WorkerInv(w)'
  <2>1. Keeps(GroupOf[w])
    BY <1>3, <1>10, <1>12, ViewKeeps, WorkerFacts
  <2>. QED
    BY <1>1, <1>3, <2>1, MainQuiet
<1>. QED
  BY <1>3, <1>11, <1>13 DEF IInv

LEMMA WaitFrameTickStep ==
  ASSUME IInv, TypeOK', WaitFrameTick
  PROVE  IInv'
<1>1. Visit("frame") /\ "frame" \in Phases /\ next \in Groups
  BY DEF WaitFrameTick, Visit, Visiting, Phases
<1>2. CASE tickOffset[next] = 0
  BY <1>1, <1>2, BeginUpdateStep
<1>3. CASE tickOffset[next] # 0
  BY <1>1, <1>3, VisitStep DEF WaitFrameTick
<1>. QED
  BY <1>2, <1>3

-----------------------------------------------------------------------------
(* The countdown of main after the three phases. *)

\* Main goes on from group g to the next one.
PastGroup(g) ==
  /\ pc[Main] = "macro" /\ pc'[Main] = "macro" /\ ~asleep'[Main]
  /\ next = g /\ next' = g + 1
  /\ bar' = bar /\ currTick' = currTick
  /\ UNCHANGED <<mainTick, currTimeTick, nextTimeTick>>
  /\ tickOffset' = [tickOffset EXCEPT ![g] =
                      (IF @ = 0 THEN TickStep[g] ELSE @) - 1]
  /\ \A u \in Threads \ {Main} : pc'[u] = pc[u] /\ asleep'[u] = asleep[u] /\ seen'[u] = seen[u]

\* What it leaves alone, and what becomes of the countdown of g.
LEMMA PastGroupFrame ==
  ASSUME IInv, NEW g \in Groups, PastGroup(g), asleep[Main] => tickOffset[g] = 1
  PROVE  /\ SameGens /\ MainInv' /\ K' = K
         /\ \A c \in Phases : CountInv(c)'
         /\ \A h \in Groups \ {g} : SameView(h)
         /\ \A h \in Groups : GroupInv(h)'
         /\ TickOf(g) = K /\ TickOf(g)' = K + 1
         /\ Updating(g) <=> tickOffset[g] = 0
         /\ ~Updating(g)' /\ ~MacroFreed(g)'
         /\ tickOffset'[g] = (IF tickOffset[g] = 0 THEN TickStep[g] ELSE tickOffset[g]) - 1
<1>1. /\ TypeOK /\ MainInv /\ \A h \in Groups : GroupInv(h)
      /\ \A c \in Phases : CountInv(c)
  BY DEF IInv
<1>2. /\ g \in Nat /\ K \in Int /\ TickStep[g] \in Nat /\ TickStep[g] > 0
      /\ tickOffset[g] \in Nat /\ nextTimeTick[g] \in Nat /\ 0 <= K
  BY <1>1, IntFacts, ConstantFacts DEF TypeOK, MainInv, K
<1>3. SameGens /\ K' = K /\ ZeroWaits' = ZeroWaits
  BY DEF PastGroup, SameGens, F, B, M, K, ZeroWaits
<1>4. MainInv'
  BY <1>1, <1>3 DEF PastGroup, MainInv, SameGens, Gens
<1>5. \A c \in Phases : CountInv(c)'
  <2>1. \A c \in Phases : ~Blocked(Main, c) /\ ~Blocked(Main, c)'
    BY DEF PastGroup, Blocked, Phases
  <2>2. \A c \in Phases, h \in Groups : ~Answered(c, h) /\ ~Answered(c, h)'
    BY DEF PastGroup, Answered, Phases
  <2>. QED
    BY <1>1, <2>1, <2>2, ArrivedUnmoved, CountUnmoved, ConstantFacts DEF PastGroup
<1>6. ASSUME NEW h \in Groups \ {g}
      PROVE  SameView(h)
  <2>1. h \in Nat /\ (h < g + 1 <=> h < g) /\ (g + 1 <= h <=> g <= h)
    BY <1>2, ConstantFacts
  <2>2. tickOffset'[h] = tickOffset[h]
    BY <1>1 DEF PastGroup, TypeOK
  <2>. QED
    BY <1>3, <2>1, <2>2 DEF PastGroup, SameView, TickOf, Counted, Updating, MacroFreed
<1>7. TickOf(g) = K /\ TickOf(g)' = K + 1
  BY <1>2, <1>3 DEF PastGroup, TickOf, Counted
<1>8. (Updating(g) <=> tickOffset[g] = 0) /\ ~Updating(g)' /\ ~MacroFreed(g)'
  BY <1>2 DEF PastGroup, Updating, MacroFreed
<1>9. /\ tickOffset'[g] = (IF tickOffset[g] = 0 THEN TickStep[g] ELSE tickOffset[g]) - 1
      /\ nextTimeTick' = nextTimeTick /\ currTimeTick' = currTimeTick
  BY <1>1 DEF PastGroup, TypeOK
<1>10. GroupInv(g)'
  <2>1. GroupInv(g)
    BY <1>1
  <2>2. CASE tickOffset[g] = 0
    <3>1. nextTimeTick[g] = K + TickStep[g] /\ tickOffset'[g] = TickStep[g] - 1
      BY <2>1, <2>2, <1>7, <1>8, <1>9 DEF GroupInv
    <3>. QED
      BY <2>1, <3>1, <1>2, <1>7, <1>8, <1>9 DEF GroupInv
  <2>3. CASE tickOffset[g] # 0
    <3>1. /\ nextTimeTick[g] = K + tickOffset[g] /\ tickOffset'[g] = tickOffset[g] - 1
          /\ tickOffset[g] < TickStep[g]
      BY <2>1, <2>3, <1>7, <1>9 DEF GroupInv
    <3>. QED
      BY <2>1, <2>3, <3>1, <1>2, <1>7, <1>8, <1>9 DEF GroupInv
  <2>. QED
    BY <2>2, <2>3
<1>11. \A h \in Groups : GroupInv(h)'
  BY <1>1, <1>6, <1>10, GroupUntouched
<1>. QED
  BY <1>3, <1>4, <1>5, <1>6, <1>7, <1>8, <1>9, <1>11

\* A worker of g whose last update is over stays past it.
LEMMA LastPastGroup ==
  ASSUME IInv, NEW g \in Groups, PastGroup(g), asleep[Main] => tickOffset[g] = 1,
         NEW r \in Int, LastAt(g, r)
  PROVE  LastAt(g, r)'
<1>1. /\ TickOf(g) = K /\ TickOf(g)' = K + 1
      /\ Updating(g) <=> tickOffset[g] = 0
      /\ tickOffset'[g] = (IF tickOffset[g] = 0 THEN TickStep[g] ELSE tickOffset[g]) - 1
  BY PastGroupFrame
<1>2. /\ MainInv /\ GroupInv(g) /\ TypeOK
      /\ nextTimeTick' = nextTimeTick
      /\ pc[Main] = "macro"
  BY DEF IInv, PastGroup
<1>3. /\ TickStep[g] \in Nat /\ tickOffset[g] \in Nat /\ K \in Int /\ mainTick \in Nat
      /\ StartTick \in Nat /\ EndTick \in Nat /\ K = mainTick - StartTick
  BY <1>2, IntFacts, ConstantFacts DEF TypeOK
<1>4. nextTimeTick[g] = r + TickStep[g] /\ EndTick <= StartTick + r + TickStep[g]
  BY DEF LastAt
<1>. SUFFICES ASSUME tickOffset'[g] = 0
              PROVE  TickOf(g)' = EndTick - StartTick
  BY <1>2, <1>4 DEF LastAt
<1>5. nextTimeTick[g] = K + 1
  <2>1. CASE tickOffset[g] = 0
    BY <1>1, <1>2, <1>3, <2>1 DEF GroupInv
  <2>2. CASE tickOffset[g] # 0
    BY <1>1, <1>2, <1>3, <2>2 DEF GroupInv
  <2>. QED
    BY <2>1, <2>2
<1>6. mainTick < EndTick
  BY <1>2 DEF MainInv
<1>. QED
  BY <1>1, <1>3, <1>4, <1>5, <1>6

\* Counting down away from offset one.
LEMMA CountDownStep ==
  ASSUME IInv, TypeOK', CountDown, NEW g \in Groups, next = g
  PROVE  IInv'
<1>1. /\ TypeOK /\ MainInv /\ GroupInv(g)
      /\ \A v \in Workers : WorkerInv(v)
      /\ \A h \in Groups : MacroCountInv(h)
  BY DEF IInv
<1>2. PastGroup(g) /\ ~asleep[Main] /\ tickOffset[g] # 1 /\ MainOnly
  BY DEF CountDown, Visiting, PastGroup, MainOnly, barrierVars, threadVars
<1>3. /\ SameGens /\ MainInv' /\ K' = K
      /\ \A c \in Phases : CountInv(c)'
      /\ \A h \in Groups \ {g} : SameView(h)
      /\ \A h \in Groups : GroupInv(h)'
      /\ TickOf(g) = K /\ TickOf(g)' = K + 1
      /\ Updating(g) <=> tickOffset[g] = 0
      /\ ~Updating(g)' /\ ~MacroFreed(g)'
      /\ tickOffset'[g] = (IF tickOffset[g] = 0 THEN TickStep[g] ELSE tickOffset[g]) - 1
  BY <1>2, PastGroupFrame
<1>4. /\ TickStep[g] \in Nat /\ TickStep[g] > 0 /\ tickOffset[g] \in Nat /\ K \in Int
      /\ nextTimeTick'[g] = nextTimeTick[g] /\ nextTimeTick[g] \in Nat
  BY <1>1, <1>2, IntFacts, ConstantFacts DEF TypeOK, PastGroup
<1>5. ~MacroFreed(g)
  BY <1>2 DEF MacroFreed
<1>6. Keeps(g)
  <2>. SUFFICES ASSUME NEW r \in Int
                PROVE  /\ M = r /\ LiveAt(g, r) => LiveAt(g, r)'
                       /\ HasMacro(g) /\ IdleAt(g, r) => IdleAt(g, r)'
                       /\ LastAt(g, r) => LastAt(g, r)'
    BY DEF Keeps
  <2>1. ASSUME M = r, LiveAt(g, r)
        PROVE  LiveAt(g, r)'
    <3>1. M = K + 1
      BY <1>1, <1>2 DEF MainInv, Gens, PastGroup
    <3>2. tickOffset[g] = 0
      BY <2>1, <1>3, <1>5 DEF LiveAt
    <3>3. nextTimeTick[g] = K + TickStep[g]
      BY <3>2, <1>1, <1>3 DEF GroupInv
    <3>4. nextTimeTick[g] = r
      BY <2>1, <3>1, <3>3, <1>4 DEF LiveAt
    <3>5. TickStep[g] = 1
      BY <2>1, <3>1, <3>3, <3>4, <1>4
    <3>. QED
      BY <3>2, <3>4, <3>5, <1>3, <1>4 DEF LiveAt
  <2>2. HasMacro(g) /\ IdleAt(g, r) => IdleAt(g, r)'
    BY <1>2, <1>3, <1>4 DEF IdleAt, HasMacro
  <2>3. LastAt(g, r) => LastAt(g, r)'
    BY <1>2, LastPastGroup
  <2>. QED
    BY <2>1, <2>2, <2>3
<1>7. \A w \in Workers : WorkerInv(w)'
  BY <1>1, <1>2, <1>3, <1>6, MainQuiet, ViewKeeps, WorkerFacts
<1>8. \A h \in Groups : MacroCountInv(h)'
  BY <1>1, <1>2, MacroUnmoved DEF MacroArrived, MainOnly, PastGroup
<1>. QED
  BY <1>3, <1>7, <1>8 DEF IInv

\* Main goes to sleep in the wait on the macro barrier of g.
LEMMA MainMacroHeld ==
  ASSUME IInv, TypeOK', MainMacro, NEW g \in Groups, next = g,
         EnterWait(Main, macroBar[g], "macro"),
         macroBar' = [macroBar EXCEPT ![g] = Take(@, 1)],
         ~Completes(macroBar[g], 1)
  PROVE  IInv'
<1>1. /\ TypeOK /\ MainInv
      /\ \A v \in Workers : WorkerInv(v)
      /\ \A c \in Phases : CountInv(c)
      /\ \A h \in Groups : MacroCountInv(h) /\ GroupInv(h)
      /\ Main \in Threads /\ Workers \subseteq Threads \ {Main}
  BY ConstantFacts DEF IInv
<1>2. /\ pc[Main] = "macro" /\ tickOffset[g] = 1 /\ HasMacro(g)
      /\ ~asleep[Main] /\ asleep'[Main] /\ pc' = pc
      /\ seen'[Main] = macroBar[g].generation
      /\ next' = next /\ tickOffset' = tickOffset
      /\ UNCHANGED <<bar, mainTick, currTimeTick, nextTimeTick, currTick>>
      /\ \A u \in Threads \ {Main} : pc'[u] = pc[u] /\ asleep'[u] = asleep[u] /\ seen'[u] = seen[u]
  BY <1>1 DEF MainMacro, EnterWait, TypeOK
<1>3. AtMacro(Main, g)
  BY <1>2 DEF AtMacro, Team
<1>4. /\ \A h \in Groups : MacroCountInv(h)'
      /\ \A h \in Groups : macroBar'[h].generation = macroBar[h].generation
  BY <1>1, <1>2, <1>3, MacroEnter
<1>5. SameGens /\ K' = K /\ ZeroWaits' = ZeroWaits
  BY <1>2 DEF SameGens, F, B, M, K, ZeroWaits
<1>6. MainInv'
  BY <1>1, <1>2, <1>5 DEF MainInv, SameGens, Gens, HasMacro
<1>7. \A h \in Groups : SameView(h) /\ GroupInv(h)'
  <2>1. \A h \in Groups : ~MacroFreed(h) /\ ~MacroFreed(h)'
    BY <1>2, <1>4 DEF MacroFreed, Released
  <2>2. \A h \in Groups : SameView(h)
    BY <1>2, <1>5, <2>1 DEF SameView, TickOf, Counted, Updating
  <2>. QED
    BY <1>1, <2>2, GroupUntouched
<1>8. \A w \in Workers : WorkerInv(w)'
  <2>. SUFFICES ASSUME NEW w \in Workers PROVE WorkerInv(w)'
    OBVIOUS
  <2>1. SameWorker(w) /\ SameView(GroupOf[w]) /\ GroupOf[w] \in Groups
    BY <1>1, <1>2, <1>7, WorkerFacts DEF SameWorker
  <2>. QED
    BY <1>1, <1>4, <1>5, <2>1, WorkerUntouched
<1>9. \A c \in Phases : CountInv(c)'
  <2>1. \A c \in Phases : ~Blocked(Main, c) /\ ~Blocked(Main, c)'
    BY <1>2 DEF Blocked, Phases
  <2>2. \A c \in Phases, h \in Groups : ~Answered(c, h) /\ ~Answered(c, h)'
    BY <1>2 DEF Answered, Phases
  <2>. QED
    BY <1>1, <1>2, <2>1, <2>2, ArrivedUnmoved, CountUnmoved
<1>. QED
  BY <1>4, <1>6, <1>7, <1>8, <1>9 DEF IInv

\* Main is the last at the macro barrier of g and releases its workers.
LEMMA MainMacroLast ==
  ASSUME IInv, TypeOK', MainMacro, NEW g \in Groups, next = g,
         EnterWait(Main, macroBar[g], "macro"),
         macroBar' = [macroBar EXCEPT ![g] = Take(@, 1)],
         Completes(macroBar[g], 1)
  PROVE  IInv'
<1>1. /\ TypeOK /\ MainInv
      /\ \A v \in Workers : WorkerInv(v)
      /\ \A h \in Groups : MacroCountInv(h)
      /\ Main \in Threads /\ Workers \subseteq Threads \ {Main}
  BY ConstantFacts DEF IInv
<1>2. /\ pc[Main] = "macro" /\ tickOffset[g] = 1 /\ ~asleep[Main] /\ ~asleep'[Main]
      /\ pc'[Main] = "macro" /\ nextTimeTick' = nextTimeTick /\ currTick' = currTick
      /\ \A u \in Threads \ {Main} : pc'[u] = pc[u] /\ asleep'[u] = asleep[u] /\ seen'[u] = seen[u]
  BY <1>1 DEF MainMacro, EnterWait, TypeOK
<1>3. PastGroup(g)
  BY <1>1, <1>2 DEF MainMacro, PastGroup
<1>4. /\ SameGens /\ MainInv'
      /\ \A c \in Phases : CountInv(c)'
      /\ \A h \in Groups \ {g} : SameView(h)
      /\ \A h \in Groups : GroupInv(h)'
      /\ ~Updating(g)' /\ tickOffset'[g] = 0
  BY <1>2, <1>3, PastGroupFrame
<1>5. AtMacro(Main, g)
  BY <1>2 DEF AtMacro, Team
<1>6. /\ \A h \in Groups : MacroCountInv(h)'
      /\ MacroArrived(g) \cup {Main} = Team(g)
      /\ macroBar'[g].generation = macroBar[g].generation + 1
      /\ \A h \in Groups \ {g} : macroBar'[h] = macroBar[h]
  BY <1>1, <1>2, <1>5, MacroEnter
<1>7. ASSUME NEW w \in Workers, GroupOf[w] = g
      PROVE  WorkerInv(w)'
  <2>1. PICK r \in Int : r = Round(w)
    BY <1>1, RoundFacts
  <2>2. w \in WorkersOf(g) /\ w \in MacroArrived(g) /\ SameWorker(w)
    BY <1>1, <1>2, <1>6, <1>7, WorkerFacts DEF WorkersOf, Team, SameWorker
  <2>3. pc[w] = "macro" /\ asleep[w] /\ seen[w] = macroBar[g].generation /\ ~MacroReleased(w)
    BY <1>7, <2>2 DEF MacroArrived, Released, MacroReleased
  <2>4. MacroReleased(w)'
    <3>1. macroBar[g].generation \in Nat
      BY <1>1 DEF TypeOK, BarrierRecord
    <3>. QED
      BY <1>6, <1>7, <2>2, <2>3, <3>1 DEF SameWorker, MacroReleased, Released
  <2>5. /\ nextTimeTick[g] = r + TickStep[g] /\ Beyond(r)
        /\ Gens(r + TickStep[g], r + TickStep[g], r + TickStep[g])
        /\ ~Active(currTick[w]) => EndTick <= StartTick + r + TickStep[g]
    BY <1>2, <1>7, <2>1, <2>3, MacroMeeting
  <2>6. PastMacro(w, r)'
    <3>1. Beyond(r)' /\ Gens(r + TickStep[g], r + TickStep[g], r + TickStep[g])'
      BY <1>4, <2>5 DEF SameGens, Beyond, Gens
    <3>2. AgainAt(g, r + TickStep[g])'
      BY <1>2, <1>4, <2>5, <3>1 DEF AgainAt, LiveAt
    <3>3. ~Active(currTick[w]) => LastAt(g, r)'
      <4>1. tickOffset[g] # 0
        BY <1>2
      <4>2. ~Active(currTick[w]) => LastAt(g, r)
        BY <2>5, <4>1 DEF LastAt
      <4>. QED
        BY <1>2, <1>3, <4>2, LastPastGroup
    <3>. QED
      BY <1>2, <1>7, <3>1, <3>2, <3>3 DEF PastMacro, Active
  <2>. QED
    BY <1>1, <2>1, <2>2, <2>3, <2>4, <2>6, WorkerFreed
<1>8. ASSUME NEW w \in Workers, GroupOf[w] # g
      PROVE  WorkerInv(w)'
  <2>1. SameWorker(w) /\ SameView(GroupOf[w]) /\ macroBar'[GroupOf[w]] = macroBar[GroupOf[w]]
    BY <1>1, <1>2, <1>4, <1>6, <1>8, WorkerFacts DEF SameWorker
  <2>. QED
    BY <1>1, <1>4, <2>1, WorkerUntouched
<1>. QED
  BY <1>4, <1>6, <1>7, <1>8 DEF IInv

\* Main leaves the macro barrier of g, which had released it.
LEMMA MainMacroLeave ==
  ASSUME IInv, TypeOK', MainMacro, NEW g \in Groups, next = g,
         LeaveWait(Main, macroBar[g], "macro"), macroBar' = macroBar
  PROVE  IInv'
<1>1. /\ TypeOK
      /\ \A v \in Workers : WorkerInv(v)
      /\ \A h \in Groups : MacroCountInv(h)
      /\ Main \in Threads
  BY ConstantFacts DEF IInv
<1>2. /\ pc[Main] = "macro" /\ tickOffset[g] = 1 /\ asleep[Main] /\ ~asleep'[Main]
      /\ Released(macroBar[g], seen[Main])
      /\ pc'[Main] = "macro" /\ nextTimeTick' = nextTimeTick /\ currTick' = currTick
      /\ \A u \in Threads \ {Main} : pc'[u] = pc[u] /\ asleep'[u] = asleep[u] /\ seen'[u] = seen[u]
  BY <1>1 DEF MainMacro, LeaveWait, TypeOK
<1>3. PastGroup(g) /\ MainOnly
  BY <1>1, <1>2 DEF MainMacro, PastGroup, MainOnly
<1>4. /\ SameGens /\ MainInv'
      /\ \A c \in Phases : CountInv(c)'
      /\ \A h \in Groups \ {g} : SameView(h)
      /\ \A h \in Groups : GroupInv(h)'
      /\ ~Updating(g)' /\ tickOffset'[g] = 0
  BY <1>2, <1>3, PastGroupFrame
<1>5. Keeps(g)
  <2>1. MacroFreed(g)
    BY <1>2 DEF MacroFreed
  <2>2. \A r \in Int : LiveAt(g, r) => LiveAt(g, r)'
    <3>1. ~Updating(g)
      BY <1>2 DEF Updating
    <3>. QED
      BY <1>2, <1>4, <3>1 DEF LiveAt
  <2>3. \A r \in Int : ~IdleAt(g, r)
    BY <2>1 DEF IdleAt
  <2>4. \A r \in Int : LastAt(g, r) => LastAt(g, r)'
    BY <1>2, <1>3, LastPastGroup
  <2>. QED
    BY <2>2, <2>3, <2>4 DEF Keeps
<1>6. \A w \in Workers : WorkerInv(w)'
  BY <1>1, <1>3, <1>4, <1>5, MainQuiet, ViewKeeps, WorkerFacts
<1>7. \A h \in Groups : MacroCountInv(h)'
  <2>1. \A h \in Groups : Main \notin MacroArrived(h) /\ Main \notin MacroArrived(h)'
    BY <1>2 DEF MacroArrived
  <2>. QED
    BY <1>1, <1>3, <2>1, MacroUnmoved DEF MainOnly
<1>. QED
  BY <1>4, <1>6, <1>7 DEF IInv

LEMMA MainMacroStep ==
  ASSUME IInv, TypeOK', MainMacro
  PROVE  IInv'
<1>1. next \in Groups
  BY DEF MainMacro
<1>2. \/ /\ EnterWait(Main, macroBar[next], "macro")
         /\ macroBar' = [macroBar EXCEPT ![next] = Take(@, 1)]
      \/ LeaveWait(Main, macroBar[next], "macro") /\ macroBar' = macroBar
  BY DEF MainMacro
<1>. QED
  BY <1>1, <1>2, MainMacroHeld, MainMacroLast, MainMacroLeave

\* The next base tick: for the groups it has already begun.
LEMMA MainNextTickStep ==
  ASSUME IInv, TypeOK', MainNextTick
  PROVE  IInv'
<1>1. /\ TypeOK /\ MainInv
      /\ \A v \in Workers : WorkerInv(v)
      /\ \A c \in Phases : CountInv(c)
      /\ \A h \in Groups : MacroCountInv(h) /\ GroupInv(h)
      /\ Main \in Threads
  BY ConstantFacts DEF IInv
<1>2. /\ pc[Main] = "macro" /\ next \notin Groups /\ next' = 1 /\ mainTick' = mainTick + 1
      /\ pc'[Main] = (IF mainTick + 1 < EndTick THEN "frame" ELSE "done")
      /\ UNCHANGED <<barrierVars, asleep, seen, groupVars, currTick>>
      /\ \A u \in Threads \ {Main} : pc'[u] = pc[u] /\ asleep'[u] = asleep[u] /\ seen'[u] = seen[u]
  BY <1>1 DEF MainNextTick, TypeOK
<1>3. ~asleep[Main] /\ ~asleep'[Main] /\ mainTick < EndTick /\ StartTick <= mainTick
  BY <1>1, <1>2 DEF MainInv
<1>4. /\ mainTick \in Nat /\ StartTick \in Nat /\ EndTick \in Nat /\ NumGroups \in Nat
      /\ next = NumGroups + 1
  BY <1>1, <1>2, ConstantFacts DEF TypeOK, Groups
<1>5. K \in Int /\ K' = K + 1
  BY <1>2, <1>4 DEF K
<1>6. SameGens /\ MainOnly
  BY <1>2 DEF SameGens, F, B, M, ZeroWaits, MainOnly, barrierVars
<1>7. MainInv'
  <2>1. Gens(K + 1, K + 1, K + 1)
    BY <1>1, <1>2 DEF MainInv
  <2>2. Gens(K, K, K)'
    BY <1>5, <1>6, <2>1 DEF Gens, SameGens
  <2>3. mainTick' <= EndTick /\ StartTick <= mainTick'
    BY <1>2, <1>3, <1>4
  <2>4. CASE mainTick + 1 < EndTick
    BY <1>2, <1>3, <2>2, <2>3, <2>4 DEF MainInv
  <2>5. CASE ~(mainTick + 1 < EndTick)
    <3>1. mainTick' = EndTick
      BY <1>2, <1>3, <1>4, <2>5
    <3>. QED
      BY <1>2, <1>3, <2>2, <2>3, <2>5, <3>1 DEF MainInv
  <2>. QED
    BY <2>4, <2>5
<1>8. ASSUME NEW h \in Groups
      PROVE  SameView(h)
  <2>1. h \in Nat /\ h < next /\ ~(next <= h) /\ ~(h < 1) /\ h # next
    BY <1>4, ConstantFacts
  <2>2. TickOf(h) = K + 1 /\ TickOf(h)' = K + 1
    BY <1>2, <1>5, <2>1 DEF TickOf, Counted
  <2>3. ~Updating(h) /\ ~Updating(h)'
    BY <1>2, <2>1 DEF Updating
  <2>4. ~MacroFreed(h) /\ ~MacroFreed(h)'
    BY <1>3 DEF MacroFreed
  <2>. QED
    BY <1>2, <2>2, <2>3, <2>4 DEF SameView, groupVars
<1>9. \A h \in Groups : GroupInv(h)'
  BY <1>1, <1>8, GroupUntouched
<1>10. \A w \in Workers : WorkerInv(w)'
  BY <1>1, <1>6, <1>8, MainQuiet, ViewKeeps, WorkerFacts
<1>11. \A c \in Phases : CountInv(c)'
  <2>1. \A c \in Phases : ~Blocked(Main, c) /\ ~Blocked(Main, c)'
    BY <1>3 DEF Blocked
  <2>2. \A c \in Phases, h \in Groups : ~Answered(c, h) /\ ~Answered(c, h)'
    BY <1>2, ConstantFacts DEF Answered, Phases
  <2>3. bar' = bar
    BY <1>2 DEF barrierVars
  <2>. QED
    BY <1>1, <1>2, <2>1, <2>2, <2>3, ArrivedUnmoved, CountUnmoved
<1>12. \A h \in Groups : MacroCountInv(h)'
  BY <1>1, <1>3, <1>6, MacroUnmoved DEF MainOnly, MacroArrived
<1>. QED
  BY <1>7, <1>9, <1>10, <1>11, <1>12 DEF IInv

-----------------------------------------------------------------------------
(* The invariant. *)

LEMMA MainStepInv ==
  ASSUME IInv, MainStep
  PROVE  IInv'
<1>1. TypeOK /\ TypeOK'
  BY MainStepType DEF IInv
<1>2. CASE MainZero
  BY <1>1, <1>2, MainWaitStep DEF MainZero, MainWaits, Phases
<1>3. CASE WaitFrameTick
  BY <1>1, <1>3, WaitFrameTickStep
<1>4. CASE MainFrameWait
  BY <1>1, <1>4, MainWaitStep DEF MainFrameWait, MainWait, MainWaits, Phases
<1>5. CASE WaitFlipBuffers
  BY <1>1, <1>5, VisitStep DEF WaitFlipBuffers, Phases
<1>6. CASE MainFlipWait
  BY <1>1, <1>6, MainWaitStep DEF MainFlipWait, MainWait, MainWaits, Phases
<1>7. CASE WaitAuraManager
  BY <1>1, <1>7, VisitStep DEF WaitAuraManager, Phases
<1>8. CASE MainBusWait
  BY <1>1, <1>8, MainWaitStep DEF MainBusWait, MainWait, MainWaits, Phases
<1>9. CASE CountDown
  BY <1>1, <1>9, CountDownStep DEF CountDown, Visiting
<1>10. CASE MainMacro
  BY <1>1, <1>10, MainMacroStep
<1>11. CASE MainNextTick
  BY <1>1, <1>11, MainNextTickStep
<1>. QED
  BY <1>2, <1>3, <1>4, <1>5, <1>6, <1>7, <1>8, <1>9, <1>10, <1>11 DEF MainStep

LEMMA NextInv == IInv /\ [Next]_vars => IInv'
<1>. SUFFICES ASSUME IInv, [Next]_vars PROVE IInv'
  OBVIOUS
<1>1. CASE MainStep
  BY <1>1, MainStepInv
<1>2. CASE \E w \in Workers : WorkerStep(w)
  BY <1>2, WorkerStepInv
<1>3. CASE UNCHANGED vars
  <2>1. TypeOK /\ TypeOK'
    BY <1>3, NextType DEF IInv
  <2>2. SameGens /\ MainOnly /\ UNCHANGED <<next, mainTick, groupVars>>
        /\ macroBar' = macroBar /\ bar' = bar
        /\ UNCHANGED <<pc, asleep, seen>>
    BY <1>3 DEF vars, barrierVars, threadVars, SameGens, MainOnly, F, B, M, ZeroWaits
  <2>3. MainInv'
    BY <2>1, <2>2, MainKept DEF IInv, groupVars
  <2>4. \A g \in Groups : GroupInv(g)' /\ SameView(g)
    BY <2>2, WorkerStepView DEF IInv
  <2>5. \A w \in Workers : WorkerInv(w)'
    BY <2>1, <2>2, <2>4, MainQuiet, ViewKeeps, WorkerFacts DEF IInv
  <2>6. \A c \in Phases : ArrivedAt(c)' = ArrivedAt(c)
    BY <2>2 DEF ArrivedAt, Blocked, Answered, Contributes, Released, groupVars
  <2>7. \A c \in Phases : CountInv(c)'
    BY <2>2, <2>6, CountUnmoved DEF IInv
  <2>8. \A g \in Groups : MacroCountInv(g)'
    BY <2>2 DEF IInv, MacroCountInv, MacroArrived, Released, WorkersOf
  <2>. QED
    BY <2>1, <2>3, <2>4, <2>5, <2>7, <2>8 DEF IInv
<1>. QED
  BY <1>1, <1>2, <1>3 DEF Next, Terminating

LEMMA InitInv == Init => IInv
<1>. SUFFICES ASSUME Init PROVE IInv
  OBVIOUS
<1>1. TypeOK
  BY InitType
<1>2. /\ Main \in Threads /\ Main \notin Workers /\ Workers \subseteq Threads
      /\ StartTick \in Nat /\ EndTick \in Nat /\ StartTick < EndTick /\ NumGroups \in Nat
      /\ Mode # "long" => StartTick = 0
      /\ \A g \in Groups : ~(g < 1)
  BY ConstantFacts, TicksAssumption
<1>3. /\ bar = [b \in Phases |-> NewBarrier(BarrierCount)]
      /\ asleep = [t \in Threads |-> FALSE] /\ next = 1 /\ mainTick = StartTick
      /\ pc[Main] = (IF Mode = "medium" THEN "zero" ELSE "frame")
      /\ \A w \in Workers : pc[w] = LoopHead(StartTick) /\ currTick[w] = StartTick
      /\ \A g \in Groups : /\ tickOffset[g] = 0 /\ currTimeTick[g] = 0 /\ nextTimeTick[g] = 0
                           /\ macroBar[g] = NewBarrier(Cardinality(WorkersOf(g)) + 1)
  BY <1>2 DEF Init
<1>4. K = 0 /\ Gens(0 - ZeroWaits, 0, 0)
  BY <1>2, <1>3 DEF K, Gens, F, B, M, NewBarrier, Phases
<1>5. MainInv
  BY <1>2, <1>3, <1>4 DEF MainInv, ZeroWaits
<1>6. \A g \in Groups : GroupInv(g) /\ ~Updating(g) /\ TickOf(g) = 0
  BY <1>2, <1>3, <1>4 DEF GroupInv, Updating, TickOf, Counted
<1>7. ASSUME NEW w \in Workers
      PROVE  WorkerInv(w)
  <2>1. pc[w] = (IF Mode = "medium" THEN "zero" ELSE "update")
    BY <1>2, <1>3 DEF LoopHead
  <2>2. Round(w) = 0 /\ ~asleep[w]
    BY <1>2, <1>3, <2>1 DEF Round
  <2>3. LiveAt(GroupOf[w], 0)
    BY <1>3, <1>6, WorkerFacts DEF LiveAt
  <2>4. BeforeBus(w, GroupOf[w], 0)
    BY <1>4, <2>1, <2>2, <2>3 DEF BeforeBus, ZeroWaits
  <2>5. AtBus(w, GroupOf[w], 0) /\ AfterBusInv(w, GroupOf[w], 0)
    BY <2>1 DEF AtBus, AfterBusInv
  <2>. QED
    BY <1>2, <2>1, <2>2, <2>4, <2>5 DEF WorkerInv
<1>8. ASSUME NEW b \in Phases
      PROVE  CountInv(b)
  <2>1. ArrivedAt(b) = {}
    BY <1>2, <1>3, ConstantFacts DEF ArrivedAt, Blocked, Answered
  <2>2. Cardinality(ArrivedAt(b)) = 0
    BY <2>1, FS_EmptySet
  <2>. QED
    BY <1>3, <2>2, ThreadCount DEF CountInv, NewBarrier
<1>9. ASSUME NEW g \in Groups
      PROVE  MacroCountInv(g)
  <2>1. MacroArrived(g) = {}
    BY <1>2, <1>3 DEF MacroArrived, WorkersOf
  <2>2. Cardinality(MacroArrived(g)) = 0
    BY <2>1, FS_EmptySet
  <2>3. Cardinality(WorkersOf(g)) \in Nat
    BY GroupCount
  <2>4. Cardinality(WorkersOf(g)) + 1 - Cardinality(MacroArrived(g)) = Cardinality(WorkersOf(g)) + 1
    BY <2>2, <2>3
  <2>5. /\ macroBar[g].threshold = Cardinality(WorkersOf(g)) + 1
        /\ macroBar[g].count = Cardinality(WorkersOf(g)) + 1
    <3>1. macroBar[g] = NewBarrier(Cardinality(WorkersOf(g)) + 1)
      BY <1>3
    <3>. QED
      BY <3>1 DEF NewBarrier
  <2>. QED
    BY <2>4, <2>5 DEF MacroCountInv
<1>. QED
  BY <1>1, <1>5, <1>6, <1>7, <1>8, <1>9 DEF IInv

\* The invariant relates the generations of the barriers, the place of each
\* thread in the tick, the countdowns and clocks of the groups and the counts of
\* the barriers, whatever the number of groups, workers and ticks and whatever
\* the granularities.
THEOREM Invariant == Spec => []IInv
<1>1. Init => IInv
  BY InitInv
<1>2. IInv /\ [Next]_vars => IInv'
  BY NextInv
<1>. QED
  BY <1>1, <1>2, PTL DEF Spec

-----------------------------------------------------------------------------
(* What the invariant says of the runs. *)

\* Where main or a worker is tells how far the barriers are.
LEMMA MainGens ==
  ASSUME IInv
  PROVE  /\ pc[Main] = "flip" /\ ~asleep[Main] => Gens(K + 1, K, K)
         /\ pc[Main] = "bus" /\ ~asleep[Main] => Gens(K + 1, K + 1, K)
  BY DEF IInv, MainInv

LEMMA WorkerGens ==
  ASSUME IInv, NEW w \in Workers
  PROVE  /\ pc[w] \in {"zero", "update"} => F <= M
         /\ pc[w] = "flip" /\ ~asleep[w] => F = M + 1 /\ B = M
         /\ pc[w] = "update" => F = Round(w) /\ B = Round(w) /\ M = Round(w)
         /\ pc[w] \in {"update", "frame"} => 0 <= F
         /\ pc[w] = "zero" /\ ~asleep[w] => F = -1
<1>1. BeforeBus(w, GroupOf[w], Round(w)) /\ 0 <= Round(w)
  BY DEF IInv, WorkerInv
<1>2. Round(w) \in Int /\ F \in Int /\ B \in Int /\ M \in Int
  BY RoundFacts, IntFacts DEF IInv
<1>. QED
  BY <1>1, <1>2 DEF BeforeBus, Gens

\* While main serves a group in its update, the round of every worker of the
\* group is main's tick: the other rounds a worker may be in belong to barriers
\* in another place of the tick, or to another value of the group's clock.
LEMMA ServedRound ==
  ASSUME IInv, pc[Main] \in {"flip", "bus"}, ~asleep[Main],
         NEW w \in Workers, tickOffset[GroupOf[w]] = 0
  PROVE  Round(w) = K /\ pc[w] \notin {"zero", "update"}
<1> DEFINE g == GroupOf[w]
           r == Round(w)
<1>1. g \in Groups /\ TickStep[g] \in Nat /\ TickStep[g] > 0
  BY WorkerFacts
<1>2. r \in Int /\ F \in Int /\ M \in Int /\ K \in Int
  BY RoundFacts, IntFacts DEF IInv
<1>3. F = K + 1 /\ M = K
  BY MainGens DEF Gens
<1>4. pc[w] \notin {"zero", "update"}
  BY <1>2, <1>3, WorkerGens
<1>5. Updating(g) /\ TickOf(g) = K /\ ~MacroFreed(g)
  BY DEF Updating, TickOf, Counted, MacroFreed
<1>6. nextTimeTick[g] = K + TickStep[g]
  BY <1>1, <1>5 DEF IInv, GroupInv
<1>7. nextTimeTick[g] = r + TickStep[g] => r = K
  BY <1>1, <1>2, <1>6
<1>8. LiveAt(g, r) => r = K
  BY <1>2, <1>3, <1>5, <1>7 DEF LiveAt
<1>9. IdleAt(g, r) \/ LastAt(g, r) => r = K
  BY <1>7 DEF IdleAt, LastAt
<1>10. ~AgainAt(g, r + TickStep[g])
  BY <1>2, <1>3 DEF AgainAt, Gens
<1>11. WorkerInv(w)
  BY DEF IInv
<1>12. CASE pc[w] \in {"frame", "flip"}
  BY <1>8, <1>11, <1>12, <1>4 DEF WorkerInv, BeforeBus
<1>13. CASE pc[w] = "bus"
  <2>1. AfterBus(w) \in {"macro", "exit", "zero", "update"}
    BY DEF AfterBus, AfterLoop, LoopHead
  <2>2. AtBus(w, g, r)
    BY <1>11 DEF WorkerInv
  <2>. QED
    BY <1>4, <1>8, <1>9, <1>10, <1>13, <2>1, <2>2 DEF AtBus
<1>14. CASE pc[w] \in {"macro", "exit"}
  <2>1. AfterBusInv(w, g, r)
    BY <1>11 DEF WorkerInv
  <2>. QED
    BY <1>4, <1>9, <1>10, <1>14, <2>1 DEF AfterBusInv
<1>15. pc[w] \in {"zero", "update", "frame", "flip", "bus", "macro", "exit", "done"}
  BY WorkerFacts DEF IInv, TypeOK
<1>. QED
  BY <1>4, <1>11, <1>12, <1>13, <1>14, <1>15 DEF WorkerInv

LEMMA ServedClock ==
  ASSUME IInv, pc[Main] \in {"flip", "bus"}, ~asleep[Main],
         NEW w \in Workers, tickOffset[GroupOf[w]] = 0
  PROVE  /\ StartTick + nextTimeTick[GroupOf[w]] = currTick[w]
         /\ StartTick + currTimeTick[GroupOf[w]] = currTick[w] - TickStep[GroupOf[w]]
<1> DEFINE g == GroupOf[w]
<1>1. g \in Groups /\ TickStep[g] \in Nat /\ TickStep[g] > 0 /\ StartTick \in Nat
  BY WorkerFacts, ConstantFacts
<1>2. TypeOK /\ MainInv /\ GroupInv(g)
  BY <1>1 DEF IInv
<1>3. K = currTick[w] - StartTick - TickStep[g] /\ currTick[w] \in Nat
  BY <1>2, ServedRound, RoundFacts
<1>4. K \in Int /\ 0 <= K
  BY <1>1, <1>2 DEF MainInv, K, TypeOK
<1>5. Updating(g) /\ TickOf(g) = K
  BY DEF Updating, TickOf, Counted
<1>6. nextTimeTick[g] = K + TickStep[g]
  BY <1>1, <1>2, <1>5 DEF GroupInv
<1>7. nextTimeTick[g] # 0
  BY <1>1, <1>4, <1>6
<1>8. currTimeTick[g] = nextTimeTick[g] - TickStep[g]
  BY <1>2, <1>7 DEF GroupInv
<1>. QED
  BY <1>1, <1>3, <1>4, <1>6, <1>8

\* Workers that update are in one round, and main is in it or before it.
LEMMA UpdateRound ==
  ASSUME IInv, NEW w \in Workers, pc[w] = "update"
  PROVE  /\ currTick[w] < EndTick
         /\ currTick[w] = StartTick + M
         /\ currTick[w] = IF pc[Main] \in {"bus", "macro"} THEN mainTick + 1 ELSE mainTick
<1>1. TypeOK /\ MainInv /\ WorkerInv(w)
  BY DEF IInv
<1>2. /\ F \in Int /\ B \in Int /\ M \in Int /\ Round(w) \in Int
      /\ StartTick \in Nat /\ EndTick \in Nat /\ mainTick \in Nat /\ currTick[w] \in Nat
  BY <1>1, IntFacts, RoundFacts, ConstantFacts DEF TypeOK
<1>3. Round(w) = currTick[w] - StartTick
  BY <1>1, RoundFacts
<1>4. F = M /\ B = M /\ M = Round(w)
  BY WorkerGens
<1>5. Round(w) + StartTick < EndTick
  BY <1>1 DEF WorkerInv
<1>6. M = IF pc[Main] \in {"bus", "macro"} THEN K + 1 ELSE K
  <2>1. K \in Int
    BY <1>2 DEF K
  <2>. QED
    BY <1>1, <1>2, <1>4, <2>1 DEF MainInv, Gens
<1>7. M = IF pc[Main] \in {"bus", "macro"} THEN mainTick - StartTick + 1 ELSE mainTick - StartTick
  BY <1>6 DEF K
<1>. QED
  BY <1>2, <1>3, <1>4, <1>5, <1>7

\* FlexiBarrier::contribute never throws: main answers for at most the arrivals
\* that are still missing, because the workers of a group in the middle of its
\* granularity are none of those the barrier holds.
THEOREM NoOverflow == Spec => []ContributionFits
<1>1. IInv => ContributionFits
  BY AnswerFits DEF ContributionFits
<1>. QED
  BY <1>1, Invariant, PTL

\* Main stages, collects and distributes while no worker touches an entity.
THEOREM MainAlone == Spec => []MainExclusive
<1>1. ASSUME IInv PROVE MainExclusive
  <2>1. F \in Int /\ M \in Int /\ K \in Int
    BY <1>1, IntFacts DEF IInv
  <2>2. pc[Main] \in {"flip", "bus"} /\ ~asleep[Main] => F = M + 1
    BY <1>1, MainGens DEF Gens
  <2>. QED
    BY <1>1, <2>1, <2>2, WorkerGens DEF MainExclusive
<1>. QED
  BY <1>1, Invariant, PTL

\* Buffered values are flipped while nobody reads or writes them.
THEOREM FlipAlone == Spec => []FlipIsolated
<1>1. ASSUME IInv PROVE FlipIsolated
  <2>1. F \in Int /\ M \in Int /\ B \in Int /\ K \in Int
    BY <1>1, IntFacts DEF IInv
  <2>2. pc[Main] = "bus" /\ ~asleep[Main] => B = M + 1
    BY <1>1, MainGens DEF Gens
  <2>3. ASSUME NEW w \in Workers, pc[w] = "flip", ~asleep[w]
        PROVE  F = M + 1 /\ B = M
    BY <1>1, <2>3, WorkerGens
  <2>4. \A v \in Workers : pc[v] \in {"zero", "update"} => F <= M
    BY <1>1, WorkerGens
  <2>. QED
    BY <2>1, <2>2, <2>3, <2>4 DEF FlipIsolated
<1>. QED
  BY <1>1, Invariant, PTL

\* Workers of any granularities that update at the same time make the same tick.
THEOREM TogetherInTick == Spec => []SameTick
<1>1. IInv => SameTick
  BY UpdateRound DEF SameTick
<1>. QED
  BY <1>1, Invariant, PTL

\* The clock of a group agrees with its workers whenever main serves the group.
THEOREM ClocksAgree == Spec => []ClockAgreement
<1>1. IInv => ClockAgreement
  BY ServedClock DEF ClockAgreement
<1>. QED
  BY <1>1, Invariant, PTL

\* Mid-term entities are all initialised before one of them is updated.
THEOREM InitialisedFirst == Spec => []ZeroBarrier
<1>1. ASSUME IInv PROVE ZeroBarrier
  <2>1. ASSUME NEW v \in Workers, pc[v] \in {"update", "frame"}
        PROVE  0 <= F
    BY <1>1, <2>1, WorkerGens
  <2>2. ASSUME NEW w \in Workers, pc[w] = "zero", ~asleep[w]
        PROVE  F = -1
    BY <1>1, <2>2, WorkerGens
  <2>. QED
    BY <2>1, <2>2 DEF ZeroBarrier
<1>. QED
  BY <1>1, Invariant, PTL

-----------------------------------------------------------------------------
(***************************************************************************)
(* The time-step protocol implements the abstract phase clock: a step of a *)
(* thread is an arrival in the current round, or the clock does not see    *)
(* it.  What the count of one barrier shows becomes a fact about all three *)
(* because threads are only ever held by the barrier whose turn it is.     *)
(***************************************************************************)

\* The generations say which barrier comes next.
Turn(b) ==
  \/ b = "frame" /\ F <= M /\ B = M
  \/ b = "flip" /\ F = M + 1 /\ B = M
  \/ b = "bus" /\ F = M + 1 /\ B = M + 1

\* The two variables of the clock.
Rounds == bar["frame"].generation + bar["flip"].generation + bar["bus"].generation

Present == UNION {ArrivedAt(b) : b \in Phases}

LEMMA OneTurn ==
  ASSUME TypeOK, NEW b \in Phases, NEW c \in Phases, Turn(b), Turn(c)
  PROVE  b = c
<1>1. F \in Int /\ B \in Int /\ M \in Int
  BY IntFacts
<1>. QED
  BY <1>1 DEF Turn

\* Main stands before, or is held by, the barrier whose turn it is.
LEMMA MainTurn ==
  ASSUME IInv, NEW b \in Phases, AtBarrier(Main, b),
         ~asleep[Main] \/ Blocked(Main, b)
  PROVE  Turn(b)
<1>1. TypeOK /\ MainInv
  BY DEF IInv
<1>2. /\ F \in Int /\ B \in Int /\ M \in Int /\ K \in Int /\ ZeroWaits \in {0, 1}
      /\ F = bar["frame"].generation - ZeroWaits
      /\ B = bar["flip"].generation /\ M = bar["bus"].generation
      /\ bar["frame"].generation \in Nat
  BY <1>1, IntFacts DEF Phases
<1>3. asleep[Main] => seen[Main] = bar[b].generation
  BY DEF Blocked, Released
<1>4. CASE b = "frame" /\ pc[Main] = "zero"
  <2>1. Mode = "medium" /\ (Gens(-1, 0, 0) \/ Gens(0, 0, 0))
    BY <1>1, <1>4 DEF MainInv
  <2>. QED
    BY <1>2, <1>4, <2>1 DEF Turn, Gens
<1>5. CASE b = "frame" /\ pc[Main] = "frame"
  BY <1>1, <1>2, <1>3, <1>5 DEF MainInv, Turn, Gens
<1>6. CASE b = "flip"
  BY <1>1, <1>2, <1>3, <1>6 DEF AtBarrier, MainInv, Turn, Gens
<1>7. CASE b = "bus"
  BY <1>1, <1>2, <1>3, <1>7 DEF AtBarrier, MainInv, Turn, Gens
<1>. QED
  BY <1>4, <1>5, <1>6, <1>7 DEF AtBarrier, Phases

\* So does every worker.
LEMMA WorkerTurn ==
  ASSUME IInv, NEW w \in Workers, NEW b \in Phases, AtBarrier(w, b),
         ~asleep[w] \/ Blocked(w, b)
  PROVE  Turn(b)
<1> DEFINE r == Round(w)
<1>1. TypeOK /\ BeforeBus(w, GroupOf[w], r) /\ AtBus(w, GroupOf[w], r)
  BY DEF IInv, WorkerInv
<1>2. /\ F \in Int /\ B \in Int /\ M \in Int /\ r \in Int /\ ZeroWaits \in {0, 1}
      /\ F = bar["frame"].generation - ZeroWaits
      /\ B = bar["flip"].generation /\ M = bar["bus"].generation
      /\ bar["frame"].generation \in Nat
  BY <1>1, IntFacts, RoundFacts DEF Phases
<1>. HIDE DEF r
<1>3. asleep[w] => seen[w] = bar[b].generation
  BY DEF Blocked, Released
<1>4. CASE b = "frame" /\ pc[w] = "zero"
  <2>1. Gens(-1, 0, 0) \/ Gens(0, 0, 0)
    BY <1>1, <1>4 DEF BeforeBus
  <2>. QED
    BY <1>2, <1>4, <2>1 DEF Turn, Gens
<1>5. CASE b = "frame" /\ pc[w] = "frame"
  BY <1>1, <1>2, <1>3, <1>5 DEF BeforeBus, Turn, Gens
<1>6. CASE b = "flip"
  BY <1>1, <1>2, <1>3, <1>6 DEF AtBarrier, BeforeBus, Turn, Gens
<1>7. CASE b = "bus"
  <2>1. asleep[w] => M = r
    BY <1>1, <1>2, <1>3, <1>7 DEF AtBarrier, AtBus
  <2>. QED
    BY <1>1, <1>2, <1>7, <2>1 DEF AtBarrier, AtBus, Turn, Gens
<1>. QED
  BY <1>4, <1>5, <1>6, <1>7 DEF AtBarrier, Phases

\* Only the barrier whose turn it is holds threads.
LEMMA ArrivedTurn ==
  ASSUME IInv, NEW b \in Phases, ArrivedAt(b) # {}
  PROVE  Turn(b)
<1>1. PICK t \in Threads : Blocked(t, b) \/ (t \in Workers /\ Answered(b, GroupOf[t]))
  BY ConstantFacts DEF ArrivedAt
<1>2. t \in Workers \/ t = Main
  BY DEF Threads
<1>3. CASE Blocked(t, b)
  <2>1. AtBarrier(t, b)
    BY <1>3 DEF Blocked, AtBarrier
  <2>. QED
    BY <1>2, <1>3, <2>1, MainTurn, WorkerTurn
<1>4. CASE t \in Workers /\ Answered(b, GroupOf[t])
  <2>1. AtBarrier(Main, b) /\ (~asleep[Main] \/ Blocked(Main, b))
    <3>1. pc[Main] = b /\ (asleep[Main] => Blocked(Main, b))
      BY <1>4 DEF Answered
    <3>2. asleep[Main] \in BOOLEAN
      BY ConstantFacts DEF IInv, TypeOK
    <3>. QED
      BY <3>1, <3>2 DEF AtBarrier
  <2>. QED
    BY <2>1, MainTurn
<1>. QED
  BY <1>1, <1>3, <1>4

-----------------------------------------------------------------------------
(* Steps of the clock. *)

\* An arrival at the barrier whose turn it is, is an arrival in the round.
LEMMA ClockArrives ==
  ASSUME IInv, NEW b \in Phases, Turn(b),
         NEW S \in SUBSET Threads, S # {}, S \cap ArrivedAt(b) = {},
         Arrives(b, S), \A c \in Phases \ {b} : ArrivedAt(c)' = ArrivedAt(c),
         \A c \in Phases \ {b} : bar'[c].generation = bar[c].generation,
         ArrivedAt(b) \cup S = Threads => bar'[b].generation = bar[b].generation + 1,
         ArrivedAt(b) \cup S # Threads => bar'[b].generation = bar[b].generation
  PROVE  Clock!Next
<1>1. \A c \in Phases \ {b} : ArrivedAt(c) = {}
  BY ArrivedTurn, OneTurn DEF IInv
<1>2. Present = ArrivedAt(b)
  BY <1>1 DEF Present
<1>3. Present' = ArrivedAt(b)'
  <2>1. \A c \in Phases \ {b} : ArrivedAt(c)' = {}
    BY <1>1
  <2>. QED
    BY <2>1 DEF Present
<1>4. \A c \in Phases : bar[c].generation \in Nat
  BY IntFacts DEF IInv
<1>5. /\ ArrivedAt(b) \cup S = Threads => Rounds' = Rounds + 1
      /\ ArrivedAt(b) \cup S # Threads => Rounds' = Rounds
  <2>1. CASE b = "frame"
    BY <1>4, <2>1 DEF Rounds, Phases
  <2>2. CASE b = "flip"
    BY <1>4, <2>2 DEF Rounds, Phases
  <2>3. CASE b = "bus"
    BY <1>4, <2>3 DEF Rounds, Phases
  <2>. QED
    BY <2>1, <2>2, <2>3 DEF Phases
<1>6. Clock!Arrive(S)
  BY <1>2, <1>3, <1>5 DEF Arrives, Clock!Arrive, Rounds, Present
<1>. QED
  BY <1>6 DEF Clock!Next

\* A step that moves no generation and nobody's arrival is not seen.
LEMMA ClockStays ==
  ASSUME \A c \in Phases : bar'[c].generation = bar[c].generation,
         \A c \in Phases : ArrivedAt(c)' = ArrivedAt(c)
  PROVE  UNCHANGED <<Rounds, Present>>
  BY DEF Rounds, Present, Phases

ClockStep == Clock!Next \/ UNCHANGED <<Rounds, Present>>

-----------------------------------------------------------------------------
(* Steps of the threads. *)

\* A thread arrives at a shared barrier on its own.
LEMMA EnterClock ==
  ASSUME IInv, NEW t \in Threads, NEW b \in Phases, NEW after,
         Enter(t, b, after), Turn(b),
         {t} \cap ArrivedAt(b) = {}, Arrives(b, {t}),
         \A c \in Phases \ {b} : ArrivedAt(c)' = ArrivedAt(c)
  PROVE  ClockStep
<1>1. /\ ~Overflows(bar[b], 1) /\ bar' = [bar EXCEPT ![b] = Take(@, 1)]
      /\ bar \in [Phases -> BarrierRecord] /\ bar[b] \in BarrierRecord
  BY DEF Enter, EnterWait, IInv, TypeOK
<1>2. Completes(bar[b], 1) <=> ArrivedAt(b) \cup {t} = Threads
  <2>1. TypeOK /\ CountInv(b) /\ {t} \in SUBSET Threads
    BY DEF IInv
  <2>2. Cardinality({t}) = 1
    BY FS_Singleton
  <2>3. Completes(bar[b], Cardinality({t})) <=> ArrivedAt(b) \cup {t} = Threads
    BY <2>1, ArrivalFits
  <2>. QED
    BY <2>2, <2>3
<1>3. /\ Completes(bar[b], 1) => bar'[b].generation = bar[b].generation + 1
      /\ ~Completes(bar[b], 1) => bar'[b].generation = bar[b].generation
      /\ \A c \in Phases \ {b} : bar'[c].generation = bar[c].generation
  BY <1>1, TakeFields
<1>4. {t} \in SUBSET Threads /\ {t} # {}
  OBVIOUS
<1>5. Clock!Next
  BY <1>2, <1>3, <1>4, ClockArrives
<1>. QED
  BY <1>5 DEF ClockStep

\* A worker waits at a shared barrier.
LEMMA WorkerWaitClock ==
  ASSUME IInv, NEW w \in Workers, NEW b \in Phases, NEW after, AtBarrier(w, b),
         Wait(w, b, after), UNCHANGED <<next, mainTick, groupVars>>
  PROVE  ClockStep
<1>1. TypeOK /\ w \in Threads /\ w # Main
  BY WorkerFacts DEF IInv
<1>2. CASE Enter(w, b, after)
  <2>1. ~asleep[w]
    BY <1>2 DEF Enter, EnterWait
  <2>. QED
    BY <1>1, <1>2, <2>1, WorkerTurn, WorkerNotArrived, WorkerArrives, EnterClock
<1>3. CASE Leave(w, b, after)
  <2>1. /\ asleep[w] /\ Released(bar[b], seen[w]) /\ bar' = bar /\ ~asleep'[w]
        /\ \A u \in Threads \ {w} : pc'[u] = pc[u] /\ asleep'[u] = asleep[u] /\ seen'[u] = seen[u]
    BY <1>1, <1>3 DEF Leave, LeaveWait, TypeOK
  <2>2. \A c \in Phases : ~Blocked(w, c) /\ ~Blocked(w, c)'
    BY <2>1 DEF Blocked, AtBarrier, Phases
  <2>3. \A c \in Phases : ArrivedAt(c)' = ArrivedAt(c)
    BY <1>1, <2>1, <2>2, ArrivedUnmoved DEF groupVars
  <2>. QED
    BY <2>1, <2>3, ClockStays DEF ClockStep
<1>. QED
  BY <1>2, <1>3 DEF Wait

\* Main waits at a shared barrier.
LEMMA MainWaitClock ==
  ASSUME IInv, NEW b \in Phases, NEW after, MainWaits(b, after)
  PROVE  ClockStep
<1>1. /\ TypeOK /\ MainInv /\ Main \in Threads
      /\ AtBarrier(Main, b)
  BY ConstantFacts DEF IInv, MainWaits, AtBarrier
<1>2. pc[Main] = "zero" => next = 1
  BY <1>1 DEF MainInv
<1>3. CASE Enter(Main, b, after)
  <2>1. ~asleep[Main]
    BY <1>3 DEF Enter, EnterWait
  <2>2. /\ after # b \/ pc[Main] = "zero"
        /\ IF Completes(bar[b], 1) THEN next' = 1 ELSE next' = next
    BY <1>1, <1>2, <1>3 DEF MainWaits, Enter, EnterWait, TypeOK, Phases
  <2>3. /\ {Main} \cap ArrivedAt(b) = {}
        /\ Arrives(b, {Main})
        /\ \A c \in Phases \ {b} : ArrivedAt(c)' = ArrivedAt(c)
    BY <1>1, <1>2, <1>3, <2>2, MainArrives DEF MainWaits
  <2>. QED
    BY <1>1, <1>3, <2>1, <2>3, MainTurn, EnterClock
<1>4. CASE Leave(Main, b, after)
  <2>1. /\ asleep[Main] /\ Released(bar[b], seen[Main]) /\ bar' = bar
        /\ pc'[Main] = after /\ ~asleep'[Main]
        /\ \A u \in Threads \ {Main} : pc'[u] = pc[u] /\ asleep'[u] = asleep[u] /\ seen'[u] = seen[u]
    BY <1>1, <1>4 DEF Leave, LeaveWait, TypeOK
  <2>2. \A c \in Phases : ~Blocked(Main, c) /\ ~Blocked(Main, c)'
    BY <1>1, <2>1 DEF Blocked, AtBarrier, Phases
  <2>3. next' = 1
    BY <1>2, <2>1 DEF MainWaits, Phases
  <2>4. \A c \in Phases, g \in Groups : ~Answered(c, g) /\ ~Answered(c, g)'
    BY <2>1, <2>2, <2>3, ConstantFacts DEF Answered
  <2>5. \A c \in Phases : ArrivedAt(c)' = ArrivedAt(c)
    BY <1>1, <2>1, <2>2, <2>4, ArrivedUnmoved
  <2>. QED
    BY <2>1, <2>5, ClockStays DEF ClockStep
<1>. QED
  BY <1>3, <1>4 DEF MainWaits, Wait

\* Main visits a group: an answer is an arrival of all its workers at once.
LEMMA VisitClock ==
  ASSUME IInv, NEW b \in Phases, Visit(b)
  PROVE  ClockStep
<1>1. /\ Visiting(b) /\ next' = next + 1
      /\ UNCHANGED <<macroBar, threadVars, mainTick, tickOffset, currTick>>
      /\ AtBarrier(Main, b) /\ ~asleep[Main]
  BY DEF Visit, Visiting, AtBarrier
<1>2. CASE Contributes(b, next)
  <2>1. bar' = [bar EXCEPT ![b] = Take(@, Cardinality(WorkersOf(next)))]
    BY <1>2 DEF Visit
  <2>2. /\ \A c \in Phases : bar'[c].generation = bar[c].generation
        /\ Arrives(b, WorkersOf(next))
        /\ \A c \in Phases \ {b} : ArrivedAt(c)' = ArrivedAt(c)
    BY <1>1, <1>2, <2>1, AnswerArrives
  <2>3. /\ WorkersOf(next) \in SUBSET Threads /\ WorkersOf(next) \cap ArrivedAt(b) = {}
        /\ ArrivedAt(b) \cup WorkersOf(next) # Threads
    BY <1>1, <1>2, AnswerFits
  <2>4. CASE WorkersOf(next) = {}
    <3>1. ArrivedAt(b)' = ArrivedAt(b)
      BY <2>2, <2>3, <2>4 DEF Arrives
    <3>. QED
      BY <2>2, <3>1, ClockStays DEF ClockStep
  <2>5. CASE WorkersOf(next) # {}
    BY <1>1, <2>2, <2>3, <2>5, MainTurn, ClockArrives DEF ClockStep
  <2>. QED
    BY <2>4, <2>5
<1>3. CASE ~Contributes(b, next)
  <2>1. bar' = bar
    BY <1>3 DEF Visit
  <2>2. \A u \in Threads, c \in Phases : Blocked(u, c)' <=> Blocked(u, c)
    BY <1>1, <2>1 DEF Blocked, Released, threadVars
  <2>3. \A g \in Groups, c \in Phases : Answered(c, g)' <=> Answered(c, g)
    <3>. SUFFICES ASSUME NEW g \in Groups, NEW c \in Phases
                  PROVE  Answered(c, g)' <=> Answered(c, g)
      OBVIOUS
    <3>1. g \in Nat /\ next \in Nat
      BY <1>1, ConstantFacts DEF Visiting
    <3>2. g < next + 1 <=> g < next \/ g = next
      BY <3>1
    <3>3. pc[Main] = c /\ g = next => ~Contributes(c, g)
      BY <1>1, <1>3 DEF Visiting
    <3>. QED
      BY <1>1, <3>2, <3>3 DEF Answered, Contributes, threadVars
  <2>4. \A c \in Phases : ArrivedAt(c)' = ArrivedAt(c)
    BY <2>2, <2>3, ConstantFacts DEF ArrivedAt
  <2>. QED
    BY <2>1, <2>4, ClockStays DEF ClockStep
<1>. QED
  BY <1>2, <1>3

\* Main past the message bus: no shared barrier is involved.
LEMMA PastBusClock ==
  ASSUME IInv, bar' = bar, pc[Main] = "macro",
         \/ pc'[Main] = "macro"
         \/ ~asleep'[Main] /\ next' = 1,
         \A u \in Threads \ {Main} : pc'[u] = pc[u] /\ asleep'[u] = asleep[u] /\ seen'[u] = seen[u]
  PROVE  ClockStep
<1>1. TypeOK /\ Main \in Threads
  BY ConstantFacts DEF IInv
<1>2. \A c \in Phases : ~Blocked(Main, c) /\ ~Blocked(Main, c)'
  BY DEF Blocked, Phases
<1>3. \A c \in Phases, g \in Groups : ~Answered(c, g) /\ ~Answered(c, g)'
  BY ConstantFacts DEF Answered, Phases
<1>4. \A c \in Phases : ArrivedAt(c)' = ArrivedAt(c)
  BY <1>1, <1>2, <1>3, ArrivedUnmoved
<1>. QED
  BY <1>4, ClockStays DEF ClockStep

\* A worker outside the shared barriers.
LEMMA WorkerAwayClock ==
  ASSUME IInv, NEW w \in Workers, PerformFrameTick(w) \/ WorkerMacro(w)
  PROVE  ClockStep
<1>1. TypeOK /\ w \in Threads /\ w # Main /\ WorkerInv(w)
  BY WorkerFacts DEF IInv
<1>2. /\ bar' = bar /\ UNCHANGED <<next, tickOffset>>
      /\ \A u \in Threads \ {w} : pc'[u] = pc[u] /\ asleep'[u] = asleep[u] /\ seen'[u] = seen[u]
  BY <1>1 DEF PerformFrameTick, WorkerMacro, EnterWait, LeaveWait, TypeOK, barrierVars, groupVars
<1>3. \A c \in Phases : ~Blocked(w, c) /\ ~Blocked(w, c)'
  <2>1. CASE PerformFrameTick(w)
    <3>1. pc[w] = "update" /\ ~asleep[w] /\ asleep' = asleep
      BY <1>1, <2>1 DEF PerformFrameTick, WorkerInv, BeforeBus
    <3>. QED
      BY <3>1 DEF Blocked
  <2>2. CASE WorkerMacro(w)
    <3>1. pc[w] = "macro"
      BY <2>2 DEF WorkerMacro
    <3>2. pc'[w] \notin {"zero", "frame", "flip", "bus"} \/ ~asleep'[w]
      BY <1>1, <2>2 DEF WorkerMacro, EnterWait, LeaveWait, TypeOK
    <3>. QED
      BY <3>1, <3>2 DEF Blocked, Phases
  <2>. QED
    BY <2>1, <2>2
<1>4. \A c \in Phases : ArrivedAt(c)' = ArrivedAt(c)
  BY <1>1, <1>2, <1>3, ArrivedUnmoved
<1>. QED
  BY <1>2, <1>4, ClockStays DEF ClockStep

LEMMA WorkerStepClock ==
  ASSUME IInv, NEW w \in Workers, WorkerStep(w)
  PROVE  ClockStep
<1>1. CASE WorkerZero(w)
  BY <1>1, WorkerWaitClock DEF WorkerZero, AtBarrier, Phases
<1>2. CASE PerformFrameTick(w) \/ WorkerMacro(w)
  BY <1>2, WorkerAwayClock
<1>3. CASE WorkerFrameWait(w)
  BY <1>3, WorkerWaitClock DEF WorkerFrameWait, WorkerWait, AtBarrier, Phases
<1>4. CASE WorkerFlipWait(w)
  BY <1>4, WorkerWaitClock DEF WorkerFlipWait, WorkerWait, AtBarrier, Phases
<1>5. CASE WorkerBusWait(w)
  BY <1>5, WorkerWaitClock DEF WorkerBusWait, WorkerWait, AtBarrier, Phases
<1>. QED
  BY <1>1, <1>2, <1>3, <1>4, <1>5 DEF WorkerStep

LEMMA MainStepClock ==
  ASSUME IInv, MainStep
  PROVE  ClockStep
<1>1. TypeOK /\ Main \in Threads
  BY ConstantFacts DEF IInv
<1>2. CASE MainZero
  BY <1>2, MainWaitClock DEF MainZero, MainWaits, Phases
<1>3. CASE MainFrameWait \/ MainFlipWait \/ MainBusWait
  BY <1>3, MainWaitClock
  DEF MainFrameWait, MainFlipWait, MainBusWait, MainWait, MainWaits, Phases
<1>4. CASE WaitFrameTick \/ WaitFlipBuffers \/ WaitAuraManager
  BY <1>4, VisitClock DEF WaitFrameTick, WaitFlipBuffers, WaitAuraManager, Phases
<1>5. CASE CountDown
  BY <1>5, PastBusClock DEF CountDown, Visiting, barrierVars, threadVars
<1>6. CASE MainMacro
  <2>1. /\ bar' = bar /\ pc[Main] = "macro" /\ pc'[Main] = "macro"
        /\ \A u \in Threads \ {Main} : pc'[u] = pc[u] /\ asleep'[u] = asleep[u] /\ seen'[u] = seen[u]
    BY <1>1, <1>6 DEF MainMacro, EnterWait, LeaveWait, TypeOK
  <2>. QED
    BY <2>1, PastBusClock
<1>7. CASE MainNextTick
  <2>1. ~asleep[Main]
    BY <1>7 DEF IInv, MainInv, MainNextTick
  <2>2. /\ bar' = bar /\ pc[Main] = "macro" /\ ~asleep'[Main] /\ next' = 1
        /\ \A u \in Threads \ {Main} : pc'[u] = pc[u] /\ asleep'[u] = asleep[u] /\ seen'[u] = seen[u]
    BY <1>1, <1>7, <2>1 DEF MainNextTick, TypeOK, barrierVars
  <2>. QED
    BY <2>2, PastBusClock
<1>. QED
  BY <1>2, <1>3, <1>4, <1>5, <1>6, <1>7 DEF MainStep

LEMMA NextClock == IInv /\ [Next]_vars => ClockStep
<1>. SUFFICES ASSUME IInv, [Next]_vars PROVE ClockStep
  OBVIOUS
<1>1. CASE MainStep
  BY <1>1, MainStepClock
<1>2. CASE \E w \in Workers : WorkerStep(w)
  BY <1>2, WorkerStepClock
<1>3. CASE UNCHANGED vars
  <2>1. bar' = bar /\ pc' = pc /\ asleep' = asleep /\ seen' = seen /\ next' = next
        /\ tickOffset' = tickOffset
    BY <1>3 DEF vars, barrierVars, threadVars, groupVars
  <2>2. \A c \in Phases : ArrivedAt(c)' = ArrivedAt(c)
    BY <2>1 DEF ArrivedAt, Blocked, Answered, Contributes, Released
  <2>. QED
    BY <2>1, <2>2, ClockStays DEF ClockStep
<1>. QED
  BY <1>1, <1>2, <1>3 DEF Next, Terminating

LEMMA InitClock == Init => Rounds = 0 /\ Present = {}
<1>. SUFFICES ASSUME Init PROVE Rounds = 0 /\ Present = {}
  OBVIOUS
<1>1. /\ bar = [b \in Phases |-> NewBarrier(BarrierCount)]
      /\ asleep = [t \in Threads |-> FALSE] /\ next = 1
  BY DEF Init
<1>2. Rounds = 0
  BY <1>1 DEF Rounds, NewBarrier, Phases
<1>3. \A b \in Phases : ArrivedAt(b) = {}
  <2>1. \A b \in Phases, t \in Threads : ~Blocked(t, b)
    BY <1>1 DEF Blocked
  <2>2. \A b \in Phases, g \in Groups : ~Answered(b, g)
    BY <1>1, ConstantFacts DEF Answered
  <2>. QED
    BY <2>1, <2>2, ConstantFacts DEF ArrivedAt
<1>. QED
  BY <1>2, <1>3 DEF Present

\* The barriers, whoever answers for whom, implement numbered rounds in which
\* every thread arrives once and which end when the last one has arrived.
THEOREM ImplementsClock == Spec => ClockSpec
<1>1. Init => Clock!Init
  BY InitClock DEF Clock!Init, Rounds, Present
<1>2. IInv /\ [Next]_vars => [Clock!Next]_<<Rounds, Present>>
  BY NextClock DEF ClockStep
<1>3. [Clock!Next]_<<Rounds, Present>> <=>
        [Clock!Next]_<<bar["frame"].generation + bar["flip"].generation + bar["bus"].generation,
                      UNION {ArrivedAt(b) : b \in Phases}>>
  BY DEF Rounds, Present
<1>. QED
  BY <1>1, <1>2, <1>3, Invariant, PTL DEF Spec, ClockSpec, Clock!Spec
=============================================================================
