----------------------------- MODULE WorkGroups -----------------------------
(***************************************************************************)
(* The time-step protocol of SimMobility: the main thread                  *)
(* (WorkGroupManager::waitAllGroups) and the worker threads                *)
(* (Worker::threaded_function_loop) of several WorkGroups, each of its own *)
(* granularity tickStep, advance together through three shared             *)
(* FlexiBarriers, the frame tick, the buffer flip and the message bus, and *)
(* one private "macro" barrier per group with tickStep > 1.                *)
(*                                                                         *)
(* What the threads do between two barriers (updating entities, flipping   *)
(* buffers, staging, distributing messages) is only named here by the      *)
(* value of pc: the module is about who may be doing what at one time.     *)
(***************************************************************************)
EXTENDS Integers, FiniteSets, FlexiBarrier

CONSTANTS
  Main,       \* the main thread
  Workers,    \* every worker thread of every group
  NumGroups,  \* registeredWorkGroups.size()
  GroupOf,    \* the group of each worker
  TickStep,   \* the granularity of each group, in base ticks
  StartTick,  \* simulationStartDay: where a resumed long-term run starts
  EndTick,    \* numSimTicks: the first tick that is not simulated
  Mode        \* which of the three simulators runs

Groups == 1 .. NumGroups

Threads == Workers \cup {Main}

\* The workers vector of a group.
WorkersOf(g) == {w \in Workers : GroupOf[w] = g}

\* Mutant: the main thread is not counted.
BarrierCountWithoutMain == Cardinality(Workers)

\* currBarrierCount: one for the main thread and one for every worker.
BarrierCount == Cardinality(Workers) + 1

ASSUME ThreadsAssumption ==
  /\ IsFiniteSet(Workers)
  /\ Main \notin Workers

ASSUME GroupsAssumption ==
  /\ NumGroups \in Nat
  /\ GroupOf \in [Workers -> Groups]
  /\ TickStep \in [Groups -> Nat \ {0}]

\* Only a long-term run is resumed from a later day.
ASSUME TicksAssumption ==
  /\ Mode \in {"short", "medium", "long"}
  /\ StartTick \in Nat
  /\ EndTick \in Nat
  /\ StartTick < EndTick
  /\ Mode # "long" => StartTick = 0

VARIABLES
  bar,           \* frameTickBarr, buffFlipBarr and msgBusBarr
  macroBar,      \* macro_tick_barr of each group
  pc,            \* what each thread is doing, or the barrier it is waiting on
  asleep,        \* the threads inside the condition-variable loop of a wait()
  seen,          \* the generation a sleeping thread read when it entered
  next,          \* the main thread's iterator over registeredWorkGroups
  mainTick,      \* currTick of the main loop
  tickOffset,    \* countdown of each group to its next update
  currTimeTick,  \* WorkGroup::currTimeTick
  nextTimeTick,  \* WorkGroup::nextTimeTick
  currTick       \* loop_params.currTick of each worker

barrierVars == <<bar, macroBar>>
threadVars == <<pc, asleep, seen>>
groupVars == <<tickOffset, currTimeTick, nextTimeTick>>
vars == <<barrierVars, threadVars, next, mainTick, groupVars, currTick>>

Phases == {"frame", "flip", "bus"}

-----------------------------------------------------------------------------
\* The macro barrier exists only for a granularity above one.
HasMacro(g) == TickStep[g] > 1

Active(tick) == tick < EndTick

\* Mutant: no last countdown for a group that ends with the simulation.
ExtraActiveAsActive(tick) == Active(tick)

\* MgmtParams::extraActive: will the tick before the next update be simulated?
ExtraActive(tick) == tick - 1 < EndTick

\* The head of the worker's loop; mid-term prepends a barrier to tick zero.
LoopHead(tick) == IF Mode = "medium" /\ tick = 0 THEN "zero" ELSE "update"

AfterLoop(tick) == IF Active(tick) THEN LoopHead(tick) ELSE "exit"

\* Mutant: the macro barrier is forgotten.
AfterBusWithoutMacro(w) == AfterLoop(currTick[w])

AfterBus(w) ==
  IF HasMacro(GroupOf[w]) /\ ExtraActive(currTick[w])
  THEN "macro" ELSE AfterLoop(currTick[w])

\* Mutant: main contributes for groups in their own update as well.
ContributesForAll(b, g) == b = "bus" => Mode = "short"

\* Does main answer for the sleeping workers of g at this barrier?  At the
\* message bus only waitAuraManager does, and only short-term calls it.
Contributes(b, g) == tickOffset[g] # 0 /\ (b = "bus" => Mode = "short")

Init ==
  /\ bar = [b \in Phases |-> NewBarrier(BarrierCount)]
  /\ macroBar = [g \in Groups |-> NewBarrier(Cardinality(WorkersOf(g)) + 1)]
  /\ pc = [t \in Threads |->
             IF t \in Workers THEN LoopHead(StartTick)
             ELSE IF Mode = "medium" THEN "zero" ELSE "frame"]
  /\ asleep = [t \in Threads |-> FALSE]
  /\ seen = [t \in Threads |-> 0]
  /\ next = 1
  /\ mainTick = StartTick
  /\ tickOffset = [g \in Groups |-> 0]
  /\ currTimeTick = [g \in Groups |-> 0]
  /\ nextTimeTick = [g \in Groups |-> 0]
  /\ currTick = [w \in Workers |-> StartTick]

-----------------------------------------------------------------------------
\* A thread enters wait() on a barrier record b: it leads, or goes to sleep.
EnterWait(t, b, after) ==
  /\ ~asleep[t]
  /\ ~Overflows(b, 1)
  /\ IF Completes(b, 1)
     THEN pc' = [pc EXCEPT ![t] = after] /\ UNCHANGED <<asleep, seen>>
     ELSE /\ asleep' = [asleep EXCEPT ![t] = TRUE]
          /\ seen' = [seen EXCEPT ![t] = b.generation]
          /\ UNCHANGED pc

\* A sleeping thread finds the generation changed and returns from wait().
LeaveWait(t, b, after) ==
  /\ asleep[t]
  /\ Released(b, seen[t])
  /\ pc' = [pc EXCEPT ![t] = after]
  /\ asleep' = [asleep EXCEPT ![t] = FALSE]
  /\ seen' = [seen EXCEPT ![t] = 0]

Enter(t, b, after) ==
  /\ EnterWait(t, bar[b], after)
  /\ bar' = [bar EXCEPT ![b] = Take(@, 1)]

Leave(t, b, after) ==
  /\ LeaveWait(t, bar[b], after)
  /\ UNCHANGED bar

Wait(t, b, after) == Enter(t, b, after) \/ Leave(t, b, after)

-----------------------------------------------------------------------------
(* The main thread. *)

\* Mutant: main starts its first tick without the zero barrier.
MainZeroSkipped ==
  /\ pc[Main] = "zero"
  /\ pc' = [pc EXCEPT ![Main] = "frame"]
  /\ UNCHANGED <<barrierVars, asleep, seen, next, mainTick, groupVars, currTick>>

\* medium/main_impl.cpp waits once on the frame barrier before its first tick.
MainZero ==
  /\ pc[Main] = "zero"
  /\ Wait(Main, "frame", "frame")
  /\ UNCHANGED <<macroBar, next, mainTick, groupVars, currTick>>

\* Main is in the loop of phase b, at the group `next`.
Visiting(b) == pc[Main] = b /\ ~asleep[Main] /\ next \in Groups

\* The part common to waitFrameTick, waitFlipBuffers and waitAuraManager: the
\* group's own update, or a contribution on behalf of its idle workers.
Visit(b) ==
  /\ Visiting(b)
  /\ IF Contributes(b, next)
     THEN /\ ~Overflows(bar[b], Cardinality(WorkersOf(next)))
          /\ bar' = [bar EXCEPT ![b] = Take(@, Cardinality(WorkersOf(next)))]
     ELSE UNCHANGED bar
  /\ next' = next + 1
  /\ UNCHANGED <<macroBar, threadVars, mainTick, tickOffset, currTick>>

\* Mutant: the clock advances on every base tick.
WaitFrameTickEveryTick ==
  /\ Visit("frame")
  /\ currTimeTick' = [currTimeTick EXCEPT ![next] = nextTimeTick[next]]
  /\ nextTimeTick' = [nextTimeTick EXCEPT ![next] = @ + TickStep[next]]

\* WorkGroup::waitFrameTick: a group at offset zero starts a new update.
WaitFrameTick ==
  /\ Visit("frame")
  /\ IF tickOffset[next] = 0
     THEN /\ currTimeTick' = [currTimeTick EXCEPT ![next] = nextTimeTick[next]]
          /\ nextTimeTick' = [nextTimeTick EXCEPT ![next] = @ + TickStep[next]]
     ELSE UNCHANGED <<currTimeTick, nextTimeTick>>

\* WorkGroup::waitFlipBuffers: staging and collecting, or a contribution.
WaitFlipBuffers == Visit("flip") /\ UNCHANGED <<currTimeTick, nextTimeTick>>

\* waitAllGroups_DistributeMessages, per group: the aura manager in
\* short-term, the multi-update entities in mid-term, nothing in long-term.
WaitAuraManager == Visit("bus") /\ UNCHANGED <<currTimeTick, nextTimeTick>>

\* The barrier wait that ends each of the three phases on the main thread.
MainWait(b, after) ==
  /\ pc[Main] = b
  /\ next \notin Groups
  /\ Wait(Main, b, after)
  /\ next' = IF pc'[Main] = b THEN next ELSE 1
  /\ UNCHANGED <<macroBar, mainTick, groupVars, currTick>>

MainFrameWait == MainWait("frame", "flip")
MainFlipWait == MainWait("flip", "bus")
MainBusWait == MainWait("bus", "macro")

\* Mutant: the countdown is not reset at zero.
CountDownWithoutReset ==
  /\ Visiting("macro")
  /\ tickOffset[next] # 1
  /\ tickOffset' = [tickOffset EXCEPT ![next] = @ - 1]
  /\ next' = next + 1
  /\ UNCHANGED <<barrierVars, threadVars, mainTick, currTimeTick, nextTimeTick,
                 currTick>>

\* Mutant: the tick that resets the countdown does not count.
CountDownLate ==
  /\ Visiting("macro")
  /\ tickOffset[next] # 1
  /\ tickOffset' = [tickOffset EXCEPT ![next] = IF @ = 0 THEN TickStep[next] ELSE @ - 1]
  /\ next' = next + 1
  /\ UNCHANGED <<barrierVars, threadVars, mainTick, currTimeTick, nextTimeTick,
                 currTick>>

\* WorkGroup::waitMacroTimeTick away from offset one: reset and count down.
CountDown ==
  /\ Visiting("macro")
  /\ tickOffset[next] # 1
  /\ tickOffset' = [tickOffset EXCEPT ![next] =
                      (IF @ = 0 THEN TickStep[next] ELSE @) - 1]
  /\ next' = next + 1
  /\ UNCHANGED <<barrierVars, threadVars, mainTick, currTimeTick, nextTimeTick,
                 currTick>>

\* At offset one main meets the group's workers at the macro barrier, and
\* counts down to zero once the wait returns.
MainMacro ==
  /\ pc[Main] = "macro"
  /\ next \in Groups
  /\ tickOffset[next] = 1
  /\ HasMacro(next)
  /\ \/ /\ EnterWait(Main, macroBar[next], "macro")
        /\ macroBar' = [macroBar EXCEPT ![next] = Take(@, 1)]
     \/ /\ LeaveWait(Main, macroBar[next], "macro")
        /\ UNCHANGED macroBar
  /\ IF asleep'[Main]
     THEN UNCHANGED <<next, tickOffset>>
     ELSE /\ next' = next + 1
          /\ tickOffset' = [tickOffset EXCEPT ![next] = 0]
  /\ UNCHANGED <<bar, mainTick, currTimeTick, nextTimeTick, currTick>>

\* The removed entities are deleted and the main loop takes its next tick.
MainNextTick ==
  /\ pc[Main] = "macro"
  /\ next \notin Groups
  /\ mainTick' = mainTick + 1
  /\ pc' = [pc EXCEPT ![Main] = IF mainTick + 1 < EndTick THEN "frame" ELSE "done"]
  /\ next' = 1
  /\ UNCHANGED <<barrierVars, asleep, seen, groupVars, currTick>>

-----------------------------------------------------------------------------
(* A worker thread. *)

\* Mutant: a worker goes on after its own initialisation.
WorkerZeroWithoutWait(w) ==
  /\ pc[w] = "zero"
  /\ pc' = [pc EXCEPT ![w] = "update"]
  /\ UNCHANGED <<barrierVars, asleep, seen, next, mainTick, groupVars, currTick>>

\* Mid-term initialises the multi-update entities and waits an extra time.
WorkerZero(w) ==
  /\ pc[w] = "zero"
  /\ Wait(w, "frame", "update")
  /\ UNCHANGED <<macroBar, next, mainTick, groupVars, currTick>>

\* Mutant: the worker advances by one base tick.
PerformFrameTickByOne(w) ==
  /\ pc[w] = "update"
  /\ currTick' = [currTick EXCEPT ![w] = @ + 1]
  /\ pc' = [pc EXCEPT ![w] = "frame"]
  /\ UNCHANGED <<barrierVars, asleep, seen, next, mainTick, groupVars>>

\* ThreadDispatchMessages and perform_frame_tick.
PerformFrameTick(w) ==
  /\ pc[w] = "update"
  /\ currTick' = [currTick EXCEPT ![w] = @ + TickStep[GroupOf[w]]]
  /\ pc' = [pc EXCEPT ![w] = "frame"]
  /\ UNCHANGED <<barrierVars, asleep, seen, next, mainTick, groupVars>>

WorkerWait(w, b, after) ==
  /\ pc[w] = b
  /\ Wait(w, b, after)
  /\ UNCHANGED <<macroBar, next, mainTick, groupVars, currTick>>

WorkerFrameWait(w) == WorkerWait(w, "frame", "flip")
WorkerFlipWait(w) == WorkerWait(w, "flip", "bus")  \* after perform_buff_flip
WorkerBusWait(w) == WorkerWait(w, "bus", AfterBus(w))

WorkerMacro(w) ==
  /\ pc[w] = "macro"
  /\ \/ /\ EnterWait(w, macroBar[GroupOf[w]], AfterLoop(currTick[w]))
        /\ macroBar' = [macroBar EXCEPT ![GroupOf[w]] = Take(@, 1)]
     \/ /\ LeaveWait(w, macroBar[GroupOf[w]], AfterLoop(currTick[w]))
        /\ UNCHANGED macroBar
  /\ UNCHANGED <<bar, next, mainTick, groupVars, currTick>>

-----------------------------------------------------------------------------
\* The simulation is over: destructors and joins follow, nothing else moves.
Terminated == \A t \in Threads : pc[t] \in {"done", "exit"}

Terminating == Terminated /\ UNCHANGED vars

MainStep ==
  \/ MainZero \/ WaitFrameTick \/ MainFrameWait \/ WaitFlipBuffers
  \/ MainFlipWait \/ WaitAuraManager \/ MainBusWait \/ CountDown
  \/ MainMacro \/ MainNextTick

WorkerStep(w) ==
  \/ WorkerZero(w) \/ PerformFrameTick(w) \/ WorkerFrameWait(w)
  \/ WorkerFlipWait(w) \/ WorkerBusWait(w) \/ WorkerMacro(w)

Next == MainStep \/ (\E w \in Workers : WorkerStep(w)) \/ Terminating

\* Every thread is an operating-system thread that is scheduled eventually.
Fairness == WF_vars(MainStep) /\ \A w \in Workers : WF_vars(WorkerStep(w))

Spec == Init /\ [][Next]_vars

FairSpec == Spec /\ Fairness
=============================================================================
