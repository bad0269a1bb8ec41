--------------------------- MODULE EntityLifecycle ---------------------------
(***************************************************************************)
(* The life of the entities of a short-term WorkGroup: waiting for their   *)
(* start time in the group's queue or in a fleet controller, staged by the *)
(* main thread, assigned to a worker, managed and updated by it, handed    *)
(* back when they are done, and deleted by the main thread while the       *)
(* workers are already in the next tick (WorkGroup.cpp, Worker.cpp,        *)
(* Agent.cpp, BusController.cpp, FleetController.cpp).                      *)
(*                                                                         *)
(* The barriers are WorkGroups.tla's: the workers run from the release of  *)
(* the message bus to the frame barrier, main runs alone from there to the *)
(* message bus.  The bus is MessageBus.tla's, reduced to where messages    *)
(* wait and whom they are for.  Left out: the registration of a new agent  *)
(* with the AuraManager, messages posted with an offset (those of agents   *)
(* that die meanwhile), and entities that are not Agents.                  *)
(***************************************************************************)
EXTENDS Integers, FiniteSets

CONSTANTS
  NumWorkers,  \* workers.size()
  Entities,    \* every agent of the run
  Controller,  \* the BusController or FleetController among them
  Initial,     \* all_agents when the simulation starts
  Children,    \* pendingChildren of the controller when it starts
  Mortal,      \* the agents that may be done
  Addressees,  \* a bound: the agents that messages are posted to
  StartTime,   \* when each agent is to start, in milliseconds
  BaseGranMS,  \* the length of a base tick, in milliseconds
  Step,        \* the granularity of the group, in base ticks
  Strategy,    \* ASSIGN_ROUNDROBIN or ASSIGN_SMALLEST
  EndTick      \* the first tick that is not simulated

Workers == 0 .. NumWorkers - 1

None == -1  \* a null WorkerProvider, and the context of a handler without one

\* The fleet controllers outlive their children; who starts at time zero is in
\* all_agents, everybody else waits in a queue (addOrStashEntity).
ASSUME LifecycleAssumption ==
  /\ NumWorkers \in Nat \ {0} /\ BaseGranMS \in Nat \ {0} /\ Step \in Nat \ {0}
  /\ IsFiniteSet(Entities) /\ Controller \in Initial \ Mortal /\ Addressees \subseteq Entities
  /\ Initial \subseteq Entities /\ Children \subseteq Entities \ Initial
  /\ StartTime \in [Entities -> Nat]
  /\ \A e \in Entities : StartTime[e] = 0 <=> e \in Initial
  /\ Strategy \in {"roundrobin", "smallest"} /\ EndTick \in Nat

VARIABLES
  tick,                 \* the base tick the workers are in
  main,                 \* what the main thread does
  at,                   \* what each worker does
  pending_source,       \* the group's queue of agents that start later
  pendingChildren,      \* the controller's queue
  nextTimeTickToStage,  \* the controller's count of its updates
  entToBeBred,          \* the lists main and each worker share
  entToBeRemoved,
  toBeAdded,            \* each worker's own lists
  toBeRemoved,
  toBeBred,
  managedEntities,
  nextWorkerID,
  currWorker,           \* currWorkerProvider, set and cleared with the context
  all_agents,           \* entity_dest: everybody who was staged or started
  removedEntities,      \* collected by main, not yet deleted
  deleted,
  lastUpdate,           \* history: the tick of each agent's last update
  failed,               \* history: agents that checkFrameTimes threw out
  output,               \* whom each worker's undistributed messages are for
  input                 \* whom the messages in its input queue are for

queues == <<pending_source, pendingChildren, nextTimeTickToStage>>
shared == <<entToBeBred, entToBeRemoved>>
lists == <<toBeAdded, toBeRemoved, toBeBred, managedEntities>>
mail == <<output, input>>
vars == <<tick, main, at, queues, shared, lists, nextWorkerID, currWorker,
          all_agents, removedEntities, deleted, lastUpdate, failed, mail>>

Empty == [w \in Workers |-> {}]

-----------------------------------------------------------------------------
\* The time of a base tick.
MS(t) == t * BaseGranMS

GroupTick(t) == t % Step = 0

\* What the workers do when the message bus has released them into tick t.
Begin(t) == [w \in Workers |-> IF t < EndTick /\ GroupTick(t) THEN "dispatch" ELSE "wait"]

\* getAgentSize(true), given the workers' lists.
AgentSize(w, added) == Cardinality(managedEntities[w]) + Cardinality(added[w])

\* The workers assignAWorker may choose: the next one, or the first of the
\* least loaded ones.
Chosen(w, added) ==
  IF Strategy = "roundrobin" THEN w = nextWorkerID
  ELSE \A v \in Workers :
         IF v < w THEN AgentSize(w, added) < AgentSize(v, added)
                  ELSE AgentSize(w, added) <= AgentSize(v, added)

\* Before the threads start, main has assigned all_agents one after the other:
\* whatever the strategy, the shares are as equal as they can be.
Init ==
  /\ tick = 0 /\ main = "wait" /\ at = Begin(0)
  /\ pending_source = (Entities \ Initial) \ Children
  /\ pendingChildren = Children /\ nextTimeTickToStage = 0
  /\ entToBeBred = Empty /\ entToBeRemoved = Empty
  /\ toBeAdded \in [Workers -> SUBSET Initial]
  /\ \A e \in Initial : \E w \in Workers : \A v \in Workers : e \in toBeAdded[v] <=> v = w
  /\ \A v \in Workers : Cardinality(toBeAdded[v]) =
       (Cardinality(Initial) + NumWorkers - 1 - v) \div NumWorkers
  /\ toBeRemoved = Empty /\ toBeBred = Empty /\ managedEntities = Empty
  /\ nextWorkerID = Cardinality(Initial) % NumWorkers
  /\ currWorker = [e \in Entities |-> None]
  /\ all_agents = Initial /\ removedEntities = {} /\ deleted = {}
  /\ lastUpdate = [e \in Entities |-> -1] /\ failed = {}
  /\ output = Empty /\ input = Empty

-----------------------------------------------------------------------------
(* The worker threads. *)

\* Entity code posts a message, as it handles one or updates.  It knows of
\* those who died in earlier ticks and no longer addresses them.
PostMessage(w, e) ==
  /\ at[w] \in {"dispatch", "update"}
  /\ e \in Addressees \ (removedEntities \cup deleted)
  /\ output' = [output EXCEPT ![w] = @ \cup {e}]
  /\ UNCHANGED <<tick, main, at, queues, shared, lists, nextWorkerID, currWorker, all_agents,
                 removedEntities, deleted, lastUpdate, failed, input>>

ThreadDispatchMessages(w, e) ==
  /\ at[w] = "dispatch"
  /\ e \in input[w]
  /\ input' = [input EXCEPT ![w] = @ \ {e}]
  /\ UNCHANGED <<tick, main, at, queues, shared, lists, nextWorkerID, currWorker, all_agents,
                 removedEntities, deleted, lastUpdate, failed, output>>

\* Mutant: the list of additions is not cleared.
AddPendingEntitiesKeeping(w) ==
  /\ at[w] = "dispatch" /\ input[w] = {}
  /\ at' = [at EXCEPT ![w] = "update"]
  /\ managedEntities' = [managedEntities EXCEPT ![w] = @ \cup toBeAdded[w]]
  /\ currWorker' = [e \in Entities |-> IF e \in toBeAdded[w] THEN w ELSE currWorker[e]]
  /\ UNCHANGED <<tick, main, queues, shared, toBeAdded, toBeRemoved, toBeBred, nextWorkerID,
                 all_agents, removedEntities, deleted, lastUpdate, failed, mail>>

\* perform_frame_tick begins: migrateIn and RegisterHandler for the new agents.
AddPendingEntities(w) ==
  /\ at[w] = "dispatch" /\ input[w] = {}
  /\ at' = [at EXCEPT ![w] = "update"]
  /\ managedEntities' = [managedEntities EXCEPT ![w] = @ \cup toBeAdded[w]]
  /\ currWorker' = [e \in Entities |-> IF e \in toBeAdded[w] THEN w ELSE currWorker[e]]
  /\ toBeAdded' = [toBeAdded EXCEPT ![w] = {}]
  /\ UNCHANGED <<tick, main, queues, shared, toBeRemoved, toBeBred, nextWorkerID, all_agents,
                 removedEntities, deleted, lastUpdate, failed, mail>>

\* Mutant: the controller counts from the tick it is in.
HatchingLate == {c \in pendingChildren : StartTime[c] <= MS(nextTimeTickToStage)}

\* The children the controller breeds in its update: those that will start in
\* the next tick, if it counts ticks right.
Hatching == {c \in pendingChildren : StartTime[c] <= MS(nextTimeTickToStage + 1)}

\* The controller's frame_tick.
FrameTick(w, e) ==
  IF e = Controller
  THEN /\ nextTimeTickToStage' = nextTimeTickToStage + 1
       /\ pendingChildren' = pendingChildren \ Hatching
       /\ toBeBred' = [toBeBred EXCEPT ![w] = @ \cup Hatching]
  ELSE UNCHANGED <<nextTimeTickToStage, pendingChildren, toBeBred>>

\* Agent::checkFrameTimes throws: the first update is early, or late by a whole
\* base tick or more.
WrongTime(e) ==
  \/ MS(tick) < StartTime[e]
  \/ lastUpdate[e] = -1 /\ MS(tick) - StartTime[e] >= BaseGranMS

\* Agent::update and EntityUpdater: an agent that is done, or that throws, is
\* scheduled for removal.
UpdateEntity(w, e) ==
  /\ at[w] = "update"
  /\ e \in managedEntities[w] /\ lastUpdate[e] # tick
  /\ lastUpdate' = [lastUpdate EXCEPT ![e] = tick]
  /\ IF WrongTime(e)
     THEN /\ failed' = failed \cup {e}
          /\ toBeRemoved' = [toBeRemoved EXCEPT ![w] = @ \cup {e}]
          /\ UNCHANGED <<nextTimeTickToStage, pendingChildren, toBeBred>>
     ELSE /\ FrameTick(w, e)
          /\ \/ UNCHANGED toBeRemoved
             \/ e \in Mortal /\ toBeRemoved' = [toBeRemoved EXCEPT ![w] = @ \cup {e}]
          /\ UNCHANGED failed
  /\ UNCHANGED <<tick, main, at, pending_source, shared, toBeAdded, managedEntities,
                 nextWorkerID, currWorker, all_agents, removedEntities, deleted, mail>>

\* Mutant: the list of removals is kept after it was handed to main.
RemovePendingEntitiesKeeping(w) ==
  /\ at[w] = "update"
  /\ \A e \in managedEntities[w] : lastUpdate[e] = tick
  /\ at' = [at EXCEPT ![w] = "wait"]
  /\ managedEntities' = [managedEntities EXCEPT ![w] = @ \ toBeRemoved[w]]
  /\ currWorker' = [e \in Entities |-> IF e \in toBeRemoved[w] THEN None ELSE currWorker[e]]
  /\ entToBeRemoved' = [entToBeRemoved EXCEPT ![w] = @ \cup toBeRemoved[w]]
  /\ entToBeBred' = [entToBeBred EXCEPT ![w] = @ \cup toBeBred[w]]
  /\ toBeBred' = [toBeBred EXCEPT ![w] = {}]
  /\ UNCHANGED <<tick, main, queues, toBeRemoved, toBeAdded, nextWorkerID, all_agents,
                 removedEntities, deleted, lastUpdate, failed, mail>>

\* Everybody is updated: migrateOut and UnRegisterHandler for those who are
\* done, then removals and births go to the lists main reads after the barrier.
RemovePendingEntities(w) ==
  /\ at[w] = "update"
  /\ \A e \in managedEntities[w] : lastUpdate[e] = tick
  /\ at' = [at EXCEPT ![w] = "wait"]
  /\ managedEntities' = [managedEntities EXCEPT ![w] = @ \ toBeRemoved[w]]
  /\ currWorker' = [e \in Entities |-> IF e \in toBeRemoved[w] THEN None ELSE currWorker[e]]
  /\ entToBeRemoved' = [entToBeRemoved EXCEPT ![w] = @ \cup toBeRemoved[w]]
  /\ entToBeBred' = [entToBeBred EXCEPT ![w] = @ \cup toBeBred[w]]
  /\ toBeRemoved' = [toBeRemoved EXCEPT ![w] = {}]
  /\ toBeBred' = [toBeBred EXCEPT ![w] = {}]
  /\ UNCHANGED <<tick, main, queues, toBeAdded, nextWorkerID, all_agents, removedEntities,
                 deleted, lastUpdate, failed, mail>>

-----------------------------------------------------------------------------
(* The main thread. *)

\* All workers wait at the frame barrier, or main answers for the idle ones.
\* In the group's own tick staging begins with the births of the tick.
StageBred ==
  /\ main = "wait" /\ tick < EndTick /\ \A w \in Workers : at[w] = "wait"
  /\ IF GroupTick(tick)
     THEN /\ main' = "stage"
          /\ pending_source' = pending_source \cup UNION {entToBeBred[w] : w \in Workers}
          /\ entToBeBred' = Empty
     ELSE main' = "distribute" /\ UNCHANGED <<pending_source, entToBeBred>>
  /\ UNCHANGED <<tick, at, pendingChildren, nextTimeTickToStage, entToBeRemoved, lists,
                 nextWorkerID, currWorker, all_agents, removedEntities, deleted, lastUpdate,
                 failed, mail>>

\* Mutant: an agent is staged in the tick it starts in.
StageableLate == {e \in pending_source : StartTime[e] <= MS(tick)}

\* Who starts by the group's next update, in tick nextTimeTick = tick + Step.
Stageable == {e \in pending_source : StartTime[e] <= MS(tick + Step)}

\* Mutant: the next worker's number is not wrapped round.
StageEntityUnwrapped(e, w) ==
  /\ main = "stage"
  /\ e \in Stageable /\ \A f \in pending_source : StartTime[e] <= StartTime[f]
  /\ Chosen(w, toBeAdded)
  /\ pending_source' = pending_source \ {e}
  /\ all_agents' = all_agents \cup {e}
  /\ toBeAdded' = [toBeAdded EXCEPT ![w] = @ \cup {e}]
  /\ nextWorkerID' = nextWorkerID + 1
  /\ UNCHANGED <<tick, main, at, pendingChildren, nextTimeTickToStage, shared,
                 toBeRemoved, toBeBred, managedEntities, currWorker, removedEntities,
                 deleted, lastUpdate, failed, mail>>

\* One round of stageEntities: the earliest agent goes to a worker, unless it is
\* a duplicate.
StageEntity(e, w) ==
  /\ main = "stage"
  /\ e \in Stageable /\ \A f \in pending_source : StartTime[e] <= StartTime[f]
  /\ Chosen(w, toBeAdded)
  /\ pending_source' = pending_source \ {e}
  /\ IF e \in all_agents
     THEN UNCHANGED <<all_agents, toBeAdded, nextWorkerID>>
     ELSE /\ all_agents' = all_agents \cup {e}
          /\ toBeAdded' = [toBeAdded EXCEPT ![w] = @ \cup {e}]
          /\ nextWorkerID' = (nextWorkerID + 1) % NumWorkers
  /\ UNCHANGED <<tick, main, at, pendingChildren, nextTimeTickToStage, shared,
                 toBeRemoved, toBeBred, managedEntities, currWorker, removedEntities,
                 deleted, lastUpdate, failed, mail>>

\* Mutant: what was collected is deleted at once, before the messages are sent.
CollectAndDelete ==
  /\ main = "stage" /\ Stageable = {}
  /\ main' = "distribute"
  /\ deleted' = deleted \cup UNION {entToBeRemoved[w] : w \in Workers}
  /\ all_agents' = all_agents \ UNION {entToBeRemoved[w] : w \in Workers}
  /\ entToBeRemoved' = Empty
  /\ UNCHANGED <<tick, at, queues, entToBeBred, lists, nextWorkerID, currWorker,
                 removedEntities, lastUpdate, failed, mail>>

CollectRemovedEntities ==
  /\ main = "stage" /\ Stageable = {}
  /\ main' = "distribute"
  /\ removedEntities' = removedEntities \cup UNION {entToBeRemoved[w] : w \in Workers}
  /\ all_agents' = all_agents \ UNION {entToBeRemoved[w] : w \in Workers}
  /\ entToBeRemoved' = Empty
  /\ UNCHANGED <<tick, at, queues, entToBeBred, lists, nextWorkerID, currWorker,
                 deleted, lastUpdate, failed, mail>>

\* Messages go to the worker of their destination, or nowhere if it has none;
\* then the message bus barrier releases the workers into the next tick.
DistributeMessages ==
  /\ main = "distribute"
  /\ main' = "delete"
  /\ input' = [w \in Workers |-> input[w] \cup
       {e \in UNION {output[v] : v \in Workers} : currWorker[e] = w}]
  /\ output' = Empty
  /\ tick' = tick + 1
  /\ at' = Begin(tick + 1)
  /\ UNCHANGED <<queues, shared, lists, nextWorkerID, currWorker, all_agents, removedEntities,
                 deleted, lastUpdate, failed>>

\* Mutant: the agents collected in the last tick are left.
DeleteRemovedWhileRunning ==
  /\ main = "delete"
  /\ main' = "wait"
  /\ IF tick < EndTick THEN deleted' = deleted \cup removedEntities ELSE UNCHANGED deleted
  /\ removedEntities' = {}
  /\ UNCHANGED <<tick, at, queues, shared, lists, nextWorkerID, currWorker, all_agents,
                 lastUpdate, failed, mail>>

\* waitAllGroups ends while the workers run: the collected agents are deleted.
DeleteRemoved ==
  /\ main = "delete"
  /\ main' = "wait"
  /\ deleted' = deleted \cup removedEntities
  /\ removedEntities' = {}
  /\ UNCHANGED <<tick, at, queues, shared, lists, nextWorkerID, currWorker, all_agents,
                 lastUpdate, failed, mail>>

-----------------------------------------------------------------------------
Over == tick = EndTick /\ main = "wait" /\ UNCHANGED vars

WorkerStep(w) ==
  \/ \E e \in Entities : PostMessage(w, e) \/ ThreadDispatchMessages(w, e) \/ UpdateEntity(w, e)
  \/ AddPendingEntities(w)
  \/ RemovePendingEntities(w)

MainStep ==
  \/ StageBred
  \/ \E e \in Entities, w \in Workers : StageEntity(e, w)
  \/ CollectRemovedEntities
  \/ DistributeMessages
  \/ DeleteRemoved

Next == MainStep \/ (\E w \in Workers : WorkerStep(w)) \/ Over

Spec == Init /\ [][Next]_vars

\* Every thread is scheduled eventually, and no update lasts for ever.
FairSpec == Spec /\ WF_vars(MainStep) /\ \A w \in Workers : WF_vars(WorkerStep(w))
=============================================================================
