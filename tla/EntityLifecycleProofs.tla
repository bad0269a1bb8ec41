------------------------ MODULE EntityLifecycleProofs -------------------------
(***************************************************************************)
(* Proofs of the safety properties of the life of the entities, for every  *)
(* number of workers and agents, granularity, strategy and start times.    *)
(*                                                                         *)
(* IInv says where an agent can be while main stages, collects and deletes *)
(* (Phases), and that the redundant records of that place agree with it:   *)
(* currWorker with managedEntities, all_agents with everybody between      *)
(* staging and collection.  That an agent is in one list is stated         *)
(* without cardinalities: some list and holder are the only ones that have *)
(* it (Placed); a step leaves it there or moves it from there to another   *)
(* one (Stays, Moves).  A message sent is for nobody who is about to be    *)
(* deleted, because deletion waits until the messages are distributed, and *)
(* a message distributed is read before its reader can be removed          *)
(* (Addressed).                                                            *)
(*                                                                         *)
(* InTime adds the start times, in a group that ticks with every base      *)
(* tick: who waits is not due before the next tick, whoever main or the    *)
(* controller hands on is due in the next one, and the controller's own    *)
(* count of ticks is the tick, as it is updated in each of them.  ForTick  *)
(* says what is left of this for every granularity: the next tick of the   *)
(* group is at most Step base ticks away (NextTick), so who is staged for  *)
(* it is due by then and was not before.  The children of the controller   *)
(* may be late, as it counts its updates for ticks.                        *)
(***************************************************************************)
EXTENDS EntityLifecycleInv, FiniteSetTheorems, TLAPS

\* Who is in which list, with the worker that holds it or None.
Here(e, l, w) ==
  \/ w = None /\ \/ l = "pending" /\ e \in pending_source
                 \/ l = "children" /\ e \in pendingChildren
                 \/ l = "collected" /\ e \in removedEntities
                 \/ l = "deleted" /\ e \in deleted
  \/ w \in Workers /\ \/ l = "bred" /\ e \in toBeBred[w]
                      \/ l = "scheduled" /\ e \in entToBeBred[w]
                      \/ l = "added" /\ e \in toBeAdded[w]
                      \/ l = "managed" /\ e \in managedEntities[w]
                      \/ l = "removed" /\ e \in entToBeRemoved[w]

OnlyHere(e, l, w) == \A k, v : Here(e, k, v) <=> k = l /\ v = w

Placed == \A e \in Entities : \E l, w : OnlyHere(e, l, w)

Typed ==
  /\ tick \in 0 .. EndTick
  /\ main \in {"wait", "stage", "distribute", "delete"}
  /\ at \in [Workers -> {"wait", "dispatch", "update"}]
  /\ pending_source \in SUBSET Entities /\ pendingChildren \in SUBSET Entities
  /\ all_agents \in SUBSET Entities
  /\ removedEntities \in SUBSET Entities /\ deleted \in SUBSET Entities
  /\ failed \in SUBSET Entities
  /\ nextTimeTickToStage \in 0 .. EndTick
  /\ entToBeBred \in [Workers -> SUBSET Entities]
  /\ entToBeRemoved \in [Workers -> SUBSET Entities]
  /\ toBeAdded \in [Workers -> SUBSET Entities]
  /\ toBeRemoved \in [Workers -> SUBSET Entities]
  /\ toBeBred \in [Workers -> SUBSET Entities]
  /\ managedEntities \in [Workers -> SUBSET Entities]
  /\ output \in [Workers -> SUBSET Entities]
  /\ input \in [Workers -> SUBSET Entities]
  /\ nextWorkerID \in Workers
  /\ currWorker \in [Entities -> Workers \cup {None}]
  /\ lastUpdate \in [Entities -> -1 .. EndTick - 1]

LEMMA TypedIsType == Typed <=> TypeOK
BY DEF Typed, TypeOK

LEMMA PlacedIsOne == Typed /\ Placed => OnePlace
<1> SUFFICES ASSUME Typed, NEW e \in Entities, NEW l, NEW w, OnlyHere(e, l, w)
             PROVE  Cardinality(Places(e)) = 1
  BY DEF Placed, OnePlace
<1>1. \A k, v : <<k, v>> \in Places(e) <=> Here(e, k, v)
  BY DEF Places, Here, GlobalLists, WorkerLists, None, Workers
<1>2. \A p \in Places(e) : \E k, v : p = <<k, v>>
  BY DEF Places
<1>3. Places(e) = {<<l, w>>}
  BY <1>1, <1>2 DEF OnlyHere
<1>4. QED BY <1>3, FS_Singleton

\* Main stages, collects and distributes while no worker runs and the simulation goes
\* on; what it collected is deleted before it stages again.
Phases ==
  /\ \A w \in Workers : at[w] # "wait" => tick < EndTick
  /\ main \in {"stage", "distribute"} => tick < EndTick /\ \A w \in Workers : at[w] = "wait"
  /\ main \in {"wait", "stage"} => removedEntities = {}

\* The controller counts at most one update per tick.
Counted ==
  /\ \A e \in Entities : lastUpdate[e] <= tick
  /\ nextTimeTickToStage <= tick + (IF lastUpdate[Controller] = tick THEN 1 ELSE 0)

\* The redundant records: who is to be removed, who was staged, whose worker is whose.
Recorded ==
  /\ \A w \in Workers : toBeRemoved[w] \subseteq managedEntities[w]
  /\ \A e \in Entities : e \in all_agents <=>
       \E w \in Workers : e \in toBeAdded[w] \cup managedEntities[w] \cup entToBeRemoved[w]
  /\ \A e \in Entities, w \in Workers : currWorker[e] = w <=> e \in managedEntities[w]

\* Messages are for agents that are not deleted, nor about to be; once distributed, for
\* agents of the worker, which reads them before it updates.
Addressed ==
  \A w \in Workers :
    /\ output[w] \cap deleted = {}
    /\ main # "distribute" => output[w] \cap removedEntities = {}
    /\ input[w] \subseteq managedEntities[w]
    /\ at[w] = "update" => input[w] = {}

IInv == Typed /\ Placed /\ Phases /\ Counted /\ Recorded /\ Addressed

LEMMA Invariants == IInv => Migrations /\ NoDanglingMail
<1> SUFFICES ASSUME IInv PROVE Migrations /\ NoDanglingMail
  OBVIOUS
<1>1. ASSUME NEW e \in Entities, NEW k, NEW v, NEW l, NEW w, Here(e, k, v), Here(e, l, w)
      PROVE  k = l /\ v = w
  BY <1>1 DEF IInv, Placed, OnlyHere
<1>2. ASSUME NEW e \in Entities, NEW w \in Workers, e \in toBeAdded[w]
      PROVE  currWorker[e] = None
  <2>1. Here(e, "added", w) BY <1>2 DEF Here
  <2>2. ASSUME NEW v \in Workers PROVE currWorker[e] # v
    <3>1. e \in managedEntities[v] => Here(e, "managed", v) BY DEF Here
    <3>2. QED BY <1>1, <2>1, <3>1 DEF IInv, Recorded
  <2>3. QED BY <2>2 DEF IInv, Typed
<1>3. ASSUME NEW e \in removedEntities \cup deleted
      PROVE  currWorker[e] = None
  <2>0. e \in Entities BY DEF IInv, Typed
  <2>1. Here(e, "collected", None) \/ Here(e, "deleted", None) BY <1>3 DEF Here
  <2>2. ASSUME NEW v \in Workers PROVE currWorker[e] # v
    <3>1. e \in managedEntities[v] => Here(e, "managed", v) BY DEF Here
    <3>2. QED BY <1>1, <2>0, <2>1, <3>1 DEF IInv, Recorded
  <2>3. QED BY <2>0, <2>2 DEF IInv, Typed
<1>4. Migrations
  BY <1>2, <1>3 DEF IInv, Recorded, Migrations
<1>5. \A w \in Workers : \A e \in input[w] : e \notin deleted /\ currWorker[e] = w
  <2> TAKE w \in Workers
  <2> TAKE e \in input[w]
  <2>1. e \in Entities /\ e \in managedEntities[w] BY DEF IInv, Typed, Addressed
  <2>2. currWorker[e] = w BY <2>1 DEF IInv, Recorded
  <2>3. w # None BY DEF Workers, None
  <2>4. QED BY <1>3, <2>2, <2>3
<1>6. QED BY <1>4, <1>5 DEF IInv, Addressed, NoDanglingMail

LEMMA NextWorker == ASSUME NEW n \in Nat PROVE n % NumWorkers \in Workers
<1>1. NumWorkers \in Nat \ {0} BY LifecycleAssumption
<1>2. QED BY <1>1 DEF Workers

LEMMA InitInv == Init => IInv
<1> SUFFICES ASSUME Init PROVE IInv
  OBVIOUS
<1>1. Workers # {} /\ 0 \in Workers
  BY LifecycleAssumption DEF Workers
<1>2. Cardinality(Initial) \in Nat
  BY LifecycleAssumption, FS_Subset, FS_CardinalityType
<1>3. nextWorkerID \in Workers
  BY <1>2, NextWorker DEF Init
<1>4. Typed
  BY <1>3, LifecycleAssumption DEF Init, Typed, Begin, Empty, None
<1>5. Phases /\ Counted /\ Addressed
  BY <1>4, LifecycleAssumption DEF Init, Typed, Phases, Counted, Addressed, Begin, Empty
<1>6. Recorded
  <2>1. \A w \in Workers : toBeRemoved[w] \subseteq managedEntities[w]
    BY DEF Init, Empty
  <2>2. \A e \in Entities : e \in all_agents <=>
          \E w \in Workers : e \in toBeAdded[w] \cup managedEntities[w] \cup entToBeRemoved[w]
    <3>1. \A w \in Workers : managedEntities[w] = {} /\ entToBeRemoved[w] = {}
      BY DEF Init, Empty
    <3>2. \A e \in Initial : \E w \in Workers : e \in toBeAdded[w]
      BY DEF Init
    <3>3. all_agents = Initial /\ \A w \in Workers : toBeAdded[w] \subseteq Initial
      BY DEF Init
    <3>4. QED BY <3>1, <3>2, <3>3
  <2>3. \A e \in Entities, w \in Workers : currWorker[e] = w <=> e \in managedEntities[w]
    BY DEF Init, Empty, None, Workers
  <2>4. QED BY <2>1, <2>2, <2>3 DEF Recorded
<1>7. Placed
  <2> SUFFICES ASSUME NEW e \in Entities PROVE \E l, w : OnlyHere(e, l, w)
    BY DEF Placed
  <2>1. CASE e \in Initial
    <3>1. PICK w \in Workers : \A v \in Workers : e \in toBeAdded[v] <=> v = w
      BY <2>1 DEF Init
    <3>2. OnlyHere(e, "added", w)
      BY <2>1, <3>1, LifecycleAssumption DEF Init, OnlyHere, Here, Empty
    <3>3. QED BY <3>2
  <2>2. ASSUME e \notin Initial PROVE \A w \in Workers : e \notin toBeAdded[w]
    BY <2>2 DEF Init
  <2>3. CASE e \in Children
    <3>1. OnlyHere(e, "children", None)
      BY <2>2, <2>3, LifecycleAssumption DEF Init, OnlyHere, Here, Empty
    <3>2. QED BY <3>1
  <2>4. CASE e \notin Initial \cup Children
    <3>1. OnlyHere(e, "pending", None)
      BY <2>2, <2>4, LifecycleAssumption DEF Init, OnlyHere, Here, Empty
    <3>2. QED BY <3>1
  <2>5. QED BY <2>1, <2>3, <2>4
<1>8. QED BY <1>4, <1>5, <1>6, <1>7 DEF IInv

-----------------------------------------------------------------------------
\* A step leaves an agent in its list, or takes it from there to another one.
LEMMA Stays ==
  ASSUME Placed, NEW e \in Entities, \A k, v : Here(e, k, v)' <=> Here(e, k, v)
  PROVE  (\E l, w : OnlyHere(e, l, w))'
BY DEF Placed, OnlyHere

\* An agent leaves one place for another.
Moved(e, l, w, m, u) ==
  /\ Here(e, l, w)
  /\ \A k, v : Here(e, k, v)' <=> \/ k = m /\ v = u
                                  \/ Here(e, k, v) /\ ~ (k = l /\ v = w)

LEMMA Moves ==
  ASSUME Placed, NEW e \in Entities, NEW l, NEW w, NEW m, NEW u, Moved(e, l, w, m, u)
  PROVE  (\E k, v : OnlyHere(e, k, v))'
<1>1. OnlyHere(e, l, w) BY DEF Placed, OnlyHere, Moved
<1>2. \A k, v : Here(e, k, v) => k = l /\ v = w BY <1>1 DEF OnlyHere
<1>3. \A k, v : Here(e, k, v)' <=> k = m /\ v = u
  <2> SUFFICES ASSUME NEW k, NEW v PROVE Here(e, k, v)' <=> k = m /\ v = u
    OBVIOUS
  <2>1. Here(e, k, v)' <=> (k = m /\ v = u) \/ (Here(e, k, v) /\ ~ (k = l /\ v = w)) BY DEF Moved
  <2>2. QED BY ONLY <1>2, <2>1
<1>4. OnlyHere(e, m, u)' BY ONLY <1>3 DEF OnlyHere
<1>5. QED BY <1>4

LEMMA PostMessageInv ==
  ASSUME IInv, NEW w \in Workers, NEW e \in Entities, PostMessage(w, e) PROVE IInv'
<1>1. Typed' BY DEF IInv, Typed, PostMessage, queues, shared, lists
<1>2. Placed'
  <2>1. \A f \in Entities : \A k, v : Here(f, k, v)' <=> Here(f, k, v)
    BY DEF PostMessage, Here, queues, shared, lists
  <2>2. QED BY <2>1, Stays DEF IInv, Placed
<1>3. Phases' /\ Counted' /\ Recorded'
  BY DEF IInv, Phases, Counted, Recorded, PostMessage, queues, shared, lists
<1>4. Addressed' BY DEF IInv, Typed, Addressed, PostMessage, queues, shared, lists
<1>5. QED BY <1>1, <1>2, <1>3, <1>4 DEF IInv

LEMMA ThreadDispatchMessagesInv ==
  ASSUME IInv, NEW w \in Workers, NEW e \in Entities, ThreadDispatchMessages(w, e) PROVE IInv'
<1>1. Typed' BY DEF IInv, Typed, ThreadDispatchMessages, queues, shared, lists
<1>2. Placed'
  <2>1. \A f \in Entities : \A k, v : Here(f, k, v)' <=> Here(f, k, v)
    BY DEF ThreadDispatchMessages, Here, queues, shared, lists
  <2>2. QED BY <2>1, Stays DEF IInv, Placed
<1>3. Phases' /\ Counted' /\ Recorded'
  BY DEF IInv, Phases, Counted, Recorded, ThreadDispatchMessages, queues, shared, lists
<1>4. Addressed' BY DEF IInv, Typed, Addressed, ThreadDispatchMessages, queues, shared, lists
<1>5. QED BY <1>1, <1>2, <1>3, <1>4 DEF IInv

LEMMA AddPendingEntitiesInv ==
  ASSUME IInv, NEW w \in Workers, AddPendingEntities(w) PROVE IInv'
<1>1. Typed' BY DEF IInv, Typed, AddPendingEntities, queues, shared, mail
<1>2. Placed'
  <2> SUFFICES ASSUME NEW e \in Entities PROVE (\E k, v : OnlyHere(e, k, v))'
    BY DEF Placed
  <2>1. CASE e \in toBeAdded[w]
    <3>1. Here(e, "added", w) BY <2>1 DEF Here
    <3>2. \A k, v : Here(e, k, v)' <=> \/ k = "managed" /\ v = w
                                       \/ Here(e, k, v) /\ ~ (k = "added" /\ v = w)
      BY <2>1 DEF IInv, Typed, AddPendingEntities, Here, queues, shared, mail, None, Workers
    <3>3. Moved(e, "added", w, "managed", w) BY ONLY <3>1, <3>2 DEF Moved
    <3>4. QED BY <3>3, Moves DEF IInv
  <2>2. CASE e \notin toBeAdded[w]
    <3>1. \A k, v : Here(e, k, v)' <=> Here(e, k, v)
      BY <2>2 DEF IInv, Typed, AddPendingEntities, Here, queues, shared, mail
    <3>2. QED BY <3>1, Stays DEF IInv
  <2>3. QED BY <2>1, <2>2
<1>3. Phases' /\ Counted'
  BY DEF IInv, Typed, Phases, Counted, AddPendingEntities, queues, shared, mail
<1>4. Recorded'
  <2>1. (\A v \in Workers : toBeRemoved[v] \subseteq managedEntities[v])'
    BY DEF IInv, Typed, Recorded, AddPendingEntities
  <2>2. (\A e \in Entities : e \in all_agents <=>
          \E v \in Workers : e \in toBeAdded[v] \cup managedEntities[v] \cup entToBeRemoved[v])'
    BY DEF IInv, Typed, Recorded, AddPendingEntities, shared
  <2>3. ASSUME NEW e \in Entities, NEW v \in Workers
        PROVE  (currWorker[e] = v <=> e \in managedEntities[v])'
    <3>1. e \in toBeAdded[w] => e \notin managedEntities[v]
      <4>1. e \in toBeAdded[w] => Here(e, "added", w) BY DEF Here
      <4>2. e \in managedEntities[v] => Here(e, "managed", v) BY DEF Here
      <4>3. QED BY <4>1, <4>2 DEF IInv, Placed, OnlyHere
    <3>2. QED BY <3>1 DEF IInv, Typed, Recorded, AddPendingEntities
  <2>4. QED BY <2>1, <2>2, <2>3 DEF Recorded
<1>5. Addressed' BY DEF IInv, Typed, Addressed, AddPendingEntities, queues, shared, mail
<1>6. QED BY <1>1, <1>2, <1>3, <1>4, <1>5 DEF IInv

LEMMA UpdateEntityInv ==
  ASSUME IInv, NEW w \in Workers, NEW e \in Entities, UpdateEntity(w, e) PROVE IInv'
<1>0. tick < EndTick BY DEF IInv, Typed, Phases, UpdateEntity
<1>1. /\ pendingChildren' \subseteq pendingChildren
      /\ toBeBred' = [toBeBred EXCEPT ![w] = @ \cup (pendingChildren \ pendingChildren')]
      /\ \/ nextTimeTickToStage' = nextTimeTickToStage
         \/ e = Controller /\ nextTimeTickToStage' = nextTimeTickToStage + 1
  BY DEF IInv, Typed, UpdateEntity, FrameTick, Hatching
<1>2. Counted'
  BY <1>0, <1>1, LifecycleAssumption DEF IInv, Typed, Counted, UpdateEntity
<1>3. Typed'
  <2>1. nextTimeTickToStage' \in 0 .. EndTick
    BY <1>0, <1>1, LifecycleAssumption DEF IInv, Typed, Counted, UpdateEntity
  <2>2. toBeRemoved' \in [Workers -> SUBSET Entities] /\ failed' \in SUBSET Entities
    BY DEF IInv, Typed, UpdateEntity
  <2>3. lastUpdate' \in [Entities -> -1 .. EndTick - 1]
    BY <1>0, LifecycleAssumption DEF IInv, Typed, UpdateEntity
  <2>4. QED BY <1>1, <2>1, <2>2, <2>3 DEF IInv, Typed, UpdateEntity, shared, mail
<1>4. Placed'
  <2> SUFFICES ASSUME NEW f \in Entities PROVE (\E k, v : OnlyHere(f, k, v))'
    BY DEF Placed
  <2>1. CASE f \in pendingChildren \ pendingChildren'
    <3>1. Here(f, "children", None) BY <2>1 DEF Here
    <3>2. \A k, v : Here(f, k, v)' <=> \/ k = "bred" /\ v = w
                                       \/ Here(f, k, v) /\ ~ (k = "children" /\ v = None)
      <4>1. /\ f \in pendingChildren /\ f \notin pendingChildren'
            /\ \A v \in Workers : f \in toBeBred'[v] <=> v = w \/ f \in toBeBred[v]
        BY <1>1, <2>1 DEF IInv, Typed
      <4>2. UNCHANGED <<pending_source, removedEntities, deleted, entToBeBred, toBeAdded,
                        managedEntities, entToBeRemoved>>
        BY DEF UpdateEntity, shared
      <4>3. None \notin Workers BY DEF None, Workers
      <4>4. QED BY ONLY <4>1, <4>2, <4>3, w \in Workers DEF Here
    <3>3. Moved(f, "children", None, "bred", w) BY ONLY <3>1, <3>2 DEF Moved
    <3>4. QED BY <3>3, Moves DEF IInv
  <2>2. CASE f \notin pendingChildren \ pendingChildren'
    <3>1. \A k, v : Here(f, k, v)' <=> Here(f, k, v)
      BY <1>1, <2>2 DEF IInv, Typed, UpdateEntity, Here, shared
    <3>2. QED BY <3>1, Stays DEF IInv
  <2>3. QED BY <2>1, <2>2
<1>5. Phases' BY DEF IInv, Phases, UpdateEntity
<1>6. Recorded' BY DEF IInv, Typed, Recorded, UpdateEntity, shared
<1>7. Addressed' BY DEF IInv, Addressed, UpdateEntity, mail
<1>8. QED BY <1>2, <1>3, <1>4, <1>5, <1>6, <1>7 DEF IInv

LEMMA RemovePendingEntitiesInv ==
  ASSUME IInv, NEW w \in Workers, RemovePendingEntities(w) PROVE IInv'
<1>1. Typed' BY DEF IInv, Typed, RemovePendingEntities, queues, mail
<1>2. Placed'
  <2> SUFFICES ASSUME NEW e \in Entities PROVE (\E k, v : OnlyHere(e, k, v))'
    BY DEF Placed
  <2>0. ASSUME NEW k, NEW v, NEW l, NEW u, Here(e, k, v), Here(e, l, u) PROVE k = l /\ v = u
    BY <2>0 DEF IInv, Placed, OnlyHere
  <2>1. CASE e \in toBeRemoved[w]
    <3>1. Here(e, "managed", w) BY <2>1 DEF IInv, Recorded, Here
    <3>2. e \notin toBeBred[w]
      <4>1. e \in toBeBred[w] => Here(e, "bred", w) BY DEF Here
      <4>2. QED BY <2>0, <3>1, <4>1
    <3>3. \A k, v : Here(e, k, v)' <=> \/ k = "removed" /\ v = w
                                       \/ Here(e, k, v) /\ ~ (k = "managed" /\ v = w)
      BY <2>1, <3>2 DEF IInv, Typed, RemovePendingEntities, Here, queues, mail, None, Workers
    <3>4. Moved(e, "managed", w, "removed", w) BY ONLY <3>1, <3>3 DEF Moved
    <3>5. QED BY <3>4, Moves DEF IInv
  <2>2. CASE e \in toBeBred[w] /\ e \notin toBeRemoved[w]
    <3>1. Here(e, "bred", w) BY <2>2 DEF Here
    <3>2. \A k, v : Here(e, k, v)' <=> \/ k = "scheduled" /\ v = w
                                       \/ Here(e, k, v) /\ ~ (k = "bred" /\ v = w)
      BY <2>2 DEF IInv, Typed, RemovePendingEntities, Here, queues, mail, None, Workers
    <3>3. Moved(e, "bred", w, "scheduled", w) BY ONLY <3>1, <3>2 DEF Moved
    <3>4. QED BY <3>3, Moves DEF IInv
  <2>3. CASE e \notin toBeBred[w] \cup toBeRemoved[w]
    <3>1. \A k, v : Here(e, k, v)' <=> Here(e, k, v)
      BY <2>3 DEF IInv, Typed, RemovePendingEntities, Here, queues, mail
    <3>2. QED BY <3>1, Stays DEF IInv
  <2>4. QED BY <2>1, <2>2, <2>3
<1>3. Phases' /\ Counted'
  BY DEF IInv, Typed, Phases, Counted, RemovePendingEntities, queues, mail
<1>4. Recorded'
  <2>1. (\A v \in Workers : toBeRemoved[v] \subseteq managedEntities[v])'
    BY DEF IInv, Typed, Recorded, RemovePendingEntities
  <2>2. (\A e \in Entities : e \in all_agents <=>
          \E v \in Workers : e \in toBeAdded[v] \cup managedEntities[v] \cup entToBeRemoved[v])'
    BY DEF IInv, Typed, Recorded, RemovePendingEntities
  <2>3. (\A e \in Entities, v \in Workers : currWorker[e] = v <=> e \in managedEntities[v])'
    BY DEF IInv, Typed, Recorded, RemovePendingEntities, None, Workers
  <2>4. QED BY <2>1, <2>2, <2>3 DEF Recorded
<1>5. Addressed' BY DEF IInv, Typed, Addressed, RemovePendingEntities, queues, mail
<1>6. QED BY <1>1, <1>2, <1>3, <1>4, <1>5 DEF IInv

LEMMA StageBredInv ==
  ASSUME IInv, StageBred PROVE IInv'
<1>1. /\ entToBeBred' \in {entToBeBred, Empty}
      /\ \A e \in Entities :
           /\ e \in pending_source' <=> \/ e \in pending_source
                                        \/ \E w \in Workers : e \in entToBeBred[w] \ entToBeBred'[w]
  <2>1. CASE GroupTick(tick)
    BY <2>1 DEF StageBred, Empty
  <2>2. CASE ~ GroupTick(tick)
    BY <2>2 DEF StageBred
  <2>3. QED BY <2>1, <2>2
<1>2. Typed' BY DEF IInv, Typed, StageBred, lists, mail, Empty
<1>3. Placed'
  <2> SUFFICES ASSUME NEW e \in Entities PROVE (\E k, v : OnlyHere(e, k, v))'
    BY DEF Placed
  <2>1. ASSUME NEW w \in Workers, e \in entToBeBred[w] \ entToBeBred'[w]
        PROVE  (\E k, v : OnlyHere(e, k, v))'
    <3>1. Here(e, "scheduled", w) BY <2>1 DEF Here
    <3>2. \A v \in Workers : e \in entToBeBred[v] => v = w
      <4>1. \A v \in Workers : e \in entToBeBred[v] => Here(e, "scheduled", v) BY DEF Here
      <4>2. QED BY <3>1, <4>1 DEF IInv, Placed, OnlyHere
    <3>3. entToBeBred' = Empty BY <1>1, <2>1
    <3>4. \A k, v : Here(e, k, v)' <=> \/ k = "pending" /\ v = None
                                       \/ Here(e, k, v) /\ ~ (k = "scheduled" /\ v = w)
      BY <1>1, <2>1, <3>2, <3>3 DEF StageBred, Here, lists, mail, Empty, None, Workers
    <3>5. Moved(e, "scheduled", w, "pending", None) BY ONLY <3>1, <3>4 DEF Moved
    <3>6. QED BY <3>5, Moves DEF IInv
  <2>2. CASE \A w \in Workers : e \notin entToBeBred[w] \ entToBeBred'[w]
    <3>1. e \in pending_source' <=> e \in pending_source BY <1>1, <2>2
    <3>2. \A w \in Workers : e \in entToBeBred'[w] <=> e \in entToBeBred[w]
      BY <1>1, <2>2 DEF Empty
    <3>3. \A k, v : Here(e, k, v)' <=> Here(e, k, v)
      BY <3>1, <3>2 DEF StageBred, Here, lists, mail
    <3>4. QED BY <3>3, Stays DEF IInv
  <2>3. QED BY <2>1, <2>2
<1>4. Phases' /\ Counted' /\ Recorded' /\ Addressed'
  BY DEF IInv, Phases, Counted, Recorded, Addressed, StageBred, lists, mail
<1>5. QED BY <1>2, <1>3, <1>4 DEF IInv

LEMMA StageEntityInv ==
  ASSUME IInv, NEW e \in Entities, NEW w \in Workers, StageEntity(e, w) PROVE IInv'
<1>0. Here(e, "pending", None)
  BY DEF StageEntity, Stageable, Here
<1>1. e \notin all_agents
  <2>1. \A v \in Workers : e \notin toBeAdded[v] \cup managedEntities[v] \cup entToBeRemoved[v]
    <3> TAKE v \in Workers
    <3>1. /\ e \in toBeAdded[v] => Here(e, "added", v)
          /\ e \in managedEntities[v] => Here(e, "managed", v)
          /\ e \in entToBeRemoved[v] => Here(e, "removed", v)
      BY DEF Here
    <3>2. QED BY <1>0, <3>1 DEF IInv, Placed, OnlyHere
  <2>2. QED BY <2>1 DEF IInv, Recorded
<1>2. /\ pending_source' = pending_source \ {e}
      /\ all_agents' = all_agents \cup {e}
      /\ toBeAdded' = [toBeAdded EXCEPT ![w] = @ \cup {e}]
      /\ nextWorkerID' = (nextWorkerID + 1) % NumWorkers
  BY <1>1 DEF StageEntity
<1>3. nextWorkerID' \in Workers
  <2>1. nextWorkerID + 1 \in Nat BY DEF IInv, Typed, Workers
  <2>2. QED BY <1>2, <2>1, NextWorker
<1>4. Typed' BY <1>2, <1>3 DEF IInv, Typed, StageEntity, shared, mail
<1>5. Placed'
  <2> SUFFICES ASSUME NEW f \in Entities PROVE (\E k, v : OnlyHere(f, k, v))'
    BY DEF Placed
  <2>1. CASE f = e
    <3>1. \A k, v : Here(f, k, v)' <=> \/ k = "added" /\ v = w
                                       \/ Here(f, k, v) /\ ~ (k = "pending" /\ v = None)
      BY <1>2, <2>1 DEF IInv, Typed, StageEntity, Here, shared, mail, None, Workers
    <3>2. Here(f, "pending", None) BY <1>0, <2>1
    <3>3. Moved(f, "pending", None, "added", w) BY ONLY <3>1, <3>2 DEF Moved
    <3>4. QED BY <3>3, Moves DEF IInv
  <2>2. CASE f # e
    <3>1. \A k, v : Here(f, k, v)' <=> Here(f, k, v)
      BY <1>2, <2>2 DEF IInv, Typed, StageEntity, Here, shared, mail
    <3>2. QED BY <3>1, Stays DEF IInv
  <2>3. QED BY <2>1, <2>2
<1>6. Phases' /\ Counted' /\ Addressed'
  BY DEF IInv, Phases, Counted, Addressed, StageEntity, shared, mail
<1>7. Recorded'
  BY <1>2 DEF IInv, Typed, Recorded, StageEntity, shared
<1>8. QED BY <1>4, <1>5, <1>6, <1>7 DEF IInv

LEMMA CollectRemovedEntitiesInv ==
  ASSUME IInv, CollectRemovedEntities PROVE IInv'
<1>0. removedEntities = {} BY DEF IInv, Phases, CollectRemovedEntities
<1>1. Typed' BY DEF IInv, Typed, CollectRemovedEntities, queues, lists, mail, Empty
<1>2. Placed'
  <2> SUFFICES ASSUME NEW e \in Entities PROVE (\E k, v : OnlyHere(e, k, v))'
    BY DEF Placed
  <2>1. ASSUME NEW w \in Workers, e \in entToBeRemoved[w]
        PROVE  (\E k, v : OnlyHere(e, k, v))'
    <3>1. Here(e, "removed", w) BY <2>1 DEF Here
    <3>2. \A v \in Workers : e \in entToBeRemoved[v] => v = w
      <4>1. \A v \in Workers : e \in entToBeRemoved[v] => Here(e, "removed", v) BY DEF Here
      <4>2. QED BY <3>1, <4>1 DEF IInv, Placed, OnlyHere
    <3>3. e \in removedEntities' BY <2>1 DEF CollectRemovedEntities
    <3>4. \A k, v : Here(e, k, v)' <=> \/ k = "collected" /\ v = None
                                       \/ Here(e, k, v) /\ ~ (k = "removed" /\ v = w)
      <4>1. UNCHANGED <<pending_source, pendingChildren, deleted, toBeBred, entToBeBred,
                        toBeAdded, managedEntities>>
        BY DEF CollectRemovedEntities, queues, lists
      <4>2. \A v \in Workers : e \notin entToBeRemoved'[v] BY DEF CollectRemovedEntities, Empty
      <4>3. None \notin Workers BY DEF None, Workers
      <4>4. w \in Workers /\ \A v \in Workers : e \in entToBeRemoved[v] <=> v = w BY <2>1, <3>2
      <4>5. QED BY ONLY <3>3, <4>1, <4>2, <4>3, <4>4 DEF Here
    <3>5. Moved(e, "removed", w, "collected", None) BY ONLY <3>1, <3>4 DEF Moved
    <3>6. QED BY <3>5, Moves DEF IInv
  <2>2. CASE \A w \in Workers : e \notin entToBeRemoved[w]
    <3>1. \A k, v : Here(e, k, v)' <=> Here(e, k, v)
      BY <2>2 DEF CollectRemovedEntities, Here, queues, lists, mail, Empty
    <3>2. QED BY <3>1, Stays DEF IInv
  <2>3. QED BY <2>1, <2>2
<1>3. Phases' /\ Counted' BY DEF IInv, Phases, Counted, CollectRemovedEntities, queues
<1>4. Recorded'
  <2>1. (\A w \in Workers : toBeRemoved[w] \subseteq managedEntities[w])'
    BY DEF IInv, Recorded, CollectRemovedEntities, lists
  <2>2. (\A e \in Entities, w \in Workers : currWorker[e] = w <=> e \in managedEntities[w])'
    BY DEF IInv, Recorded, CollectRemovedEntities, lists
  <2>3. ASSUME NEW e \in Entities
        PROVE  e \in all_agents' <=>
          \E w \in Workers : e \in toBeAdded'[w] \cup managedEntities'[w] \cup entToBeRemoved'[w]
    <3>1. \A v, w \in Workers : e \in entToBeRemoved[v] => e \notin toBeAdded[w] \cup managedEntities[w]
      <4> TAKE v, w \in Workers
      <4>1. /\ e \in entToBeRemoved[v] => Here(e, "removed", v)
            /\ e \in toBeAdded[w] => Here(e, "added", w)
            /\ e \in managedEntities[w] => Here(e, "managed", w)
        BY DEF Here
      <4>2. QED BY <4>1 DEF IInv, Placed, OnlyHere
    <3>2. e \in all_agents' <=> e \in all_agents /\ \A v \in Workers : e \notin entToBeRemoved[v]
      BY DEF CollectRemovedEntities
    <3>3. QED BY <3>1, <3>2 DEF IInv, Recorded, CollectRemovedEntities, lists, Empty
  <2>4. QED BY <2>1, <2>2, <2>3 DEF Recorded
<1>5. Addressed' BY <1>0 DEF IInv, Addressed, CollectRemovedEntities, lists, mail
<1>6. QED BY <1>1, <1>2, <1>3, <1>4, <1>5 DEF IInv

LEMMA DistributeMessagesInv ==
  ASSUME IInv, DistributeMessages PROVE IInv'
<1>1. tick < EndTick BY DEF IInv, Phases, DistributeMessages
<1>2. tick' = tick + 1 /\ tick' \in 0 .. EndTick
  BY <1>1, LifecycleAssumption DEF IInv, Typed, DistributeMessages
<1>3. \A w \in Workers : at'[w] \in {"wait", "dispatch"} /\ (at'[w] # "wait" => tick' < EndTick)
  BY <1>2 DEF DistributeMessages, Begin
<1>4. Typed'
  <2>1. at' \in [Workers -> {"wait", "dispatch", "update"}]
    BY DEF DistributeMessages, Begin
  <2>2. output' \in [Workers -> SUBSET Entities] /\ input' \in [Workers -> SUBSET Entities]
    BY DEF IInv, Typed, DistributeMessages, Empty
  <2>3. QED BY <1>2, <2>1, <2>2 DEF IInv, Typed, DistributeMessages, queues, shared, lists
<1>5. Placed'
  <2>1. \A f \in Entities : \A k, v : Here(f, k, v)' <=> Here(f, k, v)
    BY DEF DistributeMessages, Here, queues, shared, lists
  <2>2. QED BY <2>1, Stays DEF IInv, Placed
<1>6. Phases' BY <1>3 DEF Phases, DistributeMessages
<1>7. Counted'
  BY <1>2, LifecycleAssumption DEF IInv, Typed, Counted, DistributeMessages, queues
<1>8. Recorded' BY DEF IInv, Recorded, DistributeMessages, shared, lists
<1>9. Addressed'
  <2> SUFFICES ASSUME NEW w \in Workers PROVE input'[w] \subseteq managedEntities[w]
    BY <1>3 DEF Addressed, DistributeMessages, lists, Empty
  <2>1. \A v \in Workers : \A e \in output[v] :
          e \in Entities /\ (currWorker[e] = w => e \in managedEntities[w])
    BY DEF IInv, Typed, Recorded
  <2>2. QED BY <2>1 DEF IInv, Addressed, DistributeMessages
<1>10. QED BY <1>4, <1>5, <1>6, <1>7, <1>8, <1>9 DEF IInv

LEMMA DeleteRemovedInv ==
  ASSUME IInv, DeleteRemoved PROVE IInv'
<1>1. Typed' BY DEF IInv, Typed, DeleteRemoved, queues, shared, lists, mail
<1>2. Placed'
  <2> SUFFICES ASSUME NEW e \in Entities PROVE (\E k, v : OnlyHere(e, k, v))'
    BY DEF Placed
  <2>1. CASE e \in removedEntities
    <3>1. Here(e, "collected", None) BY <2>1 DEF Here
    <3>2. \A k, v : Here(e, k, v)' <=> \/ k = "deleted" /\ v = None
                                       \/ Here(e, k, v) /\ ~ (k = "collected" /\ v = None)
      BY <2>1 DEF DeleteRemoved, Here, queues, shared, lists, mail, None, Workers
    <3>3. Moved(e, "collected", None, "deleted", None) BY ONLY <3>1, <3>2 DEF Moved
    <3>4. QED BY <3>3, Moves DEF IInv
  <2>2. CASE e \notin removedEntities
    <3>1. \A k, v : Here(e, k, v)' <=> Here(e, k, v)
      BY <2>2 DEF DeleteRemoved, Here, queues, shared, lists, mail
    <3>2. QED BY <3>1, Stays DEF IInv
  <2>3. QED BY <2>1, <2>2
<1>3. Phases' /\ Counted' /\ Recorded'
  BY DEF IInv, Phases, Counted, Recorded, DeleteRemoved, queues, shared, lists
<1>4. Addressed' BY DEF IInv, Addressed, DeleteRemoved, lists, mail
<1>5. QED BY <1>1, <1>2, <1>3, <1>4 DEF IInv

LEMMA StutteringInv ==
  ASSUME IInv, UNCHANGED vars PROVE IInv'
<1> USE DEF vars, queues, shared, lists, mail
<1>1. Typed' BY DEF IInv, Typed
<1>2. Placed'
  <2>1. \A f \in Entities : \A k, v : Here(f, k, v)' <=> Here(f, k, v) BY DEF Here
  <2>2. QED BY <2>1, Stays DEF IInv, Placed
<1>3. Phases' /\ Counted' BY DEF IInv, Phases, Counted
<1>4. Recorded' BY DEF IInv, Recorded
<1>5. Addressed' BY DEF IInv, Addressed
<1>6. QED BY <1>1, <1>2, <1>3, <1>4, <1>5 DEF IInv

LEMMA StepInv == IInv /\ [Next]_vars => IInv'
<1> SUFFICES ASSUME IInv, [Next]_vars PROVE IInv'
  OBVIOUS
<1>1. CASE UNCHANGED vars BY <1>1, StutteringInv
<1>2. CASE StageBred BY <1>2, StageBredInv
<1>3. CASE \E e \in Entities, w \in Workers : StageEntity(e, w) BY <1>3, StageEntityInv
<1>4. CASE CollectRemovedEntities BY <1>4, CollectRemovedEntitiesInv
<1>5. CASE DistributeMessages BY <1>5, DistributeMessagesInv
<1>6. CASE DeleteRemoved BY <1>6, DeleteRemovedInv
<1>7. ASSUME NEW w \in Workers, WorkerStep(w) PROVE IInv'
  BY <1>7, PostMessageInv, ThreadDispatchMessagesInv, UpdateEntityInv, AddPendingEntitiesInv,
     RemovePendingEntitiesInv DEF WorkerStep
<1>8. QED BY <1>1, <1>2, <1>3, <1>4, <1>5, <1>6, <1>7 DEF Next, MainStep, Over

LEMMA Inductive == Spec => []IInv
<1>1. Init => IInv BY InitInv
<1>2. IInv /\ [Next]_vars => IInv' BY StepInv
<1>3. QED BY <1>1, <1>2, PTL DEF Spec

\* The types of the variables.
THEOREM TypeCorrect == Spec => []TypeOK
<1>1. IInv => TypeOK BY TypedIsType DEF IInv
<1>2. QED BY <1>1, Inductive, PTL

\* Whatever the number of workers and agents, the granularity and the strategy:
\* an agent on its way from a queue through a worker to its deletion is always
\* in exactly one of the lists of main, the controller and the workers.
THEOREM OnePlaceAlways == Spec => []OnePlace
<1>1. IInv => OnePlace BY PlacedIsOne DEF IInv
<1>2. QED BY <1>1, Inductive, PTL

\* migrateIn, migrateOut and the destructor of an agent never find it with the
\* wrong worker: none of their three errors can be raised.
THEOREM MigrationsAlways == Spec => []Migrations
<1>1. IInv => Migrations BY Invariants
<1>2. QED BY <1>1, Inductive, PTL

\* No message that waits, sent or distributed, is for an agent main has deleted,
\* although main deletes while the workers run.
THEOREM NoDanglingMailAlways == Spec => []NoDanglingMail
<1>1. IInv => NoDanglingMail BY Invariants
<1>2. QED BY <1>1, Inductive, PTL

-----------------------------------------------------------------------------
(* Start times, in a group that ticks with every base tick. *)

LEMMA MSTime ==
  /\ MS(0) = 0
  /\ \A t \in Nat : MS(t) \in Nat /\ MS(t + 1) = MS(t) + BaseGranMS
  /\ BaseGranMS \in Nat \ {0}
<1>1. BaseGranMS \in Nat \ {0} BY LifecycleAssumption
<1>2. \A t \in Nat : t * BaseGranMS \in Nat BY <1>1
<1>3. \A t \in Nat : (t + 1) * BaseGranMS = t * BaseGranMS + BaseGranMS BY <1>1
<1>4. 0 * BaseGranMS = 0 BY <1>1
<1>5. QED BY <1>1, <1>2, <1>3, <1>4 DEF MS

LEMMA EveryTick == ASSUME Step = 1, NEW t \in Nat PROVE GroupTick(t)
<1>1. t % 1 = 0 OBVIOUS
<1>2. QED BY <1>1 DEF GroupTick

\* The tick by which whoever waits is not yet due.
Horizon == IF main = "distribute" THEN tick + 1 ELSE tick

\* Nobody who waits is due: neither in a queue nor among the births of the tick, which
\* are in the queue before main stages.
WaitingInTime ==
  /\ \A e \in pending_source : MS(Horizon) < StartTime[e]
  /\ \A e \in pendingChildren : MS(nextTimeTickToStage) < StartTime[e]
  /\ \A w \in Workers :
       /\ \A e \in toBeBred[w] \cup entToBeBred[w] : MS(tick) < StartTime[e]
       /\ at[w] # "update" => toBeBred[w] = {}
       /\ main \in {"stage", "distribute"} => entToBeBred[w] = {}

\* The controller counts one update per tick, because it is never removed.
ControllerCounts ==
  /\ nextTimeTickToStage = IF lastUpdate[Controller] = tick THEN tick + 1 ELSE tick
  /\ Controller \in all_agents
  /\ \A w \in Workers : Controller \notin toBeRemoved[w] \cup entToBeRemoved[w]

\* A worker gets an agent for the tick in which it is due, and updates it there.
AddedInTime ==
  \A w \in Workers : \A e \in toBeAdded[w] :
    IF main \in {"stage", "distribute"}
    THEN MS(tick) < StartTime[e] /\ StartTime[e] <= MS(tick + 1)
    ELSE /\ StartTime[e] <= MS(tick) /\ MS(tick) < StartTime[e] + BaseGranMS
         /\ at[w] = "dispatch" \/ tick = EndTick

ManagedInTime ==
  \A w \in Workers : \A e \in managedEntities[w] :
    /\ StartTime[e] <= MS(tick)
    /\ lastUpdate[e] = -1 => at[w] = "update" /\ MS(tick) < StartTime[e] + BaseGranMS
    /\ at[w] = "wait" /\ tick < EndTick => lastUpdate[e] = tick

InTime ==
  failed = {} /\ WaitingInTime /\ ControllerCounts /\ AddedInTime /\ ManagedInTime

LEMMA InTimeStarts == IInv /\ InTime => StartsInTime
<1> SUFFICES ASSUME IInv, InTime PROVE StartsInTime
  OBVIOUS
<1>1. tick \in Nat /\ nextTimeTickToStage \in {tick, tick + 1}
  BY LifecycleAssumption DEF IInv, Typed, InTime, ControllerCounts
<1>2. MS(tick) \in Nat /\ MS(tick) <= MS(nextTimeTickToStage) /\ MS(nextTimeTickToStage) \in Nat
  BY <1>1, MSTime
<1>3. \A e \in Entities : StartTime[e] \in Nat BY LifecycleAssumption
<1>4. \A e \in pendingChildren : MS(tick) < StartTime[e]
  BY <1>2, <1>3 DEF IInv, Typed, InTime, WaitingInTime
<1>5. (\E w \in Workers : at[w] = "update") => main # "distribute"
  BY DEF IInv, Phases
<1>6. QED BY <1>4, <1>5 DEF InTime, WaitingInTime, Horizon, StartsInTime

LEMMA InitInTime == ASSUME Step = 1, Init PROVE InTime
<1>1. \A t \in Nat : GroupTick(t) BY EveryTick
<1>2. \A e \in Entities : StartTime[e] \in Nat /\ (StartTime[e] = 0 <=> e \in Initial)
  BY LifecycleAssumption
<1>3. WaitingInTime
  BY <1>2, MSTime, LifecycleAssumption DEF Init, WaitingInTime, Horizon, Empty
<1>4. ControllerCounts
  BY LifecycleAssumption DEF Init, ControllerCounts, Empty
<1>5. AddedInTime
  <2> SUFFICES ASSUME NEW w \in Workers, NEW e \in toBeAdded[w]
               PROVE  StartTime[e] = 0 /\ (at[w] = "dispatch" \/ tick = EndTick)
    BY MSTime DEF Init, AddedInTime
  <2>1. e \in Initial BY DEF Init
  <2>2. QED BY <1>1, <1>2, <2>1, LifecycleAssumption DEF Init, Begin
<1>6. ManagedInTime BY DEF Init, ManagedInTime, Empty
<1>7. QED BY <1>3, <1>4, <1>5, <1>6 DEF Init, InTime

LEMMA StartsNat == \A e \in Entities : StartTime[e] \in Nat
BY LifecycleAssumption

LEMMA MailInTime ==
  ASSUME IInv, InTime, NEW w \in Workers, NEW e \in Entities,
         PostMessage(w, e) \/ ThreadDispatchMessages(w, e)
  PROVE  InTime'
BY DEF InTime, WaitingInTime, ControllerCounts, AddedInTime, ManagedInTime, Horizon, MS,
       PostMessage, ThreadDispatchMessages, queues, shared, lists

LEMMA AddPendingEntitiesInTime ==
  ASSUME IInv, InTime, NEW w \in Workers, AddPendingEntities(w) PROVE InTime'
<1>1. main \in {"wait", "delete"} /\ tick < EndTick /\ tick \in Nat /\ at[w] = "dispatch"
  BY LifecycleAssumption DEF IInv, Typed, Phases, AddPendingEntities
<1>2. at' = [at EXCEPT ![w] = "update"] /\ at \in [Workers -> {"wait", "dispatch", "update"}]
  BY DEF IInv, Typed, AddPendingEntities
<1>3. WaitingInTime'
  BY <1>2 DEF InTime, WaitingInTime, Horizon, MS, AddPendingEntities, queues, shared
<1>4. ControllerCounts'
  BY DEF InTime, ControllerCounts, AddPendingEntities, queues, shared
<1>5. AddedInTime'
  BY <1>1, <1>2 DEF IInv, Typed, InTime, AddedInTime, MS, AddPendingEntities
<1>6. ManagedInTime'
  <2> SUFFICES ASSUME NEW v \in Workers, NEW e \in managedEntities'[v]
               PROVE  /\ StartTime[e] <= MS(tick)
                      /\ lastUpdate[e] = -1 => at'[v] = "update" /\ MS(tick) < StartTime[e] + BaseGranMS
                      /\ at'[v] = "wait" /\ tick < EndTick => lastUpdate[e] = tick
    BY DEF ManagedInTime, MS, AddPendingEntities
  <2>1. CASE e \in managedEntities[v]
    BY <1>1, <1>2, <2>1 DEF InTime, ManagedInTime
  <2>2. CASE e \notin managedEntities[v]
    <3>1. v = w /\ e \in toBeAdded[w] BY <2>2 DEF IInv, Typed, AddPendingEntities
    <3>2. QED BY <1>1, <1>2, <3>1 DEF InTime, AddedInTime
  <2>3. QED BY <2>1, <2>2
<1>7. QED BY <1>3, <1>4, <1>5, <1>6 DEF InTime, AddPendingEntities

\* An agent is updated when it is due and not before, so that no update throws; the
\* controller breeds its children a tick before they start.
LEMMA UpdateEntityInTime ==
  ASSUME IInv, InTime, NEW w \in Workers, NEW e \in Entities, UpdateEntity(w, e) PROVE InTime'
<1>1. main \in {"wait", "delete"} /\ tick < EndTick /\ tick \in Nat /\ at[w] = "update"
  BY LifecycleAssumption DEF IInv, Typed, Phases, UpdateEntity
<1>2. MS(tick) \in Nat /\ MS(tick + 1) \in Nat /\ BaseGranMS \in Nat
  BY <1>1, MSTime
<1>3. ~ WrongTime(e)
  <2>1. StartTime[e] <= MS(tick) /\ (lastUpdate[e] = -1 => MS(tick) < StartTime[e] + BaseGranMS)
    BY DEF InTime, ManagedInTime, UpdateEntity
  <2>2. QED BY <1>2, <2>1, StartsNat DEF WrongTime
<1>4. /\ failed' = failed /\ FrameTick(w, e)
      /\ \/ toBeRemoved' = toBeRemoved
         \/ e \in Mortal /\ toBeRemoved' = [toBeRemoved EXCEPT ![w] = @ \cup {e}]
  BY <1>3 DEF UpdateEntity
<1>5. nextTimeTickToStage \in Nat
  BY LifecycleAssumption DEF IInv, Typed
<1>6. WaitingInTime'
  <2>1. CASE e = Controller
    <3>1. /\ nextTimeTickToStage = tick /\ nextTimeTickToStage' = tick + 1
          /\ pendingChildren' = pendingChildren \ Hatching
          /\ toBeBred' = [toBeBred EXCEPT ![w] = @ \cup Hatching]
      BY <1>4, <2>1 DEF InTime, ControllerCounts, UpdateEntity, FrameTick
    <3>2. \A c \in pendingChildren' : MS(tick + 1) < StartTime[c]
      BY <1>2, <3>1, StartsNat DEF IInv, Typed, Hatching
    <3>3. \A c \in Hatching : MS(tick) < StartTime[c]
      BY <3>1 DEF InTime, WaitingInTime, Hatching
    <3>4. QED
      BY <1>1, <3>1, <3>2, <3>3
      DEF IInv, Typed, InTime, WaitingInTime, Horizon, MS, UpdateEntity, shared
  <2>2. CASE e # Controller
    BY <1>4, <2>2 DEF InTime, WaitingInTime, Horizon, MS, FrameTick, UpdateEntity, shared
  <2>3. QED BY <2>1, <2>2
<1>7. ControllerCounts'
  <2>1. Controller \in Entities \ Mortal BY LifecycleAssumption
  <2>2. \A v \in Workers : Controller \notin toBeRemoved'[v] \cup entToBeRemoved'[v]
    BY <1>4, <2>1 DEF IInv, Typed, InTime, ControllerCounts, UpdateEntity, shared
  <2>3. nextTimeTickToStage' = IF lastUpdate'[Controller] = tick' THEN tick' + 1 ELSE tick'
    <3>1. CASE e = Controller
      BY <1>4, <2>1, <3>1 DEF IInv, Typed, InTime, ControllerCounts, UpdateEntity, FrameTick
    <3>2. CASE e # Controller
      BY <1>4, <2>1, <3>2 DEF IInv, Typed, InTime, ControllerCounts, UpdateEntity, FrameTick
    <3>3. QED BY <3>1, <3>2
  <2>4. QED BY <2>2, <2>3 DEF InTime, ControllerCounts, UpdateEntity
<1>8. AddedInTime' BY DEF InTime, AddedInTime, MS, UpdateEntity
<1>9. ManagedInTime'
  <2>1. \A f \in Entities : lastUpdate'[f] = IF f = e THEN tick ELSE lastUpdate[f]
    BY DEF IInv, Typed, UpdateEntity
  <2>2. tick # -1 BY <1>1
  <2>3. QED BY <2>1, <2>2 DEF IInv, Typed, InTime, ManagedInTime, MS, UpdateEntity
<1>10. QED BY <1>4, <1>6, <1>7, <1>8, <1>9 DEF InTime

LEMMA RemovePendingEntitiesInTime ==
  ASSUME IInv, InTime, NEW w \in Workers, RemovePendingEntities(w) PROVE InTime'
<1>1. main \in {"wait", "delete"} /\ tick < EndTick /\ tick \in Nat /\ at[w] = "update"
  BY LifecycleAssumption DEF IInv, Typed, Phases, RemovePendingEntities
<1>2. at' = [at EXCEPT ![w] = "wait"] /\ at \in [Workers -> {"wait", "dispatch", "update"}]
  BY DEF IInv, Typed, RemovePendingEntities
<1>3. WaitingInTime'
  <2>1. \A v \in Workers : \A e \in toBeBred'[v] \cup entToBeBred'[v] :
          e \in toBeBred[v] \cup entToBeBred[v]
    BY DEF IInv, Typed, RemovePendingEntities
  <2>2. \A v \in Workers : at'[v] # "update" => toBeBred'[v] = {}
    BY <1>2 DEF IInv, Typed, InTime, WaitingInTime, RemovePendingEntities
  <2>3. QED
    BY <1>1, <2>1, <2>2
    DEF InTime, WaitingInTime, Horizon, MS, RemovePendingEntities, queues
<1>4. ControllerCounts'
  BY DEF IInv, Typed, InTime, ControllerCounts, RemovePendingEntities, queues
<1>5. AddedInTime'
  BY <1>1, <1>2 DEF InTime, AddedInTime, MS, RemovePendingEntities
<1>6. ManagedInTime'
  <2>1. \A e \in managedEntities[w] : lastUpdate[e] = tick BY DEF RemovePendingEntities
  <2>2. tick # -1 BY <1>1
  <2>3. QED
    BY <1>2, <2>1, <2>2 DEF IInv, Typed, InTime, ManagedInTime, MS, RemovePendingEntities
<1>7. QED BY <1>3, <1>4, <1>5, <1>6 DEF InTime, RemovePendingEntities

LEMMA StageBredInTime ==
  ASSUME Step = 1, IInv, InTime, StageBred PROVE InTime'
<1>1. /\ main = "wait" /\ main' = "stage" /\ tick' = tick /\ tick \in Nat /\ tick < EndTick
      /\ \A w \in Workers : at[w] = "wait"
      /\ pending_source' = pending_source \cup UNION {entToBeBred[w] : w \in Workers}
      /\ entToBeBred' = Empty
  BY EveryTick, LifecycleAssumption DEF IInv, Typed, StageBred
<1>2. WaitingInTime'
  <2>1. \A e \in pending_source' : MS(tick) < StartTime[e]
    BY <1>1 DEF InTime, WaitingInTime, Horizon
  <2>2. \A w \in Workers : toBeBred[w] = {} /\ entToBeBred'[w] = {}
    BY <1>1 DEF InTime, WaitingInTime, Empty
  <2>3. QED BY <1>1, <2>1, <2>2 DEF InTime, WaitingInTime, Horizon, MS, StageBred, lists
<1>3. ControllerCounts' BY DEF InTime, ControllerCounts, StageBred, lists
<1>4. AddedInTime' BY <1>1 DEF InTime, AddedInTime, StageBred, lists
<1>5. ManagedInTime' BY <1>1 DEF InTime, ManagedInTime, MS, StageBred, lists
<1>6. QED BY <1>2, <1>3, <1>4, <1>5 DEF InTime, StageBred

LEMMA StageEntityInTime ==
  ASSUME Step = 1, IInv, InTime, NEW e \in Entities, NEW w \in Workers, StageEntity(e, w)
  PROVE  InTime'
<1>1. main = "stage" /\ main' = "stage" /\ tick' = tick /\ pending_source' = pending_source \ {e}
  BY DEF StageEntity
<1>2. MS(tick) < StartTime[e] /\ StartTime[e] <= MS(tick + 1)
  BY <1>1 DEF InTime, WaitingInTime, Horizon, StageEntity, Stageable
<1>3. \A v \in Workers : \A f \in toBeAdded'[v] : f = e \/ f \in toBeAdded[v]
  BY DEF IInv, Typed, StageEntity
<1>4. WaitingInTime'
  BY <1>1 DEF InTime, WaitingInTime, Horizon, MS, StageEntity, shared
<1>5. ControllerCounts' BY DEF InTime, ControllerCounts, StageEntity, shared
<1>6. AddedInTime' BY <1>1, <1>2, <1>3 DEF InTime, AddedInTime, MS
<1>7. ManagedInTime' BY <1>1 DEF InTime, ManagedInTime, MS, StageEntity
<1>8. QED BY <1>4, <1>5, <1>6, <1>7 DEF InTime, StageEntity

LEMMA CollectRemovedEntitiesInTime ==
  ASSUME Step = 1, IInv, InTime, CollectRemovedEntities PROVE InTime'
<1>1. main = "stage" /\ main' = "distribute" /\ tick' = tick /\ tick \in Nat
  BY LifecycleAssumption DEF IInv, Typed, CollectRemovedEntities
<1>2. \A e \in pending_source : MS(tick + 1) < StartTime[e]
  <2>1. \A e \in pending_source : ~ (StartTime[e] <= MS(tick + 1))
    BY DEF CollectRemovedEntities, Stageable
  <2>2. MS(tick + 1) \in Nat BY <1>1, MSTime
  <2>3. QED BY <2>1, <2>2, StartsNat DEF IInv, Typed
<1>3. WaitingInTime'
  BY <1>1, <1>2 DEF InTime, WaitingInTime, Horizon, MS, CollectRemovedEntities, queues, lists
<1>4. ControllerCounts'
  BY DEF InTime, ControllerCounts, CollectRemovedEntities, queues, lists, Empty
<1>5. AddedInTime' BY <1>1 DEF InTime, AddedInTime, MS, CollectRemovedEntities, lists
<1>6. ManagedInTime' BY <1>1 DEF InTime, ManagedInTime, MS, CollectRemovedEntities, lists
<1>7. QED BY <1>3, <1>4, <1>5, <1>6 DEF InTime, CollectRemovedEntities

\* Every worker has finished the tick that ends, and the controller with it.
LEMMA DistributeMessagesInTime ==
  ASSUME Step = 1, IInv, InTime, DistributeMessages PROVE InTime'
<1>1. /\ main = "distribute" /\ main' = "delete" /\ tick' = tick + 1 /\ tick \in Nat
      /\ tick < EndTick /\ \A w \in Workers : at[w] = "wait"
  BY LifecycleAssumption DEF IInv, Typed, Phases, DistributeMessages
<1>2. MS(tick) \in Nat /\ MS(tick') = MS(tick) + BaseGranMS /\ BaseGranMS \in Nat
  BY <1>1, MSTime
<1>3. \A w \in Workers : at'[w] = IF tick' < EndTick THEN "dispatch" ELSE "wait"
  <2>1. GroupTick(tick') BY <1>1, EveryTick
  <2>2. QED BY <1>1, <2>1 DEF DistributeMessages, Begin
<1>4. \A w \in Workers : toBeAdded[w] \subseteq Entities /\ managedEntities[w] \subseteq Entities
  BY DEF IInv, Typed
<1>5. lastUpdate[Controller] = tick
  <2>1. MS(tick) \in Nat /\ StartTime[Controller] = 0 /\ Controller \in Entities
    BY <1>2, LifecycleAssumption
  <2>2. PICK w \in Workers : Controller \in toBeAdded[w] \cup managedEntities[w] \cup entToBeRemoved[w]
    BY <2>1 DEF IInv, Recorded, InTime, ControllerCounts
  <2>3. Controller \notin toBeAdded[w] BY <1>1, <2>1 DEF InTime, AddedInTime
  <2>4. Controller \in managedEntities[w] BY <2>2, <2>3 DEF InTime, ControllerCounts
  <2>5. QED BY <1>1, <2>4 DEF InTime, ManagedInTime
<1>6. WaitingInTime'
  <2>1. \A e \in pending_source : MS(tick') < StartTime[e]
    BY <1>1 DEF InTime, WaitingInTime, Horizon
  <2>2. \A w \in Workers : toBeBred[w] = {} /\ entToBeBred[w] = {}
    BY <1>1 DEF InTime, WaitingInTime
  <2>3. QED
    BY <1>1, <2>1, <2>2
    DEF InTime, WaitingInTime, Horizon, MS, DistributeMessages, queues, shared, lists
<1>7. ControllerCounts'
  BY <1>1, <1>5 DEF InTime, ControllerCounts, DistributeMessages, queues, shared, lists
<1>8. AddedInTime'
  <2> SUFFICES ASSUME NEW w \in Workers, NEW e \in toBeAdded[w]
               PROVE  /\ StartTime[e] <= MS(tick') /\ MS(tick') < StartTime[e] + BaseGranMS
                      /\ at'[w] = "dispatch" \/ tick' = EndTick
    BY <1>1 DEF AddedInTime, MS, DistributeMessages, lists
  <2>1. MS(tick) < StartTime[e] /\ StartTime[e] <= MS(tick')
    BY <1>1 DEF InTime, AddedInTime
  <2>2. tick' < EndTick \/ tick' = EndTick
    BY <1>1, LifecycleAssumption
  <2>3. QED BY <1>2, <1>3, <1>4, <2>1, <2>2, StartsNat
<1>9. ManagedInTime'
  <2> SUFFICES ASSUME NEW w \in Workers, NEW e \in managedEntities[w]
               PROVE  /\ StartTime[e] <= MS(tick')
                      /\ lastUpdate[e] # -1
                      /\ at'[w] = "wait" => ~ tick' < EndTick
    BY DEF ManagedInTime, MS, DistributeMessages, lists
  <2>1. StartTime[e] <= MS(tick) /\ lastUpdate[e] = tick
    BY <1>1 DEF InTime, ManagedInTime
  <2>2. QED BY <1>1, <1>2, <1>3, <1>4, <2>1, StartsNat
<1>10. QED BY <1>6, <1>7, <1>8, <1>9 DEF InTime, DistributeMessages

LEMMA DeleteRemovedInTime ==
  ASSUME InTime, DeleteRemoved PROVE InTime'
BY DEF InTime, WaitingInTime, ControllerCounts, AddedInTime, ManagedInTime, Horizon, MS,
       DeleteRemoved, queues, shared, lists

LEMMA StutteringInTime ==
  ASSUME InTime, UNCHANGED vars PROVE InTime'
BY DEF InTime, WaitingInTime, ControllerCounts, AddedInTime, ManagedInTime, Horizon, MS,
       vars, queues, shared, lists

\* With a granularity of one base tick no agent is ever updated before its start
\* time, or a base tick or more after it, and nobody who is due waits in a queue
\* while the workers update: checkFrameTimes never throws.  (With a coarser
\* granularity it may: that is what NeverLate's run shows.)
THEOREM StartsInTimeAlways == ASSUME Step = 1 PROVE Spec => []StartsInTime
<1>1. Init => InTime BY InitInTime
<1>2. IInv /\ InTime /\ [Next]_vars => InTime'
  <2> SUFFICES ASSUME IInv, InTime, [Next]_vars PROVE InTime'
    OBVIOUS
  <2>1. CASE UNCHANGED vars BY <2>1, StutteringInTime
  <2>2. CASE StageBred BY <2>2, StageBredInTime
  <2>3. CASE \E e \in Entities, w \in Workers : StageEntity(e, w) BY <2>3, StageEntityInTime
  <2>4. CASE CollectRemovedEntities BY <2>4, CollectRemovedEntitiesInTime
  <2>5. CASE DistributeMessages BY <2>5, DistributeMessagesInTime
  <2>6. CASE DeleteRemoved BY <2>6, DeleteRemovedInTime
  <2>7. ASSUME NEW w \in Workers, WorkerStep(w) PROVE InTime'
    BY <2>7, MailInTime, UpdateEntityInTime, AddPendingEntitiesInTime,
       RemovePendingEntitiesInTime DEF WorkerStep
  <2>8. QED BY <2>1, <2>2, <2>3, <2>4, <2>5, <2>6, <2>7 DEF Next, MainStep, Over
<1>3. IInv /\ InTime => StartsInTime BY InTimeStarts
<1>4. QED BY <1>1, <1>2, <1>3, Inductive, PTL DEF Spec

-----------------------------------------------------------------------------
(* Start times, whatever the granularity of the group. *)

\* Whom a worker updates has reached its start time, and if it came from the queue of
\* the group, its first update is less than a tick of the group late.
StartsInGroupTick ==
  \A w \in Workers : at[w] = "update" =>
    \A e \in managedEntities[w] :
      /\ StartTime[e] <= MS(tick)
      /\ lastUpdate[e] = -1 /\ e \notin Children => MS(tick) < StartTime[e] + MS(Step)

\* The group's next tick: one from now on, or one after this tick.
NextTick(after) ==
  {u \in IF after THEN tick + 1 .. tick + Step ELSE tick .. tick + Step - 1 : GroupTick(u)}

\* The group acts in its own ticks, and a worker then takes over at once who was added.
OnTick ==
  /\ main = "stage" => GroupTick(tick)
  /\ \A w \in Workers :
       /\ at[w] # "wait" => GroupTick(tick)
       /\ main \in {"wait", "delete"} /\ GroupTick(tick) /\ toBeAdded[w] # {}
            => at[w] = "dispatch" \/ tick = EndTick

\* Only the controller's children are bred, and nobody else who waits in the queue of the
\* group is due by its next tick.
QueuedForTick ==
  /\ pendingChildren \subseteq Children
  /\ \A w \in Workers : toBeBred[w] \cup entToBeBred[w] \subseteq Children
  /\ \A e \in pending_source \ Children, u \in NextTick(main = "distribute") :
       MS(u) < StartTime[e]

\* A worker gets an agent for the group's tick in which it is due ...
AddedForTick ==
  \A w \in Workers : \A e \in toBeAdded[w], u \in NextTick(main \in {"stage", "distribute"}) :
    /\ StartTime[e] <= MS(u)
    /\ e \notin Children => MS(u) < StartTime[e] + MS(Step)

\* ... and updates it there.
ManagedForTick ==
  \A w \in Workers : \A e \in managedEntities[w] :
    /\ StartTime[e] <= MS(tick)
    /\ lastUpdate[e] = -1 =>
         /\ at[w] = "update"
         /\ e \notin Children => MS(tick) < StartTime[e] + MS(Step)

ForTick == OnTick /\ QueuedForTick /\ AddedForTick /\ ManagedForTick

\* Ticks of the group are Step apart.
LEMMA GroupTicks ==
  ASSUME NEW t \in Nat, NEW u \in Nat
  PROVE  /\ GroupTick(0)
         /\ GroupTick(t + Step) <=> GroupTick(t)
         /\ GroupTick(t) /\ GroupTick(u) /\ t < u => t + Step <= u
<1> DEFINE s == Step
           q == t \div s
           r == t % s
<1>1. s \in Nat /\ s \in Int /\ s > 0 BY LifecycleAssumption
<1>2. /\ t = s * q + r /\ q \in Nat /\ r \in Nat /\ r < s
      /\ u = s * (u \div s) + (u % s) /\ u \div s \in Nat
  BY ONLY <1>1, t \in Nat, u \in Nat
<1>3. 0 % s = 0 BY ONLY <1>1
<1>4. (t + s) % s = r
  <2> HIDE DEF s, q, r
  <2>1. s * (q + 1) = s * q + s /\ s * q \in Nat BY ONLY <1>1, <1>2
  <2>2. t + s = s * (q + 1) + r BY ONLY <1>1, <1>2, <2>1
  <2>3. \A n \in Nat, p \in Nat : n = s * p + r => n % s = r BY ONLY <1>1, <1>2
  <2>4. t + s \in Nat /\ q + 1 \in Nat BY ONLY <1>1, <1>2, t \in Nat
  <2>5. QED BY ONLY <2>2, <2>3, <2>4
<1>5. ASSUME r = 0, u % s = 0, t < u PROVE t + s <= u
  <2> DEFINE p == u \div s
  <2>1. t = s * q /\ u = s * p /\ p \in Nat BY ONLY <1>2, <1>5, <1>1
  <2> HIDE DEF s, q, p
  <2>2. q < p BY ONLY <1>1, <1>2, <1>5, <2>1
  <2>3. s * (q + 1) <= s * p BY ONLY <1>1, <1>2, <2>1, <2>2
  <2>4. s * (q + 1) = s * q + s BY ONLY <1>1, <1>2
  <2>5. QED BY ONLY <2>1, <2>3, <2>4
<1>6. QED BY <1>3, <1>4, <1>5 DEF GroupTick

LEMMA MSPlus ==
  ASSUME NEW t \in Nat, NEW u \in Nat
  PROVE  MS(t) \in Nat /\ MS(t + u) = MS(t) + MS(u) /\ (t <= u => MS(t) <= MS(u))
<1>1. BaseGranMS \in Nat BY LifecycleAssumption
<1>2. (t + u) * BaseGranMS = t * BaseGranMS + u * BaseGranMS BY ONLY <1>1
<1>3. t <= u => t * BaseGranMS <= u * BaseGranMS BY ONLY <1>1
<1>4. t * BaseGranMS \in Nat BY ONLY <1>1
<1>5. QED BY ONLY <1>2, <1>3, <1>4 DEF MS

\* In a tick of the group the next one is this one, and after it the one Step later.
LEMMA InGroupTick ==
  ASSUME tick \in Nat, GroupTick(tick), NEW after \in BOOLEAN, NEW u \in NextTick(after)
  PROVE  u = IF after THEN tick + Step ELSE tick
<1>1. Step \in Nat \ {0} BY LifecycleAssumption
<1>2. u \in Nat /\ GroupTick(u) /\ IF after THEN tick < u /\ u <= tick + Step
                                            ELSE tick <= u /\ u < tick + Step
  BY <1>1 DEF NextTick
<1>3. tick < u => tick + Step <= u BY <1>2, GroupTicks
<1>4. QED BY ONLY <1>1, <1>2, <1>3, tick \in Nat, after \in BOOLEAN

\* In another tick it makes no difference.
LEMMA BetweenTicks ==
  ASSUME tick \in Nat, ~ GroupTick(tick) PROVE NextTick(TRUE) = NextTick(FALSE)
<1>1. Step \in Nat \ {0} BY LifecycleAssumption
<1>2. ~ GroupTick(tick + Step) BY GroupTicks, <1>1
<1>3. QED BY <1>1, <1>2 DEF NextTick

\* The types that the steps below need.
LEMMA TickTyped == IInv => tick \in Nat /\ EndTick \in Nat /\ Step \in Nat \ {0}
BY LifecycleAssumption DEF IInv, Typed

LEMMA ForTickStarts == IInv /\ ForTick => StartsInGroupTick
BY DEF ForTick, ManagedForTick, StartsInGroupTick

LEMMA InitForTick == ASSUME Init PROVE ForTick
<1>1. /\ tick = 0 /\ GroupTick(tick) /\ main = "wait"
      /\ Step \in Nat \ {0} /\ EndTick \in Nat
  BY GroupTicks, LifecycleAssumption DEF Init
<1>2. \A e \in Entities : StartTime[e] \in Nat /\ (StartTime[e] = 0 <=> e \in Initial)
  BY LifecycleAssumption
<1>3. \A u \in NextTick(FALSE) : u = 0 BY <1>1, InGroupTick
<1>4. MS(0) = 0 /\ MS(Step) \in Nat /\ MS(Step) > 0
  <2>1. Step * BaseGranMS \in Nat /\ Step * BaseGranMS > 0 BY LifecycleAssumption
  <2>2. QED BY <2>1, MSTime DEF MS
<1>5. OnTick BY <1>1 DEF Init, OnTick, Begin
<1>6. (main = "distribute") = FALSE /\ (main \in {"stage", "distribute"}) = FALSE BY <1>1
<1>7. QueuedForTick
  <2>1. \A e \in pending_source, u \in NextTick(FALSE) : MS(u) < StartTime[e]
    <3>1. pending_source \subseteq Entities \ Initial BY DEF Init
    <3>2. \A e \in Entities \ Initial : 0 < StartTime[e] BY ONLY <1>2
    <3>3. QED BY ONLY <1>3, <1>4, <3>1, <3>2
  <2>2. pendingChildren = Children /\ \A w \in Workers : toBeBred[w] \cup entToBeBred[w] = {}
    BY DEF Init, Empty
  <2>3. QED BY ONLY <1>6, <2>1, <2>2 DEF QueuedForTick
<1>8. AddedForTick
  <2> SUFFICES ASSUME NEW w \in Workers, NEW e \in toBeAdded[w], NEW u \in NextTick(FALSE)
               PROVE  StartTime[e] <= MS(u) /\ MS(u) < StartTime[e] + MS(Step)
    BY <1>6 DEF AddedForTick
  <2>1. e \in Initial /\ Initial \subseteq Entities BY LifecycleAssumption DEF Init
  <2>2. StartTime[e] = 0 /\ u = 0 BY <1>2, <1>3, <2>1
  <2>3. QED BY <1>4, <2>2
<1>9. ManagedForTick BY DEF Init, ManagedForTick, Empty
<1>10. QED BY <1>5, <1>7, <1>8, <1>9 DEF ForTick

LEMMA MailForTick ==
  ASSUME ForTick, NEW w \in Workers, NEW e \in Entities,
         PostMessage(w, e) \/ ThreadDispatchMessages(w, e)
  PROVE  ForTick'
BY DEF ForTick, OnTick, QueuedForTick, AddedForTick, ManagedForTick, NextTick, MS, GroupTick,
       PostMessage, ThreadDispatchMessages, queues, shared, lists

LEMMA AddPendingEntitiesForTick ==
  ASSUME IInv, ForTick, NEW w \in Workers, AddPendingEntities(w) PROVE ForTick'
<1>1. /\ main \in {"wait", "delete"} /\ at[w] = "dispatch" /\ GroupTick(tick)
      /\ tick' = tick /\ main' = main
  BY DEF IInv, Typed, Phases, ForTick, OnTick, AddPendingEntities
<1>2. /\ at' = [at EXCEPT ![w] = "update"] /\ at \in [Workers -> {"wait", "dispatch", "update"}]
      /\ toBeAdded' = [toBeAdded EXCEPT ![w] = {}]
      /\ toBeAdded \in [Workers -> SUBSET Entities]
  BY DEF IInv, Typed, AddPendingEntities
<1>3. OnTick' BY <1>1, <1>2 DEF ForTick, OnTick, GroupTick
<1>4. QueuedForTick'
  BY <1>1 DEF ForTick, QueuedForTick, NextTick, MS, GroupTick, AddPendingEntities, queues, shared
<1>5. AddedForTick'
  BY <1>1, <1>2 DEF ForTick, AddedForTick, NextTick, MS, GroupTick
<1>6. ManagedForTick'
  <2> SUFFICES ASSUME NEW v \in Workers, NEW e \in managedEntities'[v]
               PROVE  /\ StartTime[e] <= MS(tick)
                      /\ lastUpdate[e] = -1 =>
                           /\ at'[v] = "update"
                           /\ e \notin Children => MS(tick) < StartTime[e] + MS(Step)
    BY <1>1 DEF ManagedForTick, MS, AddPendingEntities
  <2>1. CASE e \in managedEntities[v]
    BY <1>2, <2>1 DEF ForTick, ManagedForTick
  <2>2. CASE e \notin managedEntities[v]
    <3>1. v = w /\ e \in toBeAdded[w] BY <2>2 DEF IInv, Typed, AddPendingEntities
    <3>2. tick \in NextTick(FALSE) BY <1>1, TickTyped DEF NextTick
    <3>3. (main \in {"stage", "distribute"}) = FALSE BY <1>1
    <3>4. /\ StartTime[e] <= MS(tick)
          /\ e \notin Children => MS(tick) < StartTime[e] + MS(Step)
      BY <3>1, <3>2, <3>3 DEF ForTick, AddedForTick
    <3>5. QED BY <1>2, <3>1, <3>4
  <2>3. QED BY <2>1, <2>2
<1>7. QED BY <1>3, <1>4, <1>5, <1>6 DEF ForTick

LEMMA UpdateEntityForTick ==
  ASSUME IInv, ForTick, NEW w \in Workers, NEW e \in Entities, UpdateEntity(w, e) PROVE ForTick'
<1>1. tick' = tick /\ main' = main /\ at' = at /\ UNCHANGED <<pending_source, entToBeBred>>
  BY DEF UpdateEntity, shared
<1>2. /\ pendingChildren' \subseteq pendingChildren
      /\ \A v \in Workers : toBeBred'[v] \subseteq toBeBred[v] \cup pendingChildren
  BY DEF IInv, Typed, UpdateEntity, FrameTick, Hatching
<1>3. OnTick' BY <1>1 DEF ForTick, OnTick, GroupTick, UpdateEntity
<1>4. QueuedForTick'
  <2>1. /\ pendingChildren' \subseteq Children
        /\ \A v \in Workers : toBeBred'[v] \cup entToBeBred'[v] \subseteq Children
    BY <1>1, <1>2 DEF ForTick, QueuedForTick
  <2>2. QED BY <1>1, <2>1 DEF ForTick, QueuedForTick, NextTick, MS, GroupTick
<1>5. AddedForTick'
  BY <1>1 DEF ForTick, AddedForTick, NextTick, MS, GroupTick, UpdateEntity
<1>6. ManagedForTick'
  <2>1. \A f \in Entities : lastUpdate'[f] = IF f = e THEN tick ELSE lastUpdate[f]
    BY DEF IInv, Typed, UpdateEntity
  <2>2. tick # -1 BY TickTyped
  <2>3. \A v \in Workers : managedEntities[v] \subseteq Entities BY DEF IInv, Typed
  <2>4. managedEntities' = managedEntities BY DEF UpdateEntity
  <2>5. QED BY <1>1, <2>1, <2>2, <2>3, <2>4 DEF ForTick, ManagedForTick, MS
<1>7. QED BY <1>3, <1>4, <1>5, <1>6 DEF ForTick

LEMMA RemovePendingEntitiesForTick ==
  ASSUME IInv, ForTick, NEW w \in Workers, RemovePendingEntities(w) PROVE ForTick'
<1>1. tick' = tick /\ main' = main /\ at[w] = "update" /\ UNCHANGED <<queues, toBeAdded>>
  BY DEF RemovePendingEntities
<1>2. at' = [at EXCEPT ![w] = "wait"] /\ at \in [Workers -> {"wait", "dispatch", "update"}]
  BY DEF IInv, Typed, RemovePendingEntities
<1>3. OnTick' BY <1>1, <1>2 DEF ForTick, OnTick, GroupTick
<1>4. QueuedForTick'
  <2>1. \A v \in Workers : toBeBred'[v] \cup entToBeBred'[v] \subseteq toBeBred[v] \cup entToBeBred[v]
    BY DEF IInv, Typed, RemovePendingEntities
  <2>2. QED BY <1>1, <2>1 DEF ForTick, QueuedForTick, NextTick, MS, GroupTick, queues
<1>5. AddedForTick' BY <1>1 DEF ForTick, AddedForTick, NextTick, MS, GroupTick
<1>6. ManagedForTick'
  <2>1. \A e \in managedEntities[w] : lastUpdate[e] = tick BY DEF RemovePendingEntities
  <2>2. tick # -1 BY TickTyped
  <2>3. \A v \in Workers : managedEntities'[v] \subseteq managedEntities[v]
    BY DEF IInv, Typed, RemovePendingEntities
  <2>4. lastUpdate' = lastUpdate BY DEF RemovePendingEntities
  <2>5. QED BY <1>1, <1>2, <2>1, <2>2, <2>3, <2>4 DEF ForTick, ManagedForTick, MS
<1>7. QED BY <1>3, <1>4, <1>5, <1>6 DEF ForTick

LEMMA StageBredForTick ==
  ASSUME IInv, ForTick, StageBred PROVE ForTick'
<1>1. /\ main = "wait" /\ main' = IF GroupTick(tick) THEN "stage" ELSE "distribute"
      /\ tick' = tick /\ tick < EndTick /\ UNCHANGED <<at, lists, pendingChildren, lastUpdate>>
      /\ \A w \in Workers : at[w] = "wait"
  BY DEF StageBred
<1>2. /\ pending_source' \ Children \subseteq pending_source
      /\ \A w \in Workers : entToBeBred'[w] \subseteq entToBeBred[w]
  BY DEF ForTick, QueuedForTick, StageBred, Empty
<1>3. ~ GroupTick(tick) => NextTick(TRUE) = NextTick(FALSE) BY BetweenTicks, TickTyped
<1>4. tick # EndTick BY <1>1, TickTyped
<1>5. OnTick' BY <1>1 DEF ForTick, OnTick, GroupTick
<1>6. QueuedForTick'
  <2>1. \A e \in pending_source' \ Children, u \in NextTick(main' = "distribute") : MS(u) < StartTime[e]
    BY <1>1, <1>2, <1>3 DEF ForTick, QueuedForTick
  <2>2. QED
    BY <1>1, <1>2, <2>1 DEF ForTick, QueuedForTick, NextTick, MS, GroupTick, lists
<1>7. AddedForTick'
  <2>1. CASE GroupTick(tick)
    <3>1. \A w \in Workers : toBeAdded[w] = {} BY <1>1, <1>4, <2>1 DEF ForTick, OnTick
    <3>2. QED BY <1>1, <3>1 DEF AddedForTick, lists
  <2>2. CASE ~ GroupTick(tick)
    BY <1>1, <1>3, <2>2 DEF ForTick, AddedForTick, NextTick, MS, GroupTick, lists
  <2>3. QED BY <2>1, <2>2
<1>8. ManagedForTick' BY <1>1 DEF ForTick, ManagedForTick, MS, lists
<1>9. QED BY <1>5, <1>6, <1>7, <1>8 DEF ForTick

LEMMA StageEntityForTick ==
  ASSUME IInv, ForTick, NEW e \in Entities, NEW w \in Workers, StageEntity(e, w)
  PROVE  ForTick'
<1>1. /\ main = "stage" /\ main' = main /\ tick' = tick /\ GroupTick(tick)
      /\ pending_source' = pending_source \ {e}
      /\ UNCHANGED <<at, pendingChildren, shared, toBeBred, managedEntities, lastUpdate>>
  BY DEF ForTick, OnTick, StageEntity
<1>2. tick \in Nat /\ Step \in Nat BY TickTyped
<1>3. e \notin Children => MS(tick) < StartTime[e]
  <2>1. tick \in NextTick(FALSE) BY <1>1, TickTyped DEF NextTick
  <2>2. QED BY <1>1, <2>1 DEF ForTick, QueuedForTick, StageEntity, Stageable
<1>4. \A u \in NextTick(TRUE) : /\ StartTime[e] <= MS(u)
                                /\ e \notin Children => MS(u) < StartTime[e] + MS(Step)
  <2> TAKE u \in NextTick(TRUE)
  <2>1. u = tick + Step BY <1>1, <1>2, InGroupTick
  <2>2. MS(u) = MS(tick) + MS(Step) /\ MS(tick) \in Nat /\ MS(Step) \in Nat
    BY <1>2, <2>1, MSPlus
  <2>3. StartTime[e] <= MS(u) BY <2>1 DEF StageEntity, Stageable
  <2>4. StartTime[e] \in Nat BY StartsNat
  <2>5. QED BY ONLY <1>3, <2>2, <2>3, <2>4
<1>5. \A v \in Workers : \A f \in toBeAdded'[v] : f = e \/ f \in toBeAdded[v]
  BY DEF IInv, Typed, StageEntity
<1>6. OnTick' BY <1>1 DEF ForTick, OnTick, GroupTick
<1>7. QueuedForTick'
  BY <1>1 DEF ForTick, QueuedForTick, NextTick, MS, GroupTick, shared
<1>8. AddedForTick'
  <2>1. \A v \in Workers : \A f \in toBeAdded'[v], u \in NextTick(TRUE) :
          StartTime[f] <= MS(u) /\ (f \notin Children => MS(u) < StartTime[f] + MS(Step))
    BY <1>1, <1>4, <1>5 DEF ForTick, AddedForTick
  <2>2. QED BY <1>1, <2>1 DEF AddedForTick, NextTick, MS, GroupTick
<1>9. ManagedForTick' BY <1>1 DEF ForTick, ManagedForTick, MS
<1>10. QED BY <1>6, <1>7, <1>8, <1>9 DEF ForTick

LEMMA CollectRemovedEntitiesForTick ==
  ASSUME IInv, ForTick, CollectRemovedEntities PROVE ForTick'
<1>1. /\ main = "stage" /\ main' = "distribute" /\ tick' = tick /\ GroupTick(tick)
      /\ UNCHANGED <<at, queues, entToBeBred, lists, lastUpdate>>
  BY DEF ForTick, OnTick, CollectRemovedEntities
<1>2. tick \in Nat /\ Step \in Nat BY TickTyped
<1>3. \A e \in pending_source, u \in NextTick(TRUE) : MS(u) < StartTime[e]
  <2> TAKE e \in pending_source, u \in NextTick(TRUE)
  <2>1. u = tick + Step BY <1>1, <1>2, InGroupTick
  <2>2. ~ (StartTime[e] <= MS(u)) BY <2>1 DEF CollectRemovedEntities, Stageable
  <2>3. u \in Nat BY ONLY <1>2, <2>1
  <2>4. MS(u) \in Nat BY <2>3, MSPlus
  <2>5. StartTime[e] \in Nat BY StartsNat DEF IInv, Typed
  <2>6. QED BY ONLY <2>2, <2>4, <2>5
<1>4. OnTick' BY <1>1 DEF ForTick, OnTick, GroupTick
<1>5. QueuedForTick'
  BY <1>1, <1>3 DEF ForTick, QueuedForTick, NextTick, MS, GroupTick, queues, lists
<1>6. AddedForTick' BY <1>1 DEF ForTick, AddedForTick, NextTick, MS, GroupTick, lists
<1>7. ManagedForTick' BY <1>1 DEF ForTick, ManagedForTick, MS, lists
<1>8. QED BY <1>4, <1>5, <1>6, <1>7 DEF ForTick

LEMMA DistributeMessagesForTick ==
  ASSUME IInv, ForTick, DistributeMessages PROVE ForTick'
<1>1. /\ main = "distribute" /\ main' = "delete" /\ tick' = tick + 1
      /\ tick < EndTick /\ \A w \in Workers : at[w] = "wait"
      /\ UNCHANGED <<queues, shared, lists, lastUpdate>>
  BY DEF IInv, Phases, DistributeMessages
<1>2. /\ tick \in Nat /\ EndTick \in Nat /\ Step \in Nat
      /\ \A e \in Entities : StartTime[e] \in Nat
  BY TickTyped, StartsNat
<1>3. \A w \in Workers :
        at'[w] = IF tick' < EndTick /\ GroupTick(tick') THEN "dispatch" ELSE "wait"
  BY <1>1 DEF DistributeMessages, Begin
<1>4. NextTick(FALSE)' = NextTick(TRUE)
  BY <1>1, <1>2 DEF NextTick, GroupTick
<1>5. OnTick'
  <2>1. tick' < EndTick \/ tick' = EndTick BY <1>1, <1>2
  <2>2. QED BY <1>1, <1>3, <2>1 DEF OnTick, GroupTick
<1>6. QueuedForTick'
  <2>1. \A e \in pending_source \ Children, u \in NextTick(FALSE)' : MS(u) < StartTime[e]
    BY <1>1, <1>4 DEF ForTick, QueuedForTick
  <2>2. QED
    BY <1>1, <2>1 DEF ForTick, QueuedForTick, NextTick, MS, GroupTick, queues, shared, lists
<1>7. AddedForTick'
  <2>1. \A w \in Workers : \A e \in toBeAdded[w], u \in NextTick(FALSE)' :
          StartTime[e] <= MS(u) /\ (e \notin Children => MS(u) < StartTime[e] + MS(Step))
    BY <1>1, <1>4 DEF ForTick, AddedForTick
  <2>2. QED BY <1>1, <2>1 DEF AddedForTick, NextTick, MS, GroupTick, lists
<1>8. ManagedForTick'
  <2> SUFFICES ASSUME NEW w \in Workers, NEW e \in managedEntities[w]
               PROVE  StartTime[e] <= MS(tick') /\ lastUpdate[e] # -1
    BY <1>1 DEF ManagedForTick, MS, lists
  <2>1. StartTime[e] <= MS(tick) /\ lastUpdate[e] # -1
    BY <1>1 DEF ForTick, ManagedForTick
  <2>2. MS(tick) \in Nat /\ MS(tick') \in Nat /\ MS(tick) <= MS(tick')
    BY <1>1, <1>2, MSPlus
  <2>3. StartTime[e] \in Nat BY <1>2 DEF IInv, Typed
  <2>4. QED BY ONLY <2>1, <2>2, <2>3
<1>9. QED BY <1>5, <1>6, <1>7, <1>8 DEF ForTick

LEMMA DeleteRemovedForTick ==
  ASSUME ForTick, DeleteRemoved PROVE ForTick'
BY DEF ForTick, OnTick, QueuedForTick, AddedForTick, ManagedForTick, NextTick, MS, GroupTick,
       DeleteRemoved, queues, shared, lists

LEMMA StutteringForTick ==
  ASSUME ForTick, UNCHANGED vars PROVE ForTick'
BY DEF ForTick, OnTick, QueuedForTick, AddedForTick, ManagedForTick, NextTick, MS, GroupTick,
       vars, queues, shared, lists

\* Whatever the granularity of the group: no agent is updated before its start time, and
\* one that waited in the group's queue is first updated less than a tick of the group
\* after it.  So checkFrameTimes, which allows a base tick, never throws because an agent is
\* early, and what it finds late is a child, or late by less than the granularity.
THEOREM StartsInGroupTickAlways == Spec => []StartsInGroupTick
<1>1. Init => ForTick BY InitForTick
<1>2. IInv /\ ForTick /\ [Next]_vars => ForTick'
  <2> SUFFICES ASSUME IInv, ForTick, [Next]_vars PROVE ForTick'
    OBVIOUS
  <2>1. CASE UNCHANGED vars BY <2>1, StutteringForTick
  <2>2. CASE StageBred BY <2>2, StageBredForTick
  <2>3. CASE \E e \in Entities, w \in Workers : StageEntity(e, w) BY <2>3, StageEntityForTick
  <2>4. CASE CollectRemovedEntities BY <2>4, CollectRemovedEntitiesForTick
  <2>5. CASE DistributeMessages BY <2>5, DistributeMessagesForTick
  <2>6. CASE DeleteRemoved BY <2>6, DeleteRemovedForTick
  <2>7. ASSUME NEW w \in Workers, WorkerStep(w) PROVE ForTick'
    BY <2>7, MailForTick, UpdateEntityForTick, AddPendingEntitiesForTick,
       RemovePendingEntitiesForTick DEF WorkerStep
  <2>8. QED BY <2>1, <2>2, <2>3, <2>4, <2>5, <2>6, <2>7 DEF Next, MainStep, Over
<1>3. IInv /\ ForTick => StartsInGroupTick BY ForTickStarts
<1>4. QED BY <1>1, <1>2, <1>3, Inductive, PTL DEF Spec
=============================================================================
