------------------------- MODULE EntityLifecycleInv -------------------------
(* The properties of the life of the entities. *)
EXTENDS EntityLifecycle

\* Type correctness.
TypeOK ==
  /\ tick \in 0 .. EndTick
  /\ main \in {"wait", "stage", "distribute", "delete"}
  /\ at \in [Workers -> {"wait", "dispatch", "update"}]
  /\ pending_source \cup pendingChildren \cup all_agents \subseteq Entities
  /\ nextTimeTickToStage \in 0 .. EndTick
  /\ \A l \in {entToBeBred, entToBeRemoved, toBeAdded, toBeRemoved, toBeBred,
               managedEntities, output, input} : l \in [Workers -> SUBSET Entities]
  /\ nextWorkerID \in Workers
  /\ currWorker \in [Entities -> Workers \cup {None}]
  /\ removedEntities \cup deleted \cup failed \subseteq Entities
  /\ lastUpdate \in [Entities -> -1 .. EndTick - 1]

\* The lists an agent can be in; toBeRemoved only marks managed agents.
GlobalLists ==
  [pending |-> pending_source, children |-> pendingChildren,
   collected |-> removedEntities, deleted |-> deleted]

WorkerLists ==
  [bred |-> toBeBred, scheduled |-> entToBeBred, added |-> toBeAdded,
   managed |-> managedEntities, removed |-> entToBeRemoved]

Places(e) ==
  {<<l, None>> : l \in {k \in DOMAIN GlobalLists : e \in GlobalLists[k]}} \cup
  {p \in (DOMAIN WorkerLists) \X Workers : e \in WorkerLists[p[1]][p[2]]}

\* However it is handed on between a queue, the controller, the workers and
\* main, an agent is always in one list: it is neither lost, nor managed by two
\* workers, nor deleted twice, nor deleted while somebody still holds it.
OnePlace == \A e \in Entities : Cardinality(Places(e)) = 1

\* migrateIn never finds the agent "already being managed", migrateOut never
\* that it "has somehow switched workers", and the destructor never that it is
\* "still being managed by a Worker".
Migrations ==
  \A e \in Entities :
    /\ \A w \in Workers :
         /\ e \in toBeAdded[w] => currWorker[e] = None
         /\ e \in toBeRemoved[w] => currWorker[e] = w
    /\ e \in removedEntities \cup deleted => currWorker[e] = None

\* A message in a queue is for an agent that still exists, although main
\* deletes agents while the workers post: a worker never finds that the one it
\* delivers to has left it ("Thread contexts inconsistency").
NoDanglingMail ==
  \A w \in Workers :
    /\ output[w] \cap deleted = {}
    /\ \A e \in input[w] : e \notin deleted /\ currWorker[e] = w

\* Agent::checkFrameTimes never throws: an agent's first update comes in the
\* base tick its start time falls due, and nobody whose time has come waits.
StartsInTime ==
  /\ failed = {}
  /\ (\E w \in Workers : at[w] = "update") =>
       \A e \in pending_source \cup pendingChildren : MS(tick) < StartTime[e]

\* Agent.cpp:134 "Agent was not started within one timespan of its requested
\* start time": the error that "should be handled automatically" does not occur.
NeverLate == failed = {}

\* Liveness: an agent that is done is deleted, whatever tick it ends in.
Reclaimed ==
  \A e \in Entities : (\E w \in Workers : e \in toBeRemoved[w]) ~> e \in deleted
=============================================================================
