----------------------------- MODULE MessageBus -----------------------------
(***************************************************************************)
(* sim_mob::messaging::MessageBus (shared/message/MessageBus.cpp): every   *)
(* thread has a context with an output queue, a list of future messages    *)
(* and an input queue.  Workers post while they update; between two        *)
(* updates the main thread moves what is due to the input queues of the    *)
(* threads the destinations belong to; each thread empties its input queue *)
(* at the start of its next update.                                        *)
(*                                                                         *)
(* WorkGroups.tla shows that the barriers separate the two parts of a tick *)
(* and keep all threads in the same tick; here they are two stages.        *)
(***************************************************************************)
EXTENDS Integers, FiniteSets

CONSTANTS
  Main,      \* the main thread
  Workers,   \* the worker threads
  Step,      \* the granularity of each worker's group, in base ticks
  Handlers,  \* the MessageHandlers (agents, controllers, ...)
  Home,      \* the context each handler is first registered in
  Mode,      \* which of the three simulators runs
  Shapes,    \* what callers pass to PostMessage
  Topics,    \* the sources events are published with and listened for
  MaxPosts,  \* bound: messages and events of the whole run
  EndTick    \* the first tick that is not simulated

Threads == Workers \cup {Main}

None == "none"      \* nullptr: a handler without a context
Global == "global"  \* the listeners of an event whatever its source

\* MB_MIN_MSG_PRIORITY and the priorities of InternalEventMessages.
MinPriority == 5
PublishPriority == 3
UnsubscribePriority == 4

ASSUME BusAssumption ==
  /\ IsFiniteSet(Workers) /\ Main \notin Workers
  /\ None \notin Threads \cup Handlers /\ Global \notin Handlers
  /\ Step \in [Workers -> Nat \ {0}]
  /\ Home \in [Handlers -> Threads]
  /\ Mode \in {"short", "medium", "long"}
  /\ Shapes \subseteq [dest : Handlers, priority : Nat, onMain : BOOLEAN, offset : Nat]
  /\ Topics \subseteq Handlers \cup {Global}
  /\ MaxPosts \in Nat /\ EndTick \in Nat

Sources == Handlers \cup {Global}

\* MessageEntry.  id stands for the shared message object; at is the value of
\* currentTime when the entry was made, so that triggerTime = at + offset.
Entry ==
  [id : 1 .. MaxPosts, kind : {"message", "publish", "unsubscribe"},
   dest : Handlers \cup {None}, source : Sources \cup {None},
   priority : Nat, onMain : BOOLEAN, at : Nat, offset : Nat]

VARIABLES
  stage,        \* idle, drain, update or crashed: each thread's part of a tick
  currentTime,  \* MessageBus::currentTime, the number of dispatches
  context,      \* MessageHandler::context
  output,       \* the three queues of each thread's context; a heap does not
  future,       \*   order entries of equal priority, so each is a set
  input,
  listening,    \* the sources each thread's event publisher has listeners for
  posted,       \* how many messages and events have been created
  received,     \* receivedMessages, summed over the contexts
  processed,    \* processedMessages, summed over the contexts
  events,       \* eventMessages, summed over the contexts
  handled,      \* history: the calls of HandleMessage for each message
  dropped       \* history: the entries dispatch() discarded

queues == <<output, future, input>>
counters == <<received, processed, events>>
history == <<handled, dropped>>
vars == <<stage, currentTime, context, queues, listening, posted, counters, history>>

Init ==
  /\ stage = [t \in Threads |-> IF t = Main THEN "idle" ELSE "drain"]
  /\ currentTime = 0
  /\ context = Home
  /\ output = [t \in Threads |-> {}]
  /\ future = [t \in Threads |-> {}]
  /\ input = [t \in Threads |-> {}]
  /\ listening = [t \in Threads |-> {}]
  /\ posted = 0
  /\ received = 0 /\ processed = 0 /\ events = 0
  /\ handled = [m \in 1 .. MaxPosts |-> 0]
  /\ dropped = {}

-----------------------------------------------------------------------------
(* Posting. *)

\* A thread runs entity code while it empties its queue and while it updates;
\* main has an update of its own, the multi-update entities, in mid-term only.
Running(t) ==
  \/ stage[t] = "drain"
  \/ stage[t] = "update" /\ (t = Main => Mode = "medium")

\* A custom message never overtakes the bus's own: its priority is raised.
Clamp(priority) == IF priority < MinPriority THEN MinPriority ELSE priority

Message(m, s) ==
  [id |-> m, kind |-> "message", dest |-> s.dest, source |-> None,
   priority |-> Clamp(s.priority), onMain |-> s.onMain,
   at |-> currentTime, offset |-> s.offset]

Event(m, kind, source, priority) ==
  [id |-> m, kind |-> kind, dest |-> None, source |-> source,
   priority |-> priority, onMain |-> FALSE, at |-> currentTime, offset |-> 0]

PublishEntry(m, source) == Event(m, "publish", source, PublishPriority)
UnsubscribeEntry(m, source) == Event(m, "unsubscribe", source, UnsubscribePriority)

\* Mutant: every entry goes to the output queue.
PutInOutput(t, e) ==
  output' = [output EXCEPT ![t] = @ \cup {e}] /\ UNCHANGED future

\* The end of PostMessage: the poster's output queue, or its future list.
Put(t, e) ==
  IF e.offset = 0
  THEN output' = [output EXCEPT ![t] = @ \cup {e}] /\ UNCHANGED future
  ELSE future' = [future EXCEPT ![t] = @ \cup {e}] /\ UNCHANGED output

PostMessage(t, s) ==
  /\ Running(t)
  /\ posted < MaxPosts
  /\ posted' = posted + 1
  /\ Put(t, Message(posted + 1, s))
  /\ UNCHANGED <<stage, currentTime, context, input, listening, counters, history>>

\* SendMessage to a handler of the caller's own context: handled at once.
SendInstantaneousMessage(t, s) ==
  /\ Running(t)
  /\ posted < MaxPosts
  /\ context[s.dest] = t
  /\ posted' = posted + 1
  /\ received' = received + 1
  /\ processed' = processed + 1
  /\ handled' = [handled EXCEPT ![posted + 1] = @ + 1]
  /\ UNCHANGED <<stage, currentTime, context, queues, listening, events, dropped>>

PublishEvent(t, source) ==
  /\ Running(t)
  /\ posted < MaxPosts
  /\ posted' = posted + 1
  /\ Put(t, PublishEntry(posted + 1, source))
  /\ UNCHANGED <<stage, currentTime, context, input, listening, counters, history>>

\* Agent::perform_update of an agent that is done: it publishes its death and
\* posts the unsubscription of everybody who listened for it.
AgentDies(t, h) ==
  /\ Running(t) /\ context[h] = t
  /\ posted + 2 <= MaxPosts
  /\ posted' = posted + 2
  /\ output' = [output EXCEPT ![t] =
       @ \cup {PublishEntry(posted + 1, h), UnsubscribeEntry(posted + 2, h)}]
  /\ UNCHANGED <<stage, currentTime, context, future, input, listening, counters, history>>

SubscribeEvent(t, source) ==
  /\ Running(t)
  /\ source \notin listening[t]
  /\ listening' = [listening EXCEPT ![t] = @ \cup {source}]
  /\ UNCHANGED <<stage, currentTime, context, queues, posted, counters, history>>

-----------------------------------------------------------------------------
(* Registration. *)

\* Mutant: a handler is unregistered while messages of its thread wait.
UnRegisterHandlerAnyTime(t, h) ==
  /\ Running(t)
  /\ context[h] = t
  /\ context' = [context EXCEPT ![h] = None]
  /\ UNCHANGED <<stage, currentTime, queues, listening, posted, counters, history>>

\* Worker::removePendingEntities, at the end of the owner's update; main may
\* unregister the handlers of any context.
UnRegisterHandler(t, h) ==
  /\ stage[t] = "update" /\ Running(t)
  /\ context[h] = t \/ (t = Main /\ context[h] # None)
  /\ context' = [context EXCEPT ![h] = None]
  /\ UNCHANGED <<stage, currentTime, queues, listening, posted, counters, history>>

\* Mid-term: a conflux hands a person over to another conflux's context, main
\* does so for it, or a conflux or bus stop takes over a person it receives.
ReRegisterHandler(t, h, new) ==
  /\ Mode = "medium"
  /\ Running(t)
  /\ context[h] # None /\ context[h] # new
  /\ context[h] = t \/ new = t \/ t = Main
  /\ context' = [context EXCEPT ![h] = new]
  /\ UNCHANGED <<stage, currentTime, queues, listening, posted, counters, history>>

-----------------------------------------------------------------------------
(* The worker's part of a tick: ThreadDispatchMessages, then its update. *)

IsEvent(e) == e.kind # "message"

\* The head of the input heap: any entry that none other outranks.
Heads(t) == {e \in input[t] : \A f \in input[t] : f.priority <= e.priority}

\* The destination of a message belongs to another thread by now, or to none.
Moved(t, e) == ~IsEvent(e) /\ ~e.onMain /\ context[e.dest] # t

\* Reading the thread of a null context kills the process; so does the thrown
\* "Thread contexts inconsistency", which no thread catches.
Fatal(t, e) == Moved(t, e) /\ (context[e.dest] = None \/ Mode # "medium")

\* Mutant: the forwarded copy is posted wherever the message is.
DeliverAndForward(t, e) ==
  /\ handled' = [handled EXCEPT ![e.id] = @ + 1]
  /\ output' = [output EXCEPT ![t] = @ \cup {[e EXCEPT !.at = currentTime, !.offset = 0]}]
  /\ UNCHANGED listening

\* Mutant: the forwarded copy keeps its place in time.
DeliverStale(t, e) ==
  /\ handled' = [handled EXCEPT ![e.id] = @ + 1]
  /\ output' = IF Moved(t, e) THEN [output EXCEPT ![t] = @ \cup {e}] ELSE output
  /\ UNCHANGED listening

\* A message reaches its destination.  If that has moved to another context,
\* the message is forwarded there, and handled.
Deliver(t, e) ==
  /\ handled' = [handled EXCEPT ![e.id] = @ + 1]
  /\ output' = IF Moved(t, e)
               THEN [output EXCEPT ![t] = @ \cup
                      {[e EXCEPT !.at = currentTime, !.offset = 0]}]
               ELSE output
  /\ UNCHANGED listening

\* The thread's InternalEventPublisher: publish to the listeners of the source
\* and to the global ones, or forget the listeners of the source.
Publish(t, e) ==
  /\ listening' = IF e.kind = "unsubscribe"
                  THEN [listening EXCEPT ![t] = @ \ {e.source}] ELSE listening
  /\ handled' = IF e.kind = "publish" /\ listening[t] \cap {e.source, Global} # {}
                THEN [handled EXCEPT ![e.id] = @ + 1] ELSE handled
  /\ UNCHANGED output

ThreadDispatchMessages(t) ==
  /\ stage[t] = "drain"
  /\ \E e \in Heads(t) :
       /\ ~Fatal(t, e)
       /\ IF IsEvent(e) THEN Publish(t, e) ELSE Deliver(t, e)
       /\ input' = [input EXCEPT ![t] = @ \ {e}]
  /\ processed' = processed + 1
  /\ UNCHANGED <<stage, currentTime, context, future, posted, received, events, dropped>>

Crash(t) ==
  /\ stage[t] = "drain"
  /\ \E e \in Heads(t) : Fatal(t, e)
  /\ stage' = [c \in Threads |-> "crashed"]
  /\ UNCHANGED <<currentTime, context, queues, listening, posted, counters, history>>

StartUpdate(w) ==
  /\ stage[w] = "drain" /\ input[w] = {}
  /\ stage' = [stage EXCEPT ![w] = "update"]
  /\ UNCHANGED <<currentTime, context, queues, listening, posted, counters, history>>

EndUpdate(w) ==
  /\ stage[w] = "update"
  /\ stage' = [stage EXCEPT ![w] = "idle"]
  /\ UNCHANGED <<currentTime, context, queues, listening, posted, counters, history>>

-----------------------------------------------------------------------------
(* The main thread's part: its own updates, then DistributeMessages. *)

\* All workers have arrived at the barrier that ends their update.
StartServing ==
  /\ \A t \in Threads : stage[t] = "idle"
  /\ currentTime < EndTick
  /\ stage' = [stage EXCEPT ![Main] = "update"]
  /\ UNCHANGED <<currentTime, context, queues, listening, posted, counters, history>>

\* Mutant: a future message is due one dispatch later.
DueLater(t, now) == output[t] \cup {e \in future[t] : e.at + e.offset < now}

\* What DispatchMessages takes from a context at the time `now`.
Due(t, now) == output[t] \cup {e \in future[t] : e.at + e.offset <= now}

\* Mutant: the event publisher of the main thread is left out.
TargetsWithoutMain(e) ==
  IF IsEvent(e) THEN Workers
  ELSE IF e.onMain THEN {Main}
  ELSE {context[e.dest]} \ {None}

\* The threads whose input queue an entry goes to; none without a context.
Targets(e) ==
  IF IsEvent(e) THEN Threads
  ELSE IF e.onMain THEN {Main}
  ELSE {context[e.dest]} \ {None}

DispatchMessages ==
  /\ stage[Main] = "update"
  /\ LET now == currentTime + 1
         due == UNION {Due(t, now) : t \in Threads}
     IN /\ currentTime' = now
        /\ input' = [t \in Threads |-> input[t] \cup {e \in due : t \in Targets(e)}]
        /\ output' = [t \in Threads |-> {}]
        /\ future' = [t \in Threads |-> future[t] \ due]
        /\ received' = received + Cardinality({e \in due : ~IsEvent(e)})
        /\ events' = events + Cardinality({e \in due : IsEvent(e)})
        /\ dropped' = dropped \cup {e \in due : Targets(e) = {}}
  /\ stage' = [stage EXCEPT ![Main] = "drain"]
  /\ UNCHANGED <<context, listening, posted, processed, handled>>

\* Mutant: what waits for a thread that does not update is thrown away.
NextTickDiscarding ==
  /\ stage[Main] = "drain" /\ input[Main] = {}
  /\ stage' = [t \in Threads |->
       IF t \in Workers /\ currentTime < EndTick /\ currentTime % Step[t] = 0
       THEN "drain" ELSE "idle"]
  /\ input' = [t \in Threads |-> IF stage'[t] = "drain" THEN input[t] ELSE {}]
  /\ UNCHANGED <<currentTime, context, output, future, listening, posted, counters, history>>

\* Main has handled its own messages: the workers whose group updates at the
\* next tick begin it, unless the simulation is over.
NextTick ==
  /\ stage[Main] = "drain" /\ input[Main] = {}
  /\ stage' = [t \in Threads |->
       IF t \in Workers /\ currentTime < EndTick /\ currentTime % Step[t] = 0
       THEN "drain" ELSE "idle"]
  /\ UNCHANGED <<currentTime, context, queues, listening, posted, counters, history>>

-----------------------------------------------------------------------------
Crashed == stage[Main] = "crashed"

Over == currentTime = EndTick /\ \A t \in Threads : stage[t] = "idle"

Finished == (Over \/ Crashed) /\ UNCHANGED vars

ThreadStep(t) ==
  \/ \E s \in Shapes : PostMessage(t, s) \/ SendInstantaneousMessage(t, s)
  \/ \E s \in Topics : PublishEvent(t, s) \/ SubscribeEvent(t, s)
  \/ \E h \in Handlers \cap Topics : AgentDies(t, h)
  \/ \E h \in Handlers : UnRegisterHandler(t, h)
  \/ \E h \in Handlers, new \in Threads : ReRegisterHandler(t, h, new)
  \/ ThreadDispatchMessages(t)
  \/ Crash(t)

Next ==
  \/ \E t \in Threads : ThreadStep(t)
  \/ \E w \in Workers : StartUpdate(w) \/ EndUpdate(w)
  \/ StartServing \/ DispatchMessages \/ NextTick
  \/ Finished

Spec == Init /\ [][Next]_vars
=============================================================================
