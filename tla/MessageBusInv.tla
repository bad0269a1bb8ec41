---------------------------- MODULE MessageBusInv ----------------------------
(* The properties of the message bus. *)
EXTENDS MessageBus

\* Type correctness; timers wait in the future lists and nowhere else.
TypeOK ==
  /\ stage \in [Threads -> {"idle", "drain", "update", "crashed"}]
  /\ currentTime \in 0 .. EndTick
  /\ context \in [Handlers -> Threads \cup {None}]
  /\ \A t \in Threads :
       /\ output[t] \cup future[t] \cup input[t] \subseteq Entry
       /\ \A e \in output[t] : e.offset = 0
       /\ \A e \in future[t] : e.offset > 0
       /\ listening[t] \subseteq Sources
  /\ posted \in 0 .. MaxPosts
  /\ received \in Nat /\ processed \in Nat /\ events \in Nat
  /\ handled \in [1 .. MaxPosts -> Nat]
  /\ dropped \subseteq Entry

\* The entries waiting in input queues, each with the thread it waits for.
Waiting == UNION {{t} \X input[t] : t \in Threads}

\* Nothing is lost or made up between the threads.  This is the balance that
\* MessageBus::printReport computes, with the terms it leaves out or adds with
\* the wrong sign: what waits is not yet processed, what was dropped never is,
\* and an event is processed once by every thread.
Accounting ==
  processed + Cardinality(Waiting) + Cardinality(dropped) =
    received + events * Cardinality(Threads)

\* The dispatch an entry is due at: an offset of zero and of one are the same.
DueTime(e) == e.at + (IF e.offset = 0 THEN 1 ELSE e.offset)

\* The base ticks between two updates of a thread.
StepOf(t) == IF t = Main THEN 1 ELSE Step[t]

\* PostMessage's timeOffset is kept: no entry is distributed late or early, and
\* what is distributed is handled in the next update of the thread's group.
OnTime ==
  \A t \in Threads :
    /\ \A e \in output[t] \cup future[t] : currentTime < DueTime(e)
    /\ \A e \in input[t] :
         DueTime(e) <= currentTime /\ currentTime < DueTime(e) + StepOf(t)

\* Outside mid-term a handler's messages run on the handler's own thread, or on
\* main if the poster asked for it; the destination is still registered when
\* its message comes up, so no thread fails on it, although threads of
\* different granularity empty their queues at different ticks.
InputsHome ==
  Mode # "medium" =>
    /\ \A t \in Threads : \A e \in input[t] :
         ~IsEvent(e) => IF e.onMain THEN t = Main ELSE context[e.dest] = t
    /\ ~Crashed

\* A message is handled once: what has been handled is in no queue any more.
\* MessageBus.cpp:520 "Forward the message to the correct thread".
AtMostOnce ==
  \A t \in Threads : \A e \in output[t] \cup future[t] \cup input[t] :
    ~IsEvent(e) => handled[e.id] = 0

\* MessageBus.hpp:204 on UnSubscribeAll: "It is guarantee that listeners will
\* receive last events"; Agent.cpp:251 relies on it to publish its death.  When
\* the bus takes a thread's listeners away, no event of theirs is left behind.
LastEvents ==
  [][\A t \in Threads : \A s \in listening[t] \ listening'[t] :
       \A e \in input'[t] : ~(e.kind = "publish" /\ e.source = s)]_vars
==============================================================================
