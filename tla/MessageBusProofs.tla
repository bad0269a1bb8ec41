-------------------------- MODULE MessageBusProofs --------------------------
(***************************************************************************)
(* Proofs of the safety properties of the message bus, for every number of *)
(* threads, handlers, messages and ticks, every granularity and mode.      *)
(*                                                                         *)
(* Time: what waits for distribution was posted since the last one, or is  *)
(* a timer that is due later, so that what is distributed is due just now  *)
(* (Timely).  A thread empties its queue in each tick of its group before  *)
(* it updates (Drained), so that what waits for it came after the last     *)
(* such tick (Fresh); the next one is less than a granularity away.        *)
(*                                                                         *)
(* Balance: entries that are distributed are neither among those that wait *)
(* (these were due earlier) nor among those that were dropped, so that the *)
(* cardinalities add up: a message is one entry in one queue, or dropped,  *)
(* and an event one entry in each queue (DistributedCount).                *)
(*                                                                         *)
(* Outside mid-term a handler leaves its thread only while the thread      *)
(* updates, with an empty queue; so no message is ever with another thread *)
(* (Homes), none is forwarded, and each is in one queue of one thread      *)
(* until it is handled (Once).                                             *)
(***************************************************************************)
EXTENDS MessageBusInv, FiniteSetTheorems, TLAPS

\* The entries the bus makes: a message has a destination.
Made == {e \in Entry : IsEvent(e) \/ e.dest \in Handlers}

Typed ==
  /\ stage \in [Threads -> {"idle", "drain", "update", "crashed"}]
  /\ currentTime \in 0 .. EndTick
  /\ context \in [Handlers -> Threads \cup {None}]
  /\ output \in [Threads -> SUBSET Made]
  /\ future \in [Threads -> SUBSET Made]
  /\ input \in [Threads -> SUBSET Made]
  /\ listening \in [Threads -> SUBSET Sources]
  /\ posted \in 0 .. MaxPosts
  /\ received \in Nat /\ processed \in Nat /\ events \in Nat
  /\ handled \in [1 .. MaxPosts -> Nat]
  /\ dropped \in SUBSET Made

\* Main serves while no worker runs; a thread that fails takes the others with it.
Stages ==
  /\ (\E t \in Threads : stage[t] = "crashed") => \A t \in Threads : stage[t] = "crashed"
  /\ stage[Main] \in {"update", "drain"} => \A w \in Workers : stage[w] = "idle"
  /\ stage[Main] = "update" => currentTime < EndTick

\* A thread that has begun its update has emptied its queue: main before the workers
\* run, a worker in each tick of its group.
Drained ==
  /\ input[Main] # {} => stage[Main] \in {"drain", "crashed"}
  /\ \A w \in Workers :
       \/ stage[w] = "update"
       \/ /\ stage[w] = "idle" /\ stage[Main] \in {"idle", "update"}
          /\ currentTime < EndTick /\ currentTime % Step[w] = 0
       => input[w] = {}

\* What waits for a worker was distributed after the last tick of its group, or in the
\* present tick.
Fresh(w, e) ==
  /\ DueTime(e) <= currentTime /\ currentTime - DueTime(e) < Step[w]
  /\ currentTime % Step[w] # 0 => currentTime - DueTime(e) < currentTime % Step[w]

\* The entries not yet distributed are due later, the others were distributed on time.
Timely ==
  /\ \A t \in Threads :
       /\ \A e \in output[t] : e.offset = 0 /\ e.at = currentTime
       /\ \A e \in future[t] :
            e.offset > 0 /\ e.at <= currentTime /\ currentTime < e.at + e.offset
  /\ \A e \in input[Main] : DueTime(e) = currentTime
  /\ \A w \in Workers : \A e \in input[w] : Fresh(w, e)
  /\ \A e \in dropped : DueTime(e) <= currentTime

Outgoing == UNION {output[t] \cup future[t] : t \in Threads}

Finite == IsFiniteSet(Outgoing) /\ IsFiniteSet(Waiting) /\ IsFiniteSet(dropped)

IInv == Typed /\ Stages /\ Drained /\ Timely /\ Finite /\ Accounting

-----------------------------------------------------------------------------
(* Operators. *)

LEMMA Remainder ==
  ASSUME NEW n, NEW s, NEW q, NEW r,
         n \in Nat, s \in Nat \ {0}, q \in Nat, r \in 0 .. s - 1, n = s * q + r
  PROVE  n % s = r
OBVIOUS

LEMMA NextRemainder ==
  ASSUME NEW n \in Nat, NEW s \in Nat \ {0}
  PROVE  /\ n % s \in 0 .. s - 1
         /\ (n + 1) % s = IF n % s = s - 1 THEN 0 ELSE (n % s) + 1
<1>1. s \in Int /\ s > 0 /\ n \in Int /\ n + 1 \in Nat
  OBVIOUS
<1>2. PICK q \in Nat, r \in 0 .. s - 1 : n = s * q + r /\ r = n % s
  <2>1. n = s * (n \div s) + (n % s) BY <1>1
  <2>2. n % s \in 0 .. s - 1 BY <1>1
  <2>3. n \div s \in Nat BY <1>1
  <2>4. QED BY <2>1, <2>2, <2>3
<1>3. s * q \in Nat OBVIOUS
<1>4. CASE r = s - 1
  <2>1. n = s * q + (s - 1) BY <1>2, <1>4
  <2>2. \A x \in Nat : x + (s - 1) + 1 = x + s + 0 OBVIOUS
  <2>3. s * (q + 1) = s * q + s OBVIOUS
  <2>4. n + 1 = s * q + s + 0 BY ONLY <1>3, <2>1, <2>2
  <2>5. n + 1 = s * (q + 1) + 0 BY ONLY <2>3, <2>4
  <2>6. q + 1 \in Nat /\ 0 \in 0 .. s - 1 OBVIOUS
  <2>7. (n + 1) % s = 0 BY ONLY <1>1, <2>5, <2>6, Remainder, s \in Nat \ {0}
  <2>8. QED BY <1>2, <1>4, <2>7
<1>5. CASE r # s - 1
  <2>1. n + 1 = s * q + (r + 1) /\ r + 1 \in 0 .. s - 1 BY <1>2, <1>3, <1>5
  <2>2. (n + 1) % s = r + 1 BY ONLY <1>1, <2>1, Remainder, s \in Nat \ {0}, q \in Nat
  <2>3. QED BY <1>2, <1>5, <2>2
<1>6. QED BY <1>4, <1>5

LEMMA ThreadsFinite ==
  IsFiniteSet(Threads) /\ Cardinality(Threads) \in Nat
<1>1. IsFiniteSet(Workers) BY BusAssumption
<1>2. IsFiniteSet(Threads) BY <1>1, FS_AddElement DEF Threads
<1>3. QED BY <1>2, FS_CardinalityType

LEMMA EntryMade ==
  ASSUME Typed, NEW m \in 1 .. MaxPosts
  PROVE  /\ \A s \in Shapes : /\ Message(m, s) \in Made /\ Message(m, s).at = currentTime
                              /\ Message(m, s).id = m /\ Message(m, s).kind = "message"
         /\ \A s \in Sources : /\ PublishEntry(m, s) \in Made /\ UnsubscribeEntry(m, s) \in Made
                               /\ PublishEntry(m, s).at = currentTime
                               /\ UnsubscribeEntry(m, s).at = currentTime
                               /\ PublishEntry(m, s).offset = 0 /\ UnsubscribeEntry(m, s).offset = 0
                               /\ PublishEntry(m, s).id = m /\ UnsubscribeEntry(m, s).id = m
                               /\ IsEvent(PublishEntry(m, s)) /\ IsEvent(UnsubscribeEntry(m, s))
<1>1. currentTime \in Nat BY BusAssumption DEF Typed
<1>2. ASSUME NEW s \in Shapes
      PROVE  /\ Message(m, s) \in Made /\ Message(m, s).at = currentTime
             /\ Message(m, s).id = m /\ Message(m, s).kind = "message"
  <2>1. s \in [dest : Handlers, priority : Nat, onMain : BOOLEAN, offset : Nat]
    BY BusAssumption
  <2>2. Clamp(s.priority) \in Nat BY <2>1 DEF Clamp, MinPriority
  <2>3. QED BY <1>1, <2>1, <2>2 DEF Message, Made, Entry
<1>3. QED
  BY <1>1, <1>2 DEF PublishEntry, UnsubscribeEntry, Event, Made, Entry, IsEvent, Sources,
     PublishPriority, UnsubscribePriority

LEMMA TypedIsType == Typed /\ Timely => TypeOK
<1> SUFFICES ASSUME Typed, Timely PROVE TypeOK
  OBVIOUS
<1>1. \A t \in Threads : /\ output[t] \cup future[t] \cup input[t] \subseteq Entry
                         /\ \A e \in output[t] : e.offset = 0
                         /\ \A e \in future[t] : e.offset > 0
                         /\ listening[t] \subseteq Sources
  BY DEF Typed, Timely, Made
<1>2. dropped \subseteq Entry BY DEF Typed, Made
<1>3. QED BY <1>1, <1>2 DEF Typed, TypeOK

LEMMA TimelyIsOnTime == Typed /\ Timely => OnTime
<1> SUFFICES ASSUME Typed, Timely, NEW t \in Threads
             PROVE  /\ \A e \in output[t] \cup future[t] : currentTime < DueTime(e)
                    /\ \A e \in input[t] :
                         DueTime(e) <= currentTime /\ currentTime < DueTime(e) + StepOf(t)
  BY DEF OnTime
<1>1. currentTime \in Nat BY BusAssumption DEF Typed
<1>2. \A e \in Made : e.at \in Nat /\ e.offset \in Nat /\ DueTime(e) \in Nat
  BY DEF Made, Entry, DueTime
<1>3. output[t] \cup future[t] \cup input[t] \subseteq Made BY DEF Typed
<1>4. \A e \in output[t] \cup future[t] : currentTime < DueTime(e)
  BY <1>1, <1>2, <1>3 DEF Timely, DueTime
<1>5. CASE t = Main
  BY <1>1, <1>2, <1>3, <1>4, <1>5 DEF Timely, StepOf
<1>6. CASE t # Main
  <2>1. t \in Workers /\ Step[t] \in Nat \ {0} BY <1>6, BusAssumption DEF Threads
  <2>2. QED BY <1>1, <1>2, <1>3, <1>4, <1>6, <2>1 DEF Timely, Fresh, StepOf
<1>7. QED BY <1>5, <1>6

-----------------------------------------------------------------------------
(* The steps. *)

LEMMA InitInv == Init => IInv
<1> SUFFICES ASSUME Init PROVE IInv
  OBVIOUS
<1>1. Main \in Threads /\ Main \notin Workers /\ Workers \subseteq Threads
  BY BusAssumption DEF Threads
<1>2. Typed BY BusAssumption DEF Init, Typed
<1>3. Stages BY <1>1 DEF Init, Stages
<1>4. Drained /\ Timely BY <1>1 DEF Init, Drained, Timely
<1>5. Outgoing = {} /\ Waiting = {} /\ dropped = {}
  BY DEF Init, Outgoing, Waiting
<1>6. Finite /\ Accounting
  BY <1>5, FS_EmptySet, ThreadsFinite DEF Init, Finite, Accounting
<1>7. QED BY <1>2, <1>3, <1>4, <1>6 DEF IInv

\* Whoever runs entity code has not crashed.
LEMMA RunningStage ==
  ASSUME NEW t \in Threads, Running(t) PROVE stage[t] \in {"drain", "update"}
BY DEF Running

\* Posting adds entries made now to an output queue, or one to a future list.
LEMMA PostedInv ==
  ASSUME IInv, NEW t \in Threads, NEW E, E \subseteq Made, IsFiniteSet(E),
         \A e \in E : e.at = currentTime,
         \/ /\ \A e \in E : e.offset = 0
            /\ output' = [output EXCEPT ![t] = @ \cup E] /\ future' = future
         \/ /\ \A e \in E : e.offset > 0
            /\ future' = [future EXCEPT ![t] = @ \cup E] /\ output' = output,
         posted' \in 0 .. MaxPosts, listening' = listening,
         UNCHANGED <<stage, currentTime, context, input, counters, history>>
  PROVE  IInv'
<1>0. UNCHANGED <<stage, currentTime, context, input, received, processed, events, handled, dropped>>
  BY DEF counters, history
<1>1. currentTime \in Nat BY BusAssumption DEF IInv, Typed
<1>2. Typed' BY <1>0 DEF IInv, Typed
<1>3. Stages' /\ Drained' BY <1>0 DEF IInv, Stages, Drained
<1>4. Timely'
  <2>1. \A u \in Threads : \A e \in output'[u] : e.offset = 0 /\ e.at = currentTime
    BY DEF IInv, Typed, Timely
  <2>2. \A u \in Threads : \A e \in future'[u] :
          e.offset > 0 /\ e.at <= currentTime /\ currentTime < e.at + e.offset
    <3>1. \A e \in E : e.offset \in Nat BY DEF Made, Entry
    <3>2. QED BY <1>1, <3>1 DEF IInv, Typed, Timely
  <2>3. QED BY <1>0, <2>1, <2>2 DEF IInv, Timely, Fresh, DueTime
<1>5. Outgoing' = Outgoing \cup E
  BY DEF IInv, Typed, Outgoing
<1>6. Waiting' = Waiting BY <1>0 DEF Waiting
<1>7. Finite'
  BY <1>0, <1>5, <1>6, FS_Union DEF IInv, Finite
<1>8. Accounting' BY <1>0, <1>6 DEF IInv, Accounting
<1>9. QED BY <1>2, <1>3, <1>4, <1>7, <1>8 DEF IInv

LEMMA PutInv ==
  ASSUME IInv, NEW t \in Threads, NEW e \in Made, e.at = currentTime, Put(t, e),
         posted' \in 0 .. MaxPosts, listening' = listening,
         UNCHANGED <<stage, currentTime, context, input, counters, history>>
  PROVE  IInv'
<1>1. e.offset \in Nat BY DEF Made, Entry
<1>2. IsFiniteSet({e}) BY FS_Singleton
<1>3. CASE e.offset = 0 BY <1>2, <1>3, PostedInv DEF Put
<1>4. CASE e.offset > 0 BY <1>2, <1>4, PostedInv DEF Put
<1>5. QED BY <1>1, <1>3, <1>4

LEMMA NextPost ==
  ASSUME Typed, posted < MaxPosts
  PROVE  posted + 1 \in 1 .. MaxPosts /\ posted + 1 \in 0 .. MaxPosts
BY BusAssumption DEF Typed

LEMMA PostMessageInv ==
  ASSUME IInv, NEW t \in Threads, NEW s \in Shapes, PostMessage(t, s) PROVE IInv'
<1>1. posted + 1 \in 1 .. MaxPosts /\ posted' \in 0 .. MaxPosts
  BY NextPost DEF IInv, PostMessage
<1>2. Message(posted + 1, s) \in Made /\ Message(posted + 1, s).at = currentTime
  BY <1>1, EntryMade DEF IInv
<1>3. QED BY <1>1, <1>2, PutInv DEF PostMessage

LEMMA PublishEventInv ==
  ASSUME IInv, NEW t \in Threads, NEW s \in Topics, PublishEvent(t, s) PROVE IInv'
<1>1. posted + 1 \in 1 .. MaxPosts /\ posted' \in 0 .. MaxPosts
  BY NextPost DEF IInv, PublishEvent
<1>2. s \in Sources BY BusAssumption DEF Sources
<1>3. PublishEntry(posted + 1, s) \in Made /\ PublishEntry(posted + 1, s).at = currentTime
  BY <1>1, <1>2, EntryMade DEF IInv
<1>4. QED BY <1>1, <1>3, PutInv DEF PublishEvent

LEMMA AgentDiesInv ==
  ASSUME IInv, NEW t \in Threads, NEW h \in Handlers \cap Topics, AgentDies(t, h) PROVE IInv'
<1>1. /\ posted + 1 \in 1 .. MaxPosts /\ posted + 2 \in 1 .. MaxPosts
      /\ posted' \in 0 .. MaxPosts
  BY BusAssumption DEF IInv, Typed, AgentDies
<1> DEFINE p == PublishEntry(posted + 1, h)
           u == UnsubscribeEntry(posted + 2, h)
<1>2. h \in Sources BY DEF Sources
<1>3. /\ p \in Made /\ p.at = currentTime /\ p.offset = 0
      /\ u \in Made /\ u.at = currentTime /\ u.offset = 0
  BY <1>1, <1>2, EntryMade DEF IInv
<1> HIDE DEF p, u
<1>4. IsFiniteSet({p, u})
  <2>1. {p, u} = {p} \cup {u} OBVIOUS
  <2>2. IsFiniteSet({p}) BY FS_Singleton
  <2>3. QED BY ONLY <2>1, <2>2, FS_AddElement
<1>5. {p, u} \subseteq Made /\ \A e \in {p, u} : e.at = currentTime /\ e.offset = 0
  BY <1>3
<1>6. /\ output' = [output EXCEPT ![t] = @ \cup {p, u}] /\ future' = future
      /\ listening' = listening
      /\ UNCHANGED <<stage, currentTime, context, input, counters, history>>
  BY DEF AgentDies, p, u
<1>7. QED BY <1>1, <1>4, <1>5, <1>6, PostedInv

LEMMA SendInstantaneousMessageInv ==
  ASSUME IInv, NEW t \in Threads, NEW s \in Shapes, SendInstantaneousMessage(t, s) PROVE IInv'
<1>0. UNCHANGED <<stage, currentTime, context, output, future, input, listening, events, dropped>>
  BY DEF SendInstantaneousMessage, queues
<1>1. posted + 1 \in 1 .. MaxPosts /\ posted + 1 \in 0 .. MaxPosts
  BY NextPost DEF IInv, SendInstantaneousMessage
<1>2. Typed' BY <1>0, <1>1 DEF IInv, Typed, SendInstantaneousMessage
<1>3. Stages' /\ Drained' BY <1>0 DEF IInv, Stages, Drained
<1>4. Timely' BY <1>0 DEF IInv, Timely, Fresh, DueTime
<1>5. Outgoing' = Outgoing /\ Waiting' = Waiting BY <1>0 DEF Outgoing, Waiting
<1>6. Finite' BY <1>0, <1>5 DEF IInv, Finite
<1>7. Accounting'
  <2> DEFINE W == Cardinality(Waiting)
             D == Cardinality(dropped)
             E == events * Cardinality(Threads)
  <2>1. W \in Nat /\ D \in Nat /\ E \in Nat
    BY FS_CardinalityType, ThreadsFinite DEF IInv, Typed, Finite
  <2>2. processed \in Nat /\ received \in Nat BY DEF IInv, Typed
  <2>3. processed' = processed + 1 /\ received' = received + 1 /\ events' = events /\ dropped' = dropped
    BY <1>0 DEF SendInstantaneousMessage
  <2>4. processed + W + D = received + E BY DEF IInv, Accounting
  <2> HIDE DEF W, D, E
  <2>5. processed + 1 + W + D = received + 1 + E BY ONLY <2>1, <2>2, <2>4
  <2>6. QED BY <1>5, <2>3, <2>5 DEF Accounting, W, D, E
<1>8. QED BY <1>2, <1>3, <1>4, <1>6, <1>7 DEF IInv

\* Steps that change who listens or which thread a handler belongs to.
LEMMA RegisteredInv ==
  ASSUME IInv, context' \in [Handlers -> Threads \cup {None}],
         listening' \in [Threads -> SUBSET Sources],
         UNCHANGED <<stage, currentTime, queues, posted, counters, history>>
  PROVE  IInv'
<1>0. UNCHANGED <<stage, currentTime, output, future, input, posted, received, processed,
                  events, handled, dropped>>
  BY DEF queues, counters, history
<1>1. Typed' BY <1>0 DEF IInv, Typed
<1>2. Stages' /\ Drained' BY <1>0 DEF IInv, Stages, Drained
<1>3. Timely' BY <1>0 DEF IInv, Timely, Fresh, DueTime
<1>4. Outgoing' = Outgoing /\ Waiting' = Waiting BY <1>0 DEF Outgoing, Waiting
<1>5. Finite' /\ Accounting' BY <1>0, <1>4 DEF IInv, Finite, Accounting
<1>6. QED BY <1>1, <1>2, <1>3, <1>5 DEF IInv

LEMMA RegistrationInv ==
  ASSUME IInv, NEW t \in Threads,
         \/ \E s \in Topics : SubscribeEvent(t, s)
         \/ \E h \in Handlers : UnRegisterHandler(t, h)
         \/ \E h \in Handlers, new \in Threads : ReRegisterHandler(t, h, new)
  PROVE  IInv'
<1>1. ASSUME NEW s \in Topics, SubscribeEvent(t, s) PROVE IInv'
  <2>1. s \in Sources BY BusAssumption DEF Sources
  <2>2. context' = context /\ listening' \in [Threads -> SUBSET Sources]
    BY <1>1, <2>1 DEF IInv, Typed, SubscribeEvent
  <2>3. QED BY <1>1, <2>2, RegisteredInv DEF IInv, Typed, SubscribeEvent
<1>2. ASSUME NEW h \in Handlers, UnRegisterHandler(t, h) PROVE IInv'
  <2>1. context' \in [Handlers -> Threads \cup {None}] /\ listening' = listening
    BY <1>2 DEF IInv, Typed, UnRegisterHandler
  <2>2. QED BY <1>2, <2>1, RegisteredInv DEF IInv, Typed, UnRegisterHandler
<1>3. ASSUME NEW h \in Handlers, NEW new \in Threads, ReRegisterHandler(t, h, new) PROVE IInv'
  <2>1. context' \in [Handlers -> Threads \cup {None}] /\ listening' = listening
    BY <1>3 DEF IInv, Typed, ReRegisterHandler
  <2>2. QED BY <1>3, <2>1, RegisteredInv DEF IInv, Typed, ReRegisterHandler
<1>4. QED BY <1>1, <1>2, <1>3

\* A thread takes an entry out of its input queue; what it forwards is sent now.
LEMMA DeliveredInv ==
  ASSUME IInv, NEW t \in Threads, NEW e \in input[t], NEW E,
         E = {} \/ E = {[e EXCEPT !.at = currentTime, !.offset = 0]},
         output' = [output EXCEPT ![t] = @ \cup E],
         input' = [input EXCEPT ![t] = @ \ {e}], processed' = processed + 1,
         listening' \in [Threads -> SUBSET Sources], handled' \in [1 .. MaxPosts -> Nat],
         UNCHANGED <<stage, currentTime, context, future, posted, received, events, dropped>>
  PROVE  IInv'
<1>1. currentTime \in Nat BY BusAssumption DEF IInv, Typed
<1>2. E \subseteq Made /\ \A f \in E : f.at = currentTime /\ f.offset = 0
  <2>1. e \in Made BY DEF IInv, Typed
  <2>2. [e EXCEPT !.at = currentTime, !.offset = 0] \in Made
    BY <1>1, <2>1 DEF Made, Entry, IsEvent
  <2>3. [e EXCEPT !.at = currentTime, !.offset = 0].at = currentTime
    BY <2>1 DEF Made, Entry
  <2>4. [e EXCEPT !.at = currentTime, !.offset = 0].offset = 0
    BY <2>1 DEF Made, Entry
  <2>5. QED BY <2>2, <2>3, <2>4
<1>3. IsFiniteSet(E)
  <2>1. CASE E = {} BY <2>1, FS_EmptySet
  <2>2. ASSUME NEW f, E = {f} PROVE IsFiniteSet(E) BY <2>2, FS_Singleton
  <2>3. QED BY <2>1, <2>2
<1>4. \A u \in Threads : input'[u] \subseteq input[u]
  BY DEF IInv, Typed
<1>5. Typed'
  <2>1. output' \in [Threads -> SUBSET Made] BY <1>2 DEF IInv, Typed
  <2>2. input' \in [Threads -> SUBSET Made] BY DEF IInv, Typed
  <2>3. QED BY <2>1, <2>2 DEF IInv, Typed
<1>6. Stages' BY DEF IInv, Stages
<1>7. Drained'
  <2>1. Main \in Threads /\ Workers \subseteq Threads BY DEF Threads
  <2>2. QED BY <1>4, <2>1 DEF IInv, Drained
<1>8. Timely'
  <2>1. \A u \in Threads : \A f \in output'[u] : f.offset = 0 /\ f.at = currentTime
    BY <1>2 DEF IInv, Typed, Timely
  <2>2. Main \in Threads /\ Workers \subseteq Threads BY DEF Threads
  <2>3. QED BY <1>4, <2>1, <2>2 DEF IInv, Timely, Fresh, DueTime
<1>9. Outgoing' = Outgoing \cup E
  BY DEF IInv, Typed, Outgoing
<1>10. Waiting' = Waiting \ {<<t, e>>} /\ <<t, e>> \in Waiting
  BY DEF IInv, Typed, Waiting
<1>11. Finite'
  BY <1>3, <1>9, <1>10, FS_Union, FS_RemoveElement DEF IInv, Finite
<1>12. Accounting'
  <2>1. Cardinality(Waiting') = Cardinality(Waiting) - 1
    BY <1>10, FS_RemoveElement DEF IInv, Finite
  <2>2. Cardinality(Waiting) \in Nat /\ Cardinality(dropped) \in Nat /\ events * Cardinality(Threads) \in Nat
    BY FS_CardinalityType, ThreadsFinite DEF IInv, Typed, Finite
  <2>3. \A x, y, z, r, n \in Nat : x + y + z = r + n => (x + 1) + (y - 1) + z = r + n
    OBVIOUS
  <2>4. (processed + 1) + (Cardinality(Waiting) - 1) + Cardinality(dropped) =
          received + events * Cardinality(Threads)
    BY <2>2, <2>3 DEF IInv, Typed, Accounting
  <2>5. QED BY <2>1, <2>4 DEF Accounting
<1>13. QED BY <1>5, <1>6, <1>7, <1>8, <1>11, <1>12 DEF IInv

LEMMA ThreadDispatchMessagesInv ==
  ASSUME IInv, NEW t \in Threads, ThreadDispatchMessages(t) PROVE IInv'
<1>1. PICK e \in input[t] :
        /\ IF IsEvent(e) THEN Publish(t, e) ELSE Deliver(t, e)
        /\ input' = [input EXCEPT ![t] = @ \ {e}]
  BY DEF ThreadDispatchMessages, Heads
<1>2. e \in Made /\ e.id \in 1 .. MaxPosts
  BY DEF IInv, Typed, Made, Entry
<1>3. output = [output EXCEPT ![t] = @ \cup {}]
  BY DEF IInv, Typed
<1>4. CASE IsEvent(e)
  <2>1. /\ listening' \in [Threads -> SUBSET Sources]
        /\ handled' \in [1 .. MaxPosts -> Nat]
        /\ output' = output
    BY <1>1, <1>2, <1>4 DEF IInv, Typed, Publish
  <2>2. QED BY <1>1, <1>3, <2>1, DeliveredInv DEF ThreadDispatchMessages
<1>5. CASE ~ IsEvent(e)
  <2>1. listening' \in [Threads -> SUBSET Sources] /\ handled' \in [1 .. MaxPosts -> Nat]
    BY <1>1, <1>2, <1>5 DEF IInv, Typed, Deliver
  <2>2. PICK E : /\ E \in {{}, {[e EXCEPT !.at = currentTime, !.offset = 0]}}
                 /\ output' = [output EXCEPT ![t] = @ \cup E]
    BY <1>1, <1>3, <1>5 DEF Deliver
  <2>3. /\ input' = [input EXCEPT ![t] = @ \ {e}] /\ processed' = processed + 1
        /\ UNCHANGED <<stage, currentTime, context, future, posted, received, events, dropped>>
    BY <1>1 DEF ThreadDispatchMessages
  <2>4. QED BY ONLY IInv, t \in Threads, e \in input[t], <2>1, <2>2, <2>3, DeliveredInv
<1>6. QED BY <1>4, <1>5

\* Steps that only go on to another part of the tick.
LEMMA StagedInv ==
  ASSUME IInv, stage' \in [Threads -> {"idle", "drain", "update", "crashed"}],
         Stages', Drained',
         UNCHANGED <<currentTime, context, queues, listening, posted, counters, history>>
  PROVE  IInv'
<1>0. UNCHANGED <<currentTime, context, output, future, input, listening, posted, received,
                  processed, events, handled, dropped>>
  BY DEF queues, counters, history
<1>1. Typed' BY <1>0 DEF IInv, Typed
<1>2. Timely' BY <1>0 DEF IInv, Timely, Fresh, DueTime
<1>3. Outgoing' = Outgoing /\ Waiting' = Waiting BY <1>0 DEF Outgoing, Waiting
<1>4. Finite' /\ Accounting' BY <1>0, <1>3 DEF IInv, Finite, Accounting
<1>5. QED BY <1>1, <1>2, <1>4 DEF IInv

LEMMA CrashInv ==
  ASSUME IInv, NEW t \in Threads, Crash(t) PROVE IInv'
<1>1. stage' = [c \in Threads |-> "crashed"] /\ UNCHANGED queues
  BY DEF Crash
<1>2. Main \in Threads /\ Workers \subseteq Threads BY DEF Threads
<1>3. Stages' BY <1>1, <1>2 DEF Stages
<1>4. Drained' BY <1>1, <1>2 DEF Drained
<1>5. QED BY <1>1, <1>3, <1>4, StagedInv DEF Crash

LEMMA UpdateInv ==
  ASSUME IInv, NEW w \in Workers, StartUpdate(w) \/ EndUpdate(w) PROVE IInv'
<1>1. /\ stage[w] \in {"drain", "update"} /\ input[w] = {} /\ UNCHANGED <<currentTime, queues>>
      /\ stage' = [stage EXCEPT ![w] = "update"] \/ stage' = [stage EXCEPT ![w] = "idle"]
  BY DEF IInv, Drained, StartUpdate, EndUpdate
<1>2. Main \in Threads /\ Workers \subseteq Threads /\ w # Main BY BusAssumption DEF Threads
<1>3. stage' \in [Threads -> {"idle", "drain", "update", "crashed"}]
  BY <1>1 DEF IInv, Typed
<1>4. Stages' BY <1>1, <1>2 DEF IInv, Typed, Stages
<1>5. Drained' BY <1>1, <1>2 DEF IInv, Typed, Drained, queues
<1>6. QED BY <1>3, <1>4, <1>5, StagedInv DEF StartUpdate, EndUpdate

LEMMA StartServingInv ==
  ASSUME IInv, StartServing PROVE IInv'
<1>1. Main \in Threads /\ Workers \subseteq Threads /\ Main \notin Workers
  BY BusAssumption DEF Threads
<1>2. /\ \A t \in Threads : stage[t] = "idle"
      /\ stage' = [stage EXCEPT ![Main] = "update"] /\ currentTime < EndTick
      /\ UNCHANGED <<currentTime, queues>>
  BY DEF StartServing
<1>3. stage' \in [Threads -> {"idle", "drain", "update", "crashed"}]
  BY <1>2 DEF IInv, Typed
<1>4. Stages' BY <1>1, <1>2 DEF IInv, Typed, Stages
<1>5. Drained' BY <1>1, <1>2 DEF IInv, Typed, Drained, queues
<1>6. QED BY <1>3, <1>4, <1>5, StagedInv DEF StartServing

LEMMA NextTickInv ==
  ASSUME IInv, NextTick PROVE IInv'
<1>1. Main \in Threads /\ Workers \subseteq Threads /\ Main \notin Workers
  BY BusAssumption DEF Threads
<1>2. /\ stage[Main] = "drain" /\ input[Main] = {} /\ UNCHANGED <<currentTime, queues>>
      /\ stage' = [t \in Threads |->
           IF t \in Workers /\ currentTime < EndTick /\ currentTime % Step[t] = 0
           THEN "drain" ELSE "idle"]
  BY DEF NextTick
<1>3. stage' \in [Threads -> {"idle", "drain", "update", "crashed"}]
  BY <1>2
<1>4. Stages' BY <1>1, <1>2 DEF Stages
<1>5. Drained' BY <1>1, <1>2 DEF Drained, queues
<1>6. QED BY <1>3, <1>4, <1>5, StagedInv DEF NextTick

LEMMA StutteringInv ==
  ASSUME IInv, UNCHANGED vars PROVE IInv'
<1>1. context' \in [Handlers -> Threads \cup {None}] /\ listening' \in [Threads -> SUBSET Sources]
  BY DEF IInv, Typed, vars
<1>2. QED BY <1>1, RegisteredInv DEF vars

-----------------------------------------------------------------------------
(* DispatchMessages: what it distributes, and how many entries that makes. *)

Distributed == UNION {Due(t, currentTime + 1) : t \in Threads}

\* What is distributed is due now, and nothing else is.
LEMMA DistributedIsDue ==
  ASSUME Typed, Timely
  PROVE  /\ Distributed \subseteq Made /\ Distributed \subseteq Outgoing
         /\ \A e \in Distributed : DueTime(e) = currentTime + 1
         /\ \A t \in Threads : output[t] \subseteq Distributed
         /\ \A t \in Threads : \A e \in future[t] \ Distributed : currentTime + 1 < e.at + e.offset
<1>1. currentTime \in Nat BY BusAssumption DEF Typed
<1>2. \A e \in Made : e.at \in Nat /\ e.offset \in Nat BY DEF Made, Entry
<1>3. \A t \in Threads : output[t] \subseteq Made /\ future[t] \subseteq Made BY DEF Typed
<1>4. Distributed \subseteq Outgoing BY DEF Distributed, Outgoing, Due
<1>5. Distributed \subseteq Made BY <1>3 DEF Distributed, Due
<1>6. ASSUME NEW t \in Threads, NEW e \in Due(t, currentTime + 1)
      PROVE  DueTime(e) = currentTime + 1
  <2>1. CASE e \in output[t] BY <1>1, <2>1 DEF Timely, DueTime
  <2>2. CASE e \in future[t] /\ e.at + e.offset <= currentTime + 1
    BY <1>1, <1>2, <1>3, <2>2 DEF Timely, DueTime
  <2>3. QED BY <2>1, <2>2 DEF Due
<1>7. \A e \in Distributed : DueTime(e) = currentTime + 1
  BY <1>6 DEF Distributed
<1>8. \A t \in Threads : output[t] \subseteq Distributed BY DEF Distributed, Due
<1>9. \A t \in Threads : \A e \in future[t] \ Distributed : currentTime + 1 < e.at + e.offset
  BY <1>1, <1>2, <1>3 DEF Distributed, Due
<1>10. QED BY <1>4, <1>5, <1>7, <1>8, <1>9

\* The thread a message is for, if its destination has one.
Target(e) == IF e.onMain THEN Main ELSE context[e.dest]

LEMMA TargetsOf ==
  ASSUME Typed, NEW e \in Made
  PROVE  /\ IsEvent(e) => Targets(e) = Threads /\ Targets(e) # {}
         /\ ~IsEvent(e) => Target(e) \in Threads \cup {None} /\ Targets(e) = {Target(e)} \ {None}
<1>1. Main \in Threads /\ Main # None BY BusAssumption DEF Threads
<1>2. ~IsEvent(e) => context[e.dest] \in Threads \cup {None} BY DEF Typed, Made
<1>3. QED BY <1>1, <1>2 DEF Targets, Target

\* A message goes to one thread or is dropped, an event goes to all of them.
LEMMA DistributedCount ==
  ASSUME Typed, NEW D, D \subseteq Made, IsFiniteSet(D),
         NEW N, N = {p \in Threads \X D : p[1] \in Targets(p[2])},
         NEW X, X = {e \in D : Targets(e) = {}}
  PROVE  /\ IsFiniteSet(N) /\ IsFiniteSet(X)
         /\ Cardinality({e \in D : ~IsEvent(e)}) \in Nat
         /\ Cardinality({e \in D : IsEvent(e)}) \in Nat
         /\ Cardinality(N) + Cardinality(X) =
              Cardinality({e \in D : ~IsEvent(e)})
              + Cardinality({e \in D : IsEvent(e)}) * Cardinality(Threads)
<1> DEFINE M == {e \in D : ~IsEvent(e)}
           V == {e \in D : IsEvent(e)}
           S == M \ X
           P == {p \in Threads \X S : p[1] = Target(p[2])}
<1>1. ~ None \in Threads BY BusAssumption
<1>2. X \subseteq M BY TargetsOf
<1>3. \A e \in S : Target(e) \in Threads /\ Targets(e) = {Target(e)}
  BY TargetsOf
<1>4. N = (Threads \X V) \cup P
  <2>1. ASSUME NEW t \in Threads, NEW e \in D
        PROVE  <<t, e>> \in N <=> <<t, e>> \in (Threads \X V) \cup P
    <3>1. CASE e \in V BY <3>1, TargetsOf
    <3>2. CASE e \in S BY <1>3, <3>2
    <3>3. CASE e \in X BY <1>2, <3>3
    <3>4. QED BY <3>1, <3>2, <3>3
  <2>2. N \subseteq Threads \X D /\ (Threads \X V) \cup P \subseteq Threads \X D
    OBVIOUS
  <2>3. QED BY <2>1, <2>2
<1>5. /\ IsFiniteSet(M) /\ IsFiniteSet(V) /\ IsFiniteSet(X) /\ IsFiniteSet(S)
  BY <1>2, FS_Subset
<1>6. IsFiniteSet(P) /\ Cardinality(P) = Cardinality(S)
  <2> DEFINE f == [e \in S |-> <<Target(e), e>>]
  <2>1. f \in [S -> P] BY <1>3
  <2>2. \A a, b \in S : f[a] = f[b] => a = b OBVIOUS
  <2>3. \A p \in P : \E e \in S : f[e] = p
    <3> TAKE p \in P
    <3>1. PICK t \in Threads, e \in S : p = <<t, e>> /\ t = Target(e) OBVIOUS
    <3>2. f[e] = p BY <3>1
    <3>3. QED BY <3>2
  <2> HIDE DEF f
  <2>4. IsInjective(f) BY ONLY <2>1, <2>2 DEF IsInjective
  <2>5. f \in Bijection(S, P)
    BY ONLY <2>1, <2>3, <2>4 DEF Bijection, Injection, Surjection
  <2>6. ExistsBijection(S, P) BY <2>5 DEF ExistsBijection
  <2>7. QED BY <1>5, <2>6, FS_Bijection
<1>7. Cardinality(N) = Cardinality(Threads) * Cardinality(V) + Cardinality(S)
  <2>1. IsFiniteSet(Threads \X V) /\ Cardinality(Threads \X V) = Cardinality(Threads) * Cardinality(V)
    BY <1>5, ThreadsFinite, FS_Product
  <2>2. (Threads \X V) \cap P = {} OBVIOUS
  <2>3. Cardinality(N) = Cardinality(Threads \X V) + Cardinality(P) - Cardinality({})
    BY ONLY <1>4, <1>6, <2>1, <2>2, FS_Union
  <2>4. Cardinality(P) \in Nat /\ Cardinality(Threads \X V) \in Nat /\ Cardinality({}) = 0
    BY <1>6, <2>1, FS_CardinalityType, FS_EmptySet
  <2>5. QED BY <1>6, <2>1, <2>3, <2>4
<1>8. IsFiniteSet(N)
  <2>1. IsFiniteSet(Threads \X V) BY <1>5, ThreadsFinite, FS_Product
  <2>2. QED BY ONLY <1>4, <1>6, <2>1, FS_Union
<1>9. Cardinality(M) = Cardinality(S) + Cardinality(X)
  <2>1. M = S \cup X /\ S \cap X = {} BY <1>2
  <2>2. Cardinality(M) = Cardinality(S) + Cardinality(X) - Cardinality({})
    BY <1>5, <2>1, FS_Union
  <2>3. QED BY <1>5, <2>2, FS_EmptySet, FS_CardinalityType
<1>10. /\ Cardinality(M) \in Nat /\ Cardinality(V) \in Nat /\ Cardinality(S) \in Nat
       /\ Cardinality(X) \in Nat
  BY <1>5, FS_CardinalityType
<1>11. Cardinality(Threads) * Cardinality(V) = Cardinality(V) * Cardinality(Threads)
       /\ Cardinality(V) * Cardinality(Threads) \in Nat
  BY <1>10, ThreadsFinite
<1> HIDE DEF M, V, S, P
<1>12. Cardinality(N) + Cardinality(X) = Cardinality(M) + Cardinality(V) * Cardinality(Threads)
  BY <1>7, <1>9, <1>10, <1>11
<1>13. QED BY <1>5, <1>8, <1>10, <1>12 DEF M, V

\* An entry that waits for a worker while main distributes again: the tick was none of
\* its group's, so the next one comes within the granularity still.
LEMMA StaysFresh ==
  ASSUME NEW n \in Nat, NEW d \in Nat, NEW s \in Nat \ {0},
         d <= n, n - d < n % s
  PROVE  /\ d <= n + 1 /\ n + 1 - d < s
         /\ (n + 1) % s # 0 => n + 1 - d < (n + 1) % s
<1> DEFINE r == n % s
           q == (n + 1) % s
<1>1. r \in 0 .. s - 1 /\ q = IF r = s - 1 THEN 0 ELSE r + 1
  BY ONLY NextRemainder, n \in Nat, s \in Nat \ {0}
<1>2. d <= n /\ n - d < r OBVIOUS
<1> HIDE DEF r, q
<1>3. d <= n + 1 /\ n + 1 - d < s /\ (q # 0 => n + 1 - d < q)
  BY ONLY <1>1, <1>2, n \in Nat, d \in Nat, s \in Nat \ {0}
<1>4. QED BY <1>3 DEF r, q

LEMMA DispatchMessagesInv ==
  ASSUME IInv, DispatchMessages PROVE IInv'
<1> DEFINE D == Distributed
           N == {p \in Threads \X D : p[1] \in Targets(p[2])}
           X == {e \in D : Targets(e) = {}}
<1>1. /\ stage[Main] = "update" /\ currentTime' = currentTime + 1
      /\ input' = [t \in Threads |-> input[t] \cup {e \in D : t \in Targets(e)}]
      /\ output' = [t \in Threads |-> {}]
      /\ future' = [t \in Threads |-> future[t] \ D]
      /\ received' = received + Cardinality({e \in D : ~IsEvent(e)})
      /\ events' = events + Cardinality({e \in D : IsEvent(e)})
      /\ dropped' = dropped \cup X
      /\ stage' = [stage EXCEPT ![Main] = "drain"]
      /\ UNCHANGED <<context, listening, posted, processed, handled>>
  BY DEF DispatchMessages, Distributed
<1>2. /\ D \subseteq Made /\ D \subseteq Outgoing
      /\ \A e \in D : DueTime(e) = currentTime + 1
      /\ \A t \in Threads : output[t] \subseteq D
      /\ \A t \in Threads : \A e \in future[t] \ D : currentTime + 1 < e.at + e.offset
  BY DistributedIsDue DEF IInv
<1>3. IsFiniteSet(D) BY <1>2, FS_Subset DEF IInv, Finite
<1>4. /\ IsFiniteSet(N) /\ IsFiniteSet(X)
      /\ Cardinality({e \in D : ~IsEvent(e)}) \in Nat
      /\ Cardinality({e \in D : IsEvent(e)}) \in Nat
      /\ Cardinality(N) + Cardinality(X) =
           Cardinality({e \in D : ~IsEvent(e)})
           + Cardinality({e \in D : IsEvent(e)}) * Cardinality(Threads)
  BY <1>2, <1>3, DistributedCount DEF IInv
<1>5. /\ currentTime \in Nat /\ currentTime < EndTick /\ currentTime' \in 0 .. EndTick
      /\ currentTime' = currentTime + 1
      /\ \A w \in Workers : stage[w] = "idle"
  BY <1>1, BusAssumption DEF IInv, Typed, Stages
<1>6. /\ Main \in Threads /\ Workers \subseteq Threads /\ Main \notin Workers
      /\ \A t \in Threads : t = Main \/ t \in Workers
  BY BusAssumption DEF Threads
<1> HIDE DEF D, N, X
<1>7. Typed'
  <2>1. input' \in [Threads -> SUBSET Made] BY <1>1, <1>2 DEF IInv, Typed
  <2>2. future' \in [Threads -> SUBSET Made] /\ output' \in [Threads -> SUBSET Made]
    BY <1>1 DEF IInv, Typed
  <2>3. dropped' \in SUBSET Made BY <1>1, <1>2 DEF IInv, Typed, X
  <2>4. received' \in Nat /\ events' \in Nat BY <1>1, <1>4 DEF IInv, Typed
  <2>5. QED BY <1>1, <1>5, <2>1, <2>2, <2>3, <2>4 DEF IInv, Typed
<1>8. Stages' BY <1>1, <1>5, <1>6 DEF IInv, Typed, Stages
<1>9. Drained'
  <2>1. stage'[Main] = "drain" /\ \A w \in Workers : stage'[w] = "idle"
    BY <1>1, <1>5, <1>6 DEF IInv, Typed
  <2>2. QED BY <2>1 DEF Drained
<1>10. Timely'
  <2>1. \A e : DueTime(e)' = DueTime(e) BY DEF DueTime
  <2>2. \A t \in Threads : \A e \in future'[t] :
          e.offset > 0 /\ e.at <= currentTime' /\ currentTime' < e.at + e.offset
    <3> TAKE t \in Threads
    <3> TAKE e \in future'[t]
    <3>1. e \in future[t] \ D /\ e.at \in Nat BY <1>1 DEF IInv, Typed, Made, Entry
    <3>2. QED BY <1>1, <1>2, <1>5, <3>1 DEF IInv, Timely
  <2>3. \A e \in input'[Main] : DueTime(e) = currentTime'
    <3>1. input[Main] = {} BY <1>1 DEF IInv, Drained
    <3>2. QED BY <1>1, <1>2, <1>6, <3>1
  <2>4. ASSUME NEW w \in Workers, NEW e \in input'[w] PROVE Fresh(w, e)'
    <3>1. w \in Threads /\ Step[w] \in Nat \ {0} BY <1>6, BusAssumption
    <3>2. CASE e \in D
      <4>1. currentTime' - DueTime(e) = 0 BY <1>1, <1>2, <1>5, <3>2
      <4>2. currentTime' % Step[w] \in 0 .. Step[w] - 1
        <5>1. currentTime' \in Nat BY <1>1, <1>5
        <5>2. QED BY ONLY <3>1, <5>1, NextRemainder
      <4>3. QED BY <1>1, <1>2, <1>5, <2>1, <3>1, <3>2, <4>1, <4>2 DEF Fresh
    <3>3. CASE e \notin D
      <4>1. e \in input[w] /\ e \in Made BY <1>1, <3>1, <3>3 DEF IInv, Typed
      <4>2. currentTime % Step[w] # 0
        BY <1>1, <1>5, <4>1 DEF IInv, Drained
      <4>3. DueTime(e) \in Nat BY <4>1 DEF DueTime, Made, Entry
      <4>4. DueTime(e) <= currentTime /\ currentTime - DueTime(e) < currentTime % Step[w]
        BY <4>1, <4>2 DEF IInv, Timely, Fresh
      <4>5. /\ DueTime(e) <= currentTime + 1 /\ currentTime + 1 - DueTime(e) < Step[w]
            /\ (currentTime + 1) % Step[w] # 0 =>
                 currentTime + 1 - DueTime(e) < (currentTime + 1) % Step[w]
        BY ONLY <1>5, <3>1, <4>3, <4>4, StaysFresh
      <4>6. /\ DueTime(e) <= currentTime' /\ currentTime' - DueTime(e) < Step[w]
            /\ currentTime' % Step[w] # 0 => currentTime' - DueTime(e) < currentTime' % Step[w]
        BY ONLY <1>5, <3>1, <4>3, <4>5
      <4>7. QED BY <2>1, <4>6 DEF Fresh
    <3>4. QED BY <3>2, <3>3
  <2>5. \A e \in dropped' : DueTime(e) <= currentTime'
    <3> TAKE e \in dropped'
    <3>1. CASE e \in X BY <1>1, <1>2, <1>5, <3>1 DEF X
    <3>2. CASE e \in dropped
      <4>1. DueTime(e) \in Nat BY <3>2 DEF IInv, Typed, DueTime, Made, Entry
      <4>2. QED BY <1>1, <1>5, <3>2, <4>1 DEF IInv, Timely
    <3>3. QED BY <1>1, <3>1, <3>2
  <2>6. QED BY <1>1, <2>1, <2>2, <2>3, <2>4, <2>5 DEF Timely
<1>11. Waiting' = Waiting \cup N /\ Waiting \cap N = {}
  <2>1. \A t \in Threads : input[t] \cap D = {}
    <3> SUFFICES ASSUME NEW t \in Threads, NEW e \in input[t], e \in D PROVE FALSE
      OBVIOUS
    <3>1. DueTime(e) <= currentTime
      BY <1>5, <1>6 DEF IInv, Timely, Fresh
    <3>2. QED BY <1>2, <1>5, <3>1
  <2>2. \A t \in Threads : input'[t] = input[t] \cup {e \in D : t \in Targets(e)}
    BY <1>1
  <2>3. Waiting' = Waiting \cup N BY <2>2 DEF Waiting, N
  <2>4. QED BY <2>1, <2>3 DEF Waiting, N
<1>12. dropped \cap X = {}
  BY <1>2, <1>5 DEF IInv, Timely, X
<1>13. Finite'
  <2>1. Outgoing' \subseteq Outgoing BY <1>1 DEF Outgoing
  <2>2. QED BY <1>1, <1>4, <1>11, <2>1, FS_Subset, FS_Union DEF IInv, Finite
<1>14. Accounting'
  <2> DEFINE w == Cardinality(Waiting)
             d == Cardinality(dropped)
             n == Cardinality(N)
             x == Cardinality(X)
             m == Cardinality({e \in D : ~IsEvent(e)})
             v == Cardinality({e \in D : IsEvent(e)})
             k == Cardinality(Threads)
  <2>1. w \in Nat /\ d \in Nat /\ n \in Nat /\ x \in Nat /\ m \in Nat /\ v \in Nat /\ k \in Nat
    BY <1>4, FS_CardinalityType, ThreadsFinite DEF IInv, Finite
  <2>2. Cardinality(Waiting') = w + n
    <3>1. Cardinality(Waiting') = w + n - Cardinality({})
      BY <1>4, <1>11, FS_Union DEF IInv, Finite
    <3>2. QED BY <2>1, <3>1, FS_EmptySet
  <2>3. Cardinality(dropped') = d + x
    <3>1. Cardinality(dropped') = d + x - Cardinality({})
      BY <1>1, <1>4, <1>12, FS_Union DEF IInv, Finite
    <3>2. QED BY <2>1, <3>1, FS_EmptySet
  <2>4. n + x = m + v * k BY <1>4
  <2>5. processed + w + d = received + events * k BY DEF IInv, Accounting
  <2>6. processed' = processed /\ received' = received + m /\ events' = events + v
    BY <1>1
  <2>7. processed \in Nat /\ received \in Nat /\ events \in Nat BY DEF IInv, Typed
  <2>8. Accounting' <=> processed' + Cardinality(Waiting') + Cardinality(dropped') =
                          received' + events' * k
    BY DEF Accounting
  <2> HIDE DEF w, d, n, x, m, v, k
  <2>9. events * k \in Nat /\ v * k \in Nat /\ (events + v) * k = events * k + v * k
    BY <2>1, <2>7
  <2>10. processed + (w + n) + (d + x) = received + m + (events + v) * k
    BY <2>1, <2>4, <2>5, <2>7, <2>9
  <2>11. QED BY <2>2, <2>3, <2>6, <2>8, <2>10
<1>15. QED BY <1>7, <1>8, <1>9, <1>10, <1>13, <1>14 DEF IInv

LEMMA StepInv == IInv /\ [Next]_vars => IInv'
<1> SUFFICES ASSUME IInv, [Next]_vars PROVE IInv'
  OBVIOUS
<1>1. ASSUME NEW t \in Threads, ThreadStep(t) PROVE IInv'
  BY <1>1, PostMessageInv, SendInstantaneousMessageInv, PublishEventInv, AgentDiesInv,
     RegistrationInv, ThreadDispatchMessagesInv, CrashInv DEF ThreadStep
<1>2. ASSUME NEW w \in Workers, StartUpdate(w) \/ EndUpdate(w) PROVE IInv'
  BY <1>2, UpdateInv
<1>3. CASE StartServing BY <1>3, StartServingInv
<1>4. CASE DispatchMessages BY <1>4, DispatchMessagesInv
<1>5. CASE NextTick BY <1>5, NextTickInv
<1>6. CASE UNCHANGED vars BY <1>6, StutteringInv
<1>7. QED BY <1>1, <1>2, <1>3, <1>4, <1>5, <1>6 DEF Next, Finished

LEMMA Inductive == Spec => []IInv
<1>1. Init => IInv BY InitInv
<1>2. IInv /\ [Next]_vars => IInv' BY StepInv
<1>3. QED BY <1>1, <1>2, PTL DEF Spec

\* The types of the variables; timers wait in the future lists and nowhere else.
THEOREM TypeCorrect == Spec => []TypeOK
<1>1. IInv => TypeOK BY TypedIsType DEF IInv
<1>2. QED BY <1>1, Inductive, PTL

\* Whatever the numbers of threads, handlers, messages and ticks, and in all three
\* simulators: no entry is distributed before or after the dispatch its offset asks
\* for, and none waits in a thread's input queue longer than to the thread's next
\* update, whatever the granularity of its group.
THEOREM OnTimeAlways == Spec => []OnTime
<1>1. IInv => OnTime BY TimelyIsOnTime DEF IInv
<1>2. QED BY <1>1, Inductive, PTL

\* The bus loses no entry and makes none up: what was received, and every event for
\* every thread, was processed, still waits, or was dropped for want of a context.
THEOREM AccountingAlways == Spec => []Accounting
<1>1. IInv => Accounting BY DEF IInv
<1>2. QED BY <1>1, Inductive, PTL

-----------------------------------------------------------------------------
(* Outside mid-term: handlers stay with their thread, and messages reach them. *)

Homes ==
  /\ \A t \in Threads : \A e \in input[t] :
       ~IsEvent(e) => IF e.onMain THEN t = Main ELSE context[e.dest] = t
  /\ stage[Main] # "crashed"

Queued(e, q, t) ==
  t \in Threads /\ \/ q = "output" /\ e \in output[t]
                   \/ q = "future" /\ e \in future[t]
                   \/ q = "input" /\ e \in input[t]

\* A message is in one queue of one thread, no other entry has its id, and it has not
\* been handled; the ids after the last one posted are free.
Once ==
  /\ \A e, q, t : Queued(e, q, t) => e.id <= posted /\ (~IsEvent(e) => handled[e.id] = 0)
  /\ \A m \in 1 .. MaxPosts : m > posted => handled[m] = 0
  /\ \A e, q, t, f, r, u :
       Queued(e, q, t) /\ Queued(f, r, u) /\ e.id = f.id /\ ~IsEvent(e)
         => e = f /\ q = r /\ t = u

LEMMA HomesIsInputsHome == Homes => InputsHome
BY DEF Homes, InputsHome, Crashed

LEMMA OnceIsAtMostOnce == Once => AtMostOnce
<1> SUFFICES ASSUME Once, NEW t \in Threads, NEW e \in output[t] \cup future[t] \cup input[t],
                    ~IsEvent(e)
             PROVE  handled[e.id] = 0
  BY DEF AtMostOnce
<1>1. Queued(e, "output", t) \/ Queued(e, "future", t) \/ Queued(e, "input", t)
  BY DEF Queued
<1>2. QED BY <1>1 DEF Once

LEMMA InitHomes == Init => Homes /\ Once
<1> SUFFICES ASSUME Init PROVE Homes /\ Once
  OBVIOUS
<1>1. Main \in Threads BY DEF Threads
<1>2. Homes BY <1>1 DEF Init, Homes
<1>3. \A e, q, t : ~Queued(e, q, t) BY DEF Init, Queued
<1>4. Once BY <1>3 DEF Init, Once
<1>5. QED BY <1>2, <1>4

\* New entries have ids of their own.
LEMMA PostedOnce ==
  ASSUME IInv, Once, NEW t \in Threads, NEW E, E \subseteq Made,
         \A e \in E : e.id > posted /\ e.id <= posted', \A e, f \in E : e.id = f.id => e = f,
         \/ output' = [output EXCEPT ![t] = @ \cup E] /\ future' = future
         \/ future' = [future EXCEPT ![t] = @ \cup E] /\ output' = output,
         posted' \in 0 .. MaxPosts, posted < posted', input' = input, handled' = handled
  PROVE  Once'
<1>1. PICK p \in {"output", "future"} :
        \A e, q, u : Queued(e, q, u)' <=> \/ Queued(e, q, u)
                                          \/ q = p /\ u = t /\ e \in E
  <2>1. CASE output' = [output EXCEPT ![t] = @ \cup E] /\ future' = future
    <3>1. \A e, q, u : Queued(e, q, u)' <=> \/ Queued(e, q, u)
                                            \/ q = "output" /\ u = t /\ e \in E
      BY <2>1 DEF IInv, Typed, Queued
    <3>2. QED BY <3>1
  <2>2. CASE future' = [future EXCEPT ![t] = @ \cup E] /\ output' = output
    <3>1. \A e, q, u : Queued(e, q, u)' <=> \/ Queued(e, q, u)
                                            \/ q = "future" /\ u = t /\ e \in E
      BY <2>2 DEF IInv, Typed, Queued
    <3>2. QED BY <3>1
  <2>3. QED BY <2>1, <2>2
<1>2. /\ posted \in Nat /\ posted' \in Nat
      /\ \A e \in Made : e.id \in 1 .. MaxPosts
      /\ \A e, q, u : Queued(e, q, u) => e \in Made
  BY BusAssumption DEF IInv, Typed, Queued, Made, Entry
<1>3. \A e, q, u : Queued(e, q, u)' => e.id <= posted' /\ (~IsEvent(e) => handled[e.id] = 0)
  BY <1>1, <1>2 DEF Once
<1>4. \A m \in 1 .. MaxPosts : m > posted' => handled[m] = 0
  BY <1>2 DEF Once
<1>5. \A e, q, u, f, r, v :
        Queued(e, q, u)' /\ Queued(f, r, v)' /\ e.id = f.id /\ ~IsEvent(e) => e = f /\ q = r /\ u = v
  <2> SUFFICES ASSUME NEW e, NEW q, NEW u, NEW f, NEW r, NEW v,
                      Queued(e, q, u)', Queued(f, r, v)', e.id = f.id, ~IsEvent(e)
               PROVE  e = f /\ q = r /\ u = v
    OBVIOUS
  <2>1. CASE Queued(e, q, u) /\ Queued(f, r, v) BY <2>1 DEF Once
  <2>2. CASE e \in E /\ Queued(f, r, v) BY <1>2, <2>2 DEF Once
  <2>3. CASE Queued(e, q, u) /\ f \in E BY <1>2, <2>3 DEF Once
  <2>4. CASE e \in E /\ f \in E /\ q = p /\ r = p /\ u = t /\ v = t BY <2>4
  <2>5. QED BY <1>1, <2>1, <2>2, <2>3, <2>4
<1>6. QED BY <1>3, <1>4, <1>5 DEF Once, IsEvent

\* Nothing is posted, moved or handled.
LEMMA SameOnce ==
  ASSUME Once, UNCHANGED <<output, future, input, posted, handled>> PROVE Once'
<1>1. \A e, q, t : Queued(e, q, t)' <=> Queued(e, q, t) BY DEF Queued
<1>2. QED BY <1>1 DEF Once, IsEvent

LEMMA SameHomes ==
  ASSUME Homes, UNCHANGED <<input, context, stage>> PROVE Homes'
BY DEF Homes, IsEvent

LEMMA PostingHomes ==
  ASSUME IInv, Homes, Once, NEW t \in Threads,
         \/ \E s \in Shapes : PostMessage(t, s)
         \/ \E s \in Topics : PublishEvent(t, s)
         \/ \E h \in Handlers \cap Topics : AgentDies(t, h)
  PROVE  Homes' /\ Once'
<1>1. UNCHANGED <<input, context, stage, handled>>
  BY DEF PostMessage, PublishEvent, AgentDies, history
<1>2. Homes' BY <1>1, SameHomes
<1>3. posted \in Nat BY BusAssumption DEF IInv, Typed
<1>4. ASSUME NEW e \in Made, e.id = posted + 1, posted < MaxPosts, posted' = posted + 1, Put(t, e)
      PROVE  Once'
  <2>1. posted' \in 0 .. MaxPosts /\ posted < posted' /\ posted + 1 > posted /\ posted + 1 <= posted'
    BY <1>3, <1>4, BusAssumption
  <2>2. \/ output' = [output EXCEPT ![t] = @ \cup {e}] /\ future' = future
        \/ future' = [future EXCEPT ![t] = @ \cup {e}] /\ output' = output
    BY <1>4 DEF Put
  <2>3. /\ {e} \subseteq Made /\ \A f \in {e} : f.id > posted /\ f.id <= posted'
        /\ \A f, g \in {e} : f.id = g.id => f = g
    BY <1>4, <2>1
  <2>4. QED BY ONLY IInv, Once, t \in Threads, <1>1, <2>1, <2>2, <2>3, PostedOnce
<1>5. ASSUME NEW s \in Shapes, PostMessage(t, s) PROVE Once'
  <2>1. posted + 1 \in 1 .. MaxPosts BY <1>5, NextPost DEF IInv, PostMessage
  <2>2. Message(posted + 1, s) \in Made /\ Message(posted + 1, s).id = posted + 1
    BY <2>1, EntryMade DEF IInv
  <2>3. QED BY <1>4, <1>5, <2>2 DEF PostMessage
<1>6. ASSUME NEW s \in Topics, PublishEvent(t, s) PROVE Once'
  <2>1. posted + 1 \in 1 .. MaxPosts BY <1>6, NextPost DEF IInv, PublishEvent
  <2>2. s \in Sources BY BusAssumption DEF Sources
  <2>3. PublishEntry(posted + 1, s) \in Made /\ PublishEntry(posted + 1, s).id = posted + 1
    BY <2>1, <2>2, EntryMade DEF IInv
  <2>4. QED BY <1>4, <1>6, <2>3 DEF PublishEvent
<1>7. ASSUME NEW h \in Handlers \cap Topics, AgentDies(t, h) PROVE Once'
  <2>1. /\ posted + 1 \in 1 .. MaxPosts /\ posted + 2 \in 1 .. MaxPosts
        /\ posted' = posted + 2 /\ posted' \in 0 .. MaxPosts
    BY <1>7, BusAssumption DEF IInv, Typed, AgentDies
  <2> DEFINE p == PublishEntry(posted + 1, h)
             u == UnsubscribeEntry(posted + 2, h)
  <2>2. h \in Sources BY DEF Sources
  <2>3. p \in Made /\ p.id = posted + 1 /\ u \in Made /\ u.id = posted + 2
    BY <2>1, <2>2, EntryMade DEF IInv
  <2>4. output' = [output EXCEPT ![t] = @ \cup {p, u}] /\ future' = future
    BY <1>7 DEF AgentDies
  <2> HIDE DEF p, u
  <2>5. /\ {p, u} \subseteq Made /\ \A f \in {p, u} : f.id > posted /\ f.id <= posted'
        /\ \A f, g \in {p, u} : f.id = g.id => f = g
    BY <1>3, <2>1, <2>3
  <2>6. posted < posted' BY <1>3, <2>1
  <2>7. QED BY ONLY IInv, Once, t \in Threads, <1>1, <2>1, <2>4, <2>5, <2>6, PostedOnce
<1>8. QED BY <1>2, <1>5, <1>6, <1>7

\* A message handled at once is not queued: its id is new.
LEMMA SendInstantaneousMessageHomes ==
  ASSUME IInv, Homes, Once, NEW t \in Threads, NEW s \in Shapes, SendInstantaneousMessage(t, s)
  PROVE  Homes' /\ Once'
<1>1. /\ UNCHANGED <<input, output, future, context, stage>>
      /\ posted' = posted + 1 /\ posted \in Nat /\ posted + 1 \in 1 .. MaxPosts
      /\ handled' = [handled EXCEPT ![posted + 1] = @ + 1]
  BY NextPost, BusAssumption DEF IInv, Typed, SendInstantaneousMessage, queues
<1>2. Homes' BY <1>1, SameHomes
<1>3. \A e, q, u : Queued(e, q, u)' <=> Queued(e, q, u) BY <1>1 DEF Queued
<1>4. \A e, q, u : Queued(e, q, u) => e.id \in 1 .. MaxPosts
  BY DEF IInv, Typed, Queued, Made, Entry
<1>5. \A m \in 1 .. MaxPosts : m # posted + 1 => handled'[m] = handled[m]
  BY <1>1 DEF IInv, Typed
<1>6. Once' BY <1>1, <1>3, <1>4, <1>5 DEF Once, IsEvent
<1>7. QED BY <1>2, <1>6

\* A worker unregisters a handler when its own queue is empty, and no other queue has
\* messages for it.
LEMMA RegistrationHomes ==
  ASSUME Mode # "medium", IInv, Homes, Once, NEW t \in Threads,
         \/ \E s \in Topics : SubscribeEvent(t, s)
         \/ \E h \in Handlers : UnRegisterHandler(t, h)
         \/ \E h \in Handlers, new \in Threads : ReRegisterHandler(t, h, new)
  PROVE  Homes' /\ Once'
<1>1. UNCHANGED <<input, output, future, stage, posted, handled>>
  BY DEF SubscribeEvent, UnRegisterHandler, ReRegisterHandler, queues, history
<1>2. Once' BY <1>1, SameOnce
<1>3. ASSUME NEW s \in Topics, SubscribeEvent(t, s) PROVE Homes'
  BY <1>1, <1>3, SameHomes DEF SubscribeEvent
<1>4. ASSUME NEW h \in Handlers, UnRegisterHandler(t, h) PROVE Homes'
  <2>1. t \in Workers /\ context[h] = t /\ stage[t] = "update"
    BY <1>4 DEF UnRegisterHandler, Running, Threads
  <2>2. input[t] = {} BY <2>1 DEF IInv, Drained
  <2>3. ASSUME NEW u \in Threads, NEW e \in input[u], ~IsEvent(e), ~e.onMain
        PROVE  context'[e.dest] = u
    <3>1. context[e.dest] = u BY <2>3 DEF Homes
    <3>2. e.dest \in Handlers BY <2>3 DEF IInv, Typed, Made
    <3>3. e.dest # h BY <2>1, <2>2, <3>1
    <3>4. QED BY <1>4, <3>1, <3>2, <3>3 DEF IInv, Typed, UnRegisterHandler
  <2>4. QED BY <1>1, <2>3 DEF Homes, IsEvent
<1>5. QED BY <1>2, <1>3, <1>4 DEF ReRegisterHandler

\* Every message is with the thread of its destination: none is fatal or forwarded.
LEMMA NotMoved ==
  ASSUME Homes, NEW t \in Threads, NEW e \in input[t] PROVE ~Moved(t, e)
BY DEF Homes, Moved

LEMMA ThreadDispatchMessagesHomes ==
  ASSUME IInv, Homes, Once, NEW t \in Threads, ThreadDispatchMessages(t)
  PROVE  Homes' /\ Once'
<1>1. PICK e \in input[t] :
        /\ IF IsEvent(e) THEN Publish(t, e) ELSE Deliver(t, e)
        /\ input' = [input EXCEPT ![t] = @ \ {e}]
  BY DEF ThreadDispatchMessages, Heads
<1>2. /\ output' = output /\ handled' \in {handled, [handled EXCEPT ![e.id] = @ + 1]}
      /\ UNCHANGED <<future, posted, context, stage>>
  BY <1>1, NotMoved DEF Publish, Deliver, ThreadDispatchMessages
<1>3. Homes'
  <2>1. \A u \in Threads : input'[u] \subseteq input[u] BY <1>1 DEF IInv, Typed
  <2>2. QED BY <1>2, <2>1 DEF Homes, IsEvent
<1>4. Queued(e, "input", t) BY DEF Queued
<1>5. \A f, q, u : Queued(f, q, u)' <=> Queued(f, q, u) /\ ~ (f = e /\ q = "input" /\ u = t)
  BY <1>1, <1>2 DEF IInv, Typed, Queued
<1>6. \A f, q, u : Queued(f, q, u) => f.id \in 1 .. MaxPosts
  BY DEF IInv, Typed, Queued, Made, Entry
<1>7. \A m \in 1 .. MaxPosts : m # e.id => handled'[m] = handled[m]
  BY <1>2 DEF IInv, Typed
<1>8. \A f, q, u : Queued(f, q, u)' => f.id <= posted' /\ (~IsEvent(f) => handled'[f.id] = 0)
  <2> SUFFICES ASSUME NEW f, NEW q, NEW u, Queued(f, q, u)'
               PROVE  f.id <= posted /\ (~IsEvent(f) => handled'[f.id] = 0)
    BY <1>2
  <2>1. Queued(f, q, u) /\ ~ (f = e /\ q = "input" /\ u = t) BY <1>5
  <2>2. ~IsEvent(f) => f.id # e.id BY <1>4, <2>1 DEF Once
  <2>3. QED BY <1>6, <1>7, <2>1, <2>2 DEF Once
<1>9. \A m \in 1 .. MaxPosts : m > posted' => handled'[m] = 0
  <2>1. e.id <= posted BY <1>4 DEF Once
  <2>2. posted \in Nat /\ e.id \in Nat BY <1>4, <1>6, BusAssumption DEF IInv, Typed
  <2>3. QED BY <1>2, <1>7, <2>1, <2>2 DEF Once
<1>10. Once'
  <2>1. \A f, q, u, g, r, v :
          Queued(f, q, u)' /\ Queued(g, r, v)' /\ f.id = g.id /\ ~IsEvent(f) => f = g /\ q = r /\ u = v
    BY <1>5 DEF Once
  <2>2. QED BY <1>8, <1>9, <2>1 DEF Once, IsEvent
<1>11. QED BY <1>3, <1>10

LEMMA CrashHomes ==
  ASSUME Homes, NEW t \in Threads PROVE ~Crash(t)
BY NotMoved DEF Crash, Heads, Fatal

LEMMA StagedHomes ==
  ASSUME IInv, Homes, Once,
         \/ \E w \in Workers : StartUpdate(w) \/ EndUpdate(w)
         \/ StartServing
         \/ NextTick
  PROVE  Homes' /\ Once'
<1>1. UNCHANGED <<input, output, future, context, posted, handled>>
  BY DEF StartUpdate, EndUpdate, StartServing, NextTick, queues, history
<1>2. Main \in Threads /\ Main \notin Workers BY BusAssumption DEF Threads
<1>3. stage'[Main] # "crashed"
  BY <1>2 DEF IInv, Typed, Homes, StartUpdate, EndUpdate, StartServing, NextTick
<1>4. QED BY <1>1, <1>3, SameOnce DEF Homes, IsEvent

\* A message moves from its poster's queue to the one input queue of its destination.
LEMMA DispatchMessagesHomes ==
  ASSUME IInv, Homes, Once, DispatchMessages PROVE Homes' /\ Once'
<1> DEFINE D == Distributed
<1>1. /\ stage[Main] = "update"
      /\ input' = [t \in Threads |-> input[t] \cup {e \in D : t \in Targets(e)}]
      /\ output' = [t \in Threads |-> {}]
      /\ future' = [t \in Threads |-> future[t] \ D]
      /\ stage' = [stage EXCEPT ![Main] = "drain"]
      /\ UNCHANGED <<context, posted, handled>>
  BY DEF DispatchMessages, Distributed
<1>2. D \subseteq Made /\ D \subseteq Outgoing BY DistributedIsDue DEF IInv
<1> HIDE DEF D
<1>3. Homes'
  <2>1. Main \in Threads BY DEF Threads
  <2>2. stage'[Main] # "crashed" BY <1>1, <2>1 DEF IInv, Typed
  <2>3. ASSUME NEW t \in Threads, NEW e \in input'[t], ~IsEvent(e)
        PROVE  IF e.onMain THEN t = Main ELSE context[e.dest] = t
    <3>1. CASE e \in input[t] BY <2>3, <3>1 DEF Homes
    <3>2. CASE t \in Targets(e) BY <2>3, <3>2 DEF Targets
    <3>3. QED BY <1>1, <3>1, <3>2
  <2>4. QED BY <1>1, <2>2, <2>3 DEF Homes, IsEvent
<1> DEFINE Stayed(e, q, t) == Queued(e, q, t) /\ (q = "input" \/ e \notin D)
           Sent(e, q, t) == e \in D /\ q = "input" /\ t \in Targets(e)
           From(e, r, u) == Queued(e, r, u) /\ r # "input"
<1>4. \A e \in D : \E r, u : From(e, r, u)
  BY <1>2 DEF Outgoing, Queued
<1>5. \A e, q, t : Queued(e, q, t)' => Stayed(e, q, t) \/ Sent(e, q, t)
  BY <1>1 DEF Queued
<1>6. \A e, q, t : Queued(e, q, t)' => \E r, u : Queued(e, r, u)
  BY <1>4, <1>5
<1>7. \A e, q, t, f, r, u :
        Queued(e, q, t)' /\ Queued(f, r, u)' /\ e.id = f.id /\ ~IsEvent(e) => e = f /\ q = r /\ t = u
  <2> SUFFICES ASSUME NEW e, NEW q, NEW t, NEW f, NEW r, NEW u,
                      Queued(e, q, t)', Queued(f, r, u)', e.id = f.id, ~IsEvent(e)
               PROVE  e = f /\ q = r /\ t = u
    OBVIOUS
  <2>1. e = f BY <1>6 DEF Once
  <2>2. ASSUME NEW a, NEW x, NEW b, NEW y, Stayed(e, a, x), Sent(e, b, y) PROVE FALSE
    <3>1. PICK c, z : From(e, c, z) BY <1>4, <2>2
    <3>2. c = a BY <2>2, <3>1 DEF Once
    <3>3. QED BY <2>2, <3>1, <3>2
  <2>3. CASE Stayed(e, q, t) /\ Stayed(e, r, u) BY <2>1, <2>3 DEF Once
  <2>4. CASE Sent(e, q, t) /\ Sent(e, r, u)
    <3>1. \A x, y \in Targets(e) : x = y
      BY <1>2, <2>4, TargetsOf DEF IInv
    <3>2. QED BY <2>1, <2>4, <3>1
  <2>5. QED BY <1>5, <2>1, <2>2, <2>3, <2>4
<1>8. Once' BY <1>1, <1>6, <1>7 DEF Once, IsEvent
<1>9. QED BY <1>3, <1>8

LEMMA HomesInductive == ASSUME Mode # "medium" PROVE Spec => [](Homes /\ Once)
<1>1. Init => Homes /\ Once BY InitHomes
<1>2. IInv /\ Homes /\ Once /\ [Next]_vars => Homes' /\ Once'
  <2> SUFFICES ASSUME IInv, Homes, Once, [Next]_vars PROVE Homes' /\ Once'
    OBVIOUS
  <2>1. ASSUME NEW t \in Threads, ThreadStep(t) PROVE Homes' /\ Once'
    BY <2>1, PostingHomes, SendInstantaneousMessageHomes, RegistrationHomes,
       ThreadDispatchMessagesHomes, CrashHomes DEF ThreadStep
  <2>2. CASE StartServing \/ NextTick \/ \E w \in Workers : StartUpdate(w) \/ EndUpdate(w)
    BY <2>2, StagedHomes
  <2>3. CASE DispatchMessages BY <2>3, DispatchMessagesHomes
  <2>4. CASE UNCHANGED vars
    BY <2>4, SameHomes, SameOnce DEF vars, queues, history
  <2>5. QED BY <2>1, <2>2, <2>3, <2>4 DEF Next, Finished
<1>3. QED BY <1>1, <1>2, Inductive, PTL DEF Spec

\* In the short and long term, whatever the granularities: a message in a thread's
\* input queue is for a handler of that thread, which is still registered when its
\* message comes up, and no thread fails on a message.
THEOREM InputsHomeAlways == Spec => []InputsHome
<1>1. CASE Mode = "medium"
  <2>1. InputsHome BY <1>1 DEF InputsHome
  <2>2. QED BY <2>1, PTL
<1>2. CASE Mode # "medium"
  <2>1. Spec => [](Homes /\ Once) BY <1>2, HomesInductive
  <2>2. Homes /\ Once => InputsHome BY HomesIsInputsHome
  <2>3. QED BY <2>1, <2>2, PTL
<1>3. QED BY <1>1, <1>2

\* In the short and long term a message is handled at most once: what was handled is in
\* no queue any more.  (In mid-term a forwarded message is handled twice: that is what
\* the run of MCMessageBusForward shows.)
THEOREM AtMostOnceAlways == ASSUME Mode # "medium" PROVE Spec => []AtMostOnce
<1>1. Spec => [](Homes /\ Once) BY HomesInductive
<1>2. Homes /\ Once => AtMostOnce BY OnceIsAtMostOnce
<1>3. QED BY <1>1, <1>2, PTL
=============================================================================
