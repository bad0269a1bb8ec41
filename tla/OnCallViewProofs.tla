--------------------------- MODULE OnCallViewProofs ---------------------------
(***************************************************************************)
(* A driver of the on-call service and what the controller knows of it.    *)
(*                                                                         *)
(* The view of a driver is its record, the messages between it and the     *)
(* controller, and the controller's entries for it.  A good view says that *)
(* the schedule has one of the few shapes a trip goes through (Loaded);    *)
(* that the driver is free, or has one trip offered or in its schedule,    *)
(* and never both (OneJob); that the copy of that schedule is the rest of  *)
(* it, up to the status message on its way (Copied); and that who is let   *)
(* go has no trip (Ending).  The lemmas here say that each thing the       *)
(* driver or the controller may do keeps a view good, for any shifts and   *)
(* schedules, where the messages of a tick are handled by their            *)
(* priorities; OnCallServiceProofs.tla takes them to the steps of the      *)
(* service.                                                                *)
(***************************************************************************)
EXTENDS OnCallServiceInv, FiniteSetTheorems, SequenceTheorems, WellFoundedInduction, TLAPS

-----------------------------------------------------------------------------
(* Records and messages. *)

\* What a driver and the controller tell each other.
DriverMessages == {"SUBSCRIBE", "STATUS", "AVAILABLE", "SHIFT_END"}

Answers ==
  [kind : {"SCHEDULE_PROPOSITION"}, request : Requests]
    \cup [kind : {"UNSUBSCRIBE_SUCCESSFUL", "DELAY_SHIFT_END"}]

\* What a schedule is made of; cruising and parking are for nobody.
Items == [kind : {"CRUISE", "PARK", "PICKUP", "DROPOFF"}, request : Requests \cup {None}]

\* A driver, and the messages of the handler that is running.
DriverRecord ==
  [status : {"DRIVE_START", "CRUISING", "DRIVE_ON_CALL", "DRIVE_WITH_PASSENGER",
             "DRIVE_TO_PARKING", "PARKED"},
   place : {"unloaded", "road", "parking", "nowhere", "deleted"},
   items : Seq(Items), prev : {None, "CRUISE", "PICKUP", "DROPOFF", "PARK"},
   updated : BOOLEAN, leaving : BOOLEAN, waiting : BOOLEAN, toBeRemoved : BOOLEAN,
   sure : BOOLEAN, passengers : SUBSET Requests, sent : Seq(DriverMessages)]

\* The messages of a tick.
Boxes ==
  [asks : SUBSET Requests, in : [Drivers -> Seq(DriverMessages)],
   out : [Drivers -> Seq(Answers)]]

\* A function is what it is on its domain.
IsMap(f) == f = [e \in DOMAIN f |-> f[e]]

\* The fields of the controller.
Books(c) ==
  /\ DOMAIN c = {"queue", "subscribed", "available", "copy", "localTick", "aborted"}
  /\ c.queue \in Seq(Requests) /\ c.localTick \in 0 .. Period
  /\ DOMAIN c.copy \subseteq Drivers /\ \A d \in DOMAIN c.copy : c.copy[d] \in Seq(Items)
  /\ IsMap(c.copy)
  /\ c.available \subseteq DOMAIN c.copy /\ c.subscribed \subseteq DOMAIN c.copy

-----------------------------------------------------------------------------
(* A driver, and what the controller knows of it. *)

\* The schedule of a trip, for the places p near a car park.
Legs(p, r) ==
  <<[kind |-> "PICKUP", request |-> r], [kind |-> "DROPOFF", request |-> r]>>
    \o (IF r \in p THEN <<Parking>> ELSE <<>>)

\* A message is in a sequence, and only once; one that makes a driver available.
Has(s, m) == \E i \in DOMAIN s : s[i] = m
Once(s, m) == \A i, j \in DOMAIN s : s[i] = m /\ s[j] = m => i = j
Wakes(s) == Has(s, "SUBSCRIBE") \/ Has(s, "AVAILABLE")

\* The record of driver d, its messages of this tick and of the next, and the controller's
\* entries for it.
ViewOf(x, m, n, c, u, d) ==
  [x |-> x, in |-> m.in[d], new |-> n.in[d], out |-> m.out[d], sent |-> n.out[d],
   known |-> d \in DOMAIN c.copy, copy |-> IF d \in DOMAIN c.copy THEN c.copy[d] ELSE <<>>,
   free |-> d \in c.available, subscribed |-> d \in c.subscribed, updated |-> d \in u]

Views ==
  [x : DriverRecord, in : Seq(DriverMessages), new : Seq(DriverMessages), out : Seq(Answers),
   sent : Seq(Answers), known : BOOLEAN, copy : Seq(Items), free : BOOLEAN,
   subscribed : BOOLEAN, updated : BOOLEAN]

\* A driver before it is loaded.
Unloaded ==
  [status |-> "DRIVE_START", place |-> "unloaded", items |-> <<>>, prev |-> None,
   updated |-> FALSE, leaving |-> FALSE, waiting |-> FALSE, toBeRemoved |-> FALSE,
   sure |-> FALSE, passengers |-> {}, sent |-> <<>>]

\* Whether a driver carries somebody shows in its schedule.
Shape(p, x) ==
  \/ x.items \in {<<>>, <<Cruising>>, <<Parking>>} /\ x.passengers = {}
  \/ \E r \in Requests : x.items = Legs(p, r) /\ x.passengers = {}
  \/ \E r \in Requests : x.items = Tail(Legs(p, r)) /\ x.passengers = {r}

\* So does its status, once it has performed the head of its schedule.
AtRest(p, x) ==
  \/ x.items = <<Cruising>> /\ x.status = "CRUISING"
  \/ x.items = <<Parking>> /\ x.status \in {"DRIVE_TO_PARKING", "PARKED"}
  \/ \E r \in Requests : x.items = Legs(p, r) /\ x.status = "DRIVE_ON_CALL"
  \/ \E r \in Requests : x.items = Tail(Legs(p, r)) /\ x.status = "DRIVE_WITH_PASSENGER"

\* Between its updates a driver has performed that head, unless a trip has come since.
Rested(p, x) ==
  x.toBeRemoved \/ IF x.updated THEN \E r \in Requests : x.items = Legs(p, r) ELSE AtRest(p, x)

\* It has a trip in its schedule, or is offered one.
Job(v) == Ordered(v.x.items) # {}
Offers(v) == Offered(v.out) \cup Offered(v.sent)

\* The record fits its place, and the entries fit each other.
Loaded(p, v) ==
  /\ Shape(p, v.x) /\ v.x.sent = <<>>
  /\ IF v.x.place = "unloaded"
     THEN /\ v.x = Unloaded /\ ~v.updated /\ ~v.known
          /\ v.in = <<>> /\ v.new = <<>> /\ v.out = <<>> /\ v.sent = <<>>
     ELSE Rested(p, v.x) /\ (v.x.status = "DRIVE_START" => v.x.sure)
  /\ v.x.sure => v.x.toBeRemoved
  /\ v.x.sure /\ v.x.place # "deleted" =>
       v.x.place = "nowhere" /\ ~v.known /\ ~Job(v) /\ Offers(v) = {}
  /\ v.free \/ v.subscribed => v.known
  /\ ~v.known => v.copy = <<>>
  /\ ~v.updated => v.new = <<>>
  /\ v.updated => v.out = <<>>

\* A driver is free, or is with one trip: proposed, or in its schedule.
Awake(v) == v.free \/ Wakes(v.in)

\* At most one trip is proposed.
Single(s) ==
  \A i, j \in DOMAIN s :
    s[i].kind = "SCHEDULE_PROPOSITION" /\ s[j].kind = "SCHEDULE_PROPOSITION" => i = j

OneOffer(v) ==
  Single(v.out) /\ Single(v.sent) /\ (Offered(v.out) = {} \/ Offered(v.sent) = {})

OneJob(v) ==
  /\ Awake(v) \/ Wakes(v.new) => ~Job(v) /\ Offers(v) = {}
  /\ OneOffer(v)
  /\ Offers(v) # {} => ~Job(v) /\ ~Has(v.in, "STATUS") /\ ~Has(v.new, "STATUS")
  /\ Awake(v) => \A i \in DOMAIN v.new : v.new[i] = "SHIFT_END"
  /\ Has(v.in, "SUBSCRIBE") \/ Has(v.new, "SUBSCRIBE") => ~v.known
  /\ Once(v.in, "SUBSCRIBE") /\ Once(v.new, "SUBSCRIBE")
  /\ ~(Has(v.in, "SUBSCRIBE") /\ Has(v.in, "AVAILABLE"))
  /\ ~(Has(v.new, "SUBSCRIBE") /\ Has(v.new, "AVAILABLE"))

\* The copy of a trip, up to the status messages on their way.
Copied(p, v) ==
  v.known =>
    /\ \A r \in Offers(v) : v.copy = Tail(Legs(p, r))
    /\ v.free => v.copy = <<>>
    /\ v.x.place # "deleted" => \A r \in Requests :
         /\ v.x.items = Legs(p, r) =>
              v.copy = Tail(Legs(p, r)) /\ ~Has(v.in, "STATUS") /\ ~Has(v.new, "STATUS")
         /\ v.x.items = Tail(Legs(p, r)) =>
              \/ v.copy = Tail(Legs(p, r)) /\ Once(v.in, "STATUS") /\ Once(v.new, "STATUS")
                 /\ (Has(v.in, "STATUS") <=> ~Has(v.new, "STATUS"))
              \/ v.copy = Tail(Tail(Legs(p, r))) /\ ~Has(v.in, "STATUS") /\ ~Has(v.new, "STATUS")

\* A driver is told, or was told, that it may go.
LetGo(s) == \E i \in DOMAIN s : s[i].kind = "UNSUBSCRIBE_SUCCESSFUL"

Gone(v) == (v.x.toBeRemoved /\ ~v.x.sure) \/ LetGo(v.out) \/ LetGo(v.sent)

\* The end of a shift: only a driver that is deleted in the same tick announces it with a
\* trip left, and then the controller has forgotten it.  A driver that may go has no trip.
Ending(v) ==
  /\ Job(v) /\ Has(v.new, "SHIFT_END") => ~v.known
  /\ Has(v.in, "SHIFT_END") /\ v.known /\ (Job(v) \/ Wakes(v.new)) =>
       v.copy # <<>> /\ ~Has(v.in, "STATUS")
  /\ Gone(v) => ~Job(v) /\ Offers(v) = {} /\ ~v.known /\ ~Wakes(v.in) /\ ~Wakes(v.new)
  /\ v.x.place # "deleted" =>
       /\ v.known <=> v.subscribed
       /\ Job(v) \/ Offers(v) # {} \/ Has(v.in, "AVAILABLE") \/ Has(v.new, "AVAILABLE")
            => v.known

Good(p, v) == Loaded(p, v) /\ OneJob(v) /\ Copied(p, v) /\ Ending(v)

-----------------------------------------------------------------------------
(* Schedules. *)

\* Two elements and one more.
LEMMA TwoAndOne == ASSUME NEW a, NEW b, NEW c PROVE <<a, b>> \o <<c>> = <<a, b, c>>
<1> DEFINE S == {a, b, c}
           s == <<a, b>>
           t == <<c>>
           u == <<a, b, c>>
<1>1. s \in Seq(S) /\ t \in Seq(S) /\ u \in Seq(S) /\ Len(s) = 2 /\ Len(t) = 1 /\ Len(u) = 3
  OBVIOUS
<1>2. s[1] = u[1] /\ s[2] = u[2] /\ t[1] = u[3] OBVIOUS
<1> HIDE DEF s, t, u, S
<1>3. s \o t \in Seq(S) /\ Len(s \o t) = 3
      /\ \A i \in 1 .. 3 : (s \o t)[i] = IF i <= 2 THEN s[i] ELSE t[i - 2]
  <2>1. /\ s \o t \in Seq(S) /\ Len(s \o t) = Len(s) + Len(t)
        /\ \A i \in 1 .. Len(s) + Len(t) :
             (s \o t)[i] = IF i <= Len(s) THEN s[i] ELSE t[i - Len(s)]
    BY ONLY <1>1, ConcatProperties
  <2>2. 1 .. Len(s) + Len(t) = 1 .. 3 BY <1>1
  <2>3. QED BY <1>1, <2>1, <2>2
<1>4. ASSUME NEW i \in 1 .. 3 PROVE (s \o t)[i] = u[i]
  <2>1. i = 1 \/ i = 2 \/ i = 3 OBVIOUS
  <2>2. (s \o t)[i] = IF i <= 2 THEN s[i] ELSE t[i - 2] BY <1>3
  <2>3. QED BY <1>2, <2>1, <2>2
<1>5. s \o t = u
  <2> DEFINE v == s \o t
  <2>1. v \in Seq(S) /\ Len(v) = 3 /\ \A i \in 1 .. Len(v) : v[i] = u[i] BY <1>3, <1>4
  <2> HIDE DEF v
  <2>2. v = u BY <1>1, <2>1, SeqEqual
  <2>3. QED BY <2>2 DEF v
<1>6. QED BY <1>5 DEF s, t, u

\* The schedules of the two kinds of trips, item by item.
LEMMA LegsAre ==
  ASSUME NEW p, NEW r \in Requests
  PROVE  LET up == [kind |-> "PICKUP", request |-> r]
             off == [kind |-> "DROPOFF", request |-> r] IN
         /\ Legs(p, r) = IF r \in p THEN <<up, off, Parking>> ELSE <<up, off>>
         /\ Tail(Legs(p, r)) = IF r \in p THEN <<off, Parking>> ELSE <<off>>
         /\ Tail(Tail(Legs(p, r))) = IF r \in p THEN <<Parking>> ELSE <<>>
<1> DEFINE up == [kind |-> "PICKUP", request |-> r]
           off == [kind |-> "DROPOFF", request |-> r]
<1>1. Legs(p, r) = <<up, off>> \o (IF r \in p THEN <<Parking>> ELSE <<>>) BY DEF Legs
<1> HIDE DEF up, off
<1>2. <<up, off>> \o <<Parking>> = <<up, off, Parking>> /\ <<up, off>> \o <<>> = <<up, off>>
  <2>1. <<up, off>> \in Seq({up, off}) OBVIOUS
  <2>2. <<up, off>> \o <<>> = <<up, off>> BY <2>1, ConcatEmptySeq
  <2>3. <<up, off>> \o <<Parking>> = <<up, off, Parking>> BY TwoAndOne
  <2>4. QED BY <2>2, <2>3
<1>3. /\ Legs(p, r) = IF r \in p THEN <<up, off, Parking>> ELSE <<up, off>>
  BY <1>1, <1>2
<1>4. Tail(<<up, off, Parking>>) = <<off, Parking>> /\ Tail(<<up, off>>) = <<off>>
      /\ Tail(<<off, Parking>>) = <<Parking>> /\ Tail(<<off>>) = <<>>
  OBVIOUS
<1>5. QED BY <1>3, <1>4 DEF up, off

\* What such a schedule begins with, goes on with, and whom it is for.
LEMMA LegsFacts ==
  ASSUME NEW p, NEW r \in Requests
  PROVE  /\ Legs(p, r) \in Seq(Items) /\ Tail(Legs(p, r)) \in Seq(Items)
         /\ Legs(p, r) # <<>> /\ Tail(Legs(p, r)) # <<>>
         /\ Head(Legs(p, r)) = [kind |-> "PICKUP", request |-> r]
         /\ Head(Tail(Legs(p, r))) = [kind |-> "DROPOFF", request |-> r]
         /\ Tail(Tail(Legs(p, r))) = IF r \in p THEN <<Parking>> ELSE <<>>
         /\ Ordered(Legs(p, r)) = {r} /\ Ordered(Tail(Legs(p, r))) = {r}
<1> DEFINE up == [kind |-> "PICKUP", request |-> r]
           off == [kind |-> "DROPOFF", request |-> r]
<1>1. up \in Items /\ off \in Items /\ Parking \in Items
  BY DEF Items, Parking
<1>2. up.request = r /\ off.request = r /\ Parking.request = None /\ r # None
  BY ServiceAssumption DEF Parking
<1>3. /\ Legs(p, r) = IF r \in p THEN <<up, off, Parking>> ELSE <<up, off>>
      /\ Tail(Legs(p, r)) = IF r \in p THEN <<off, Parking>> ELSE <<off>>
      /\ Tail(Tail(Legs(p, r))) = IF r \in p THEN <<Parking>> ELSE <<>>
  BY LegsAre
<1> HIDE DEF up, off
<1>4. CASE r \in p
  <2>1. Ordered(<<up, off, Parking>>) = {r} /\ Ordered(<<off, Parking>>) = {r}
    BY <1>2 DEF Ordered
  <2>2. QED BY <1>1, <1>3, <1>4, <2>1 DEF up, off
<1>5. CASE r \notin p
  <2>1. Ordered(<<up, off>>) = {r} /\ Ordered(<<off>>) = {r}
    BY <1>2 DEF Ordered
  <2>2. QED BY <1>1, <1>3, <1>5, <2>1 DEF up, off
<1>6. QED BY <1>4, <1>5

\* Schedules without a trip.
LEMMA NoLegs ==
  /\ <<Cruising>> \in Seq(Items) /\ <<Parking>> \in Seq(Items) /\ <<>> \in Seq(Items)
  /\ Ordered(<<>>) = {} /\ Ordered(<<Cruising>>) = {} /\ Ordered(<<Parking>>) = {}
  /\ Head(<<Cruising>>).kind = "CRUISE" /\ Head(<<Parking>>).kind = "PARK"
  /\ <<Cruising>> # <<>> /\ <<Parking>> # <<>> /\ <<Cruising>> # <<Parking>>
<1>1. Cruising \in Items /\ Parking \in Items BY DEF Items, Parking, Cruising
<1>2. Cruising.request = None /\ Parking.request = None
      /\ Cruising.kind = "CRUISE" /\ Parking.kind = "PARK" BY DEF Cruising, Parking
<1>3. Ordered(<<>>) = {} BY DEF Ordered
<1>4. Ordered(<<Cruising>>) = {} BY <1>2 DEF Ordered
<1>5. Ordered(<<Parking>>) = {} BY <1>2 DEF Ordered
<1>6. QED BY <1>1, <1>2, <1>3, <1>4, <1>5

\* The whole trip is not the rest of another, and trips differ.
LEMMA LegsDiffer ==
  ASSUME NEW p, NEW r \in Requests, NEW q \in Requests
  PROVE  /\ Legs(p, r) # Tail(Legs(p, q))
         /\ Legs(p, r) = Legs(p, q) => r = q
         /\ Tail(Legs(p, r)) = Tail(Legs(p, q)) => r = q
<1>1. Head(Legs(p, r)).kind = "PICKUP" /\ Head(Tail(Legs(p, q))).kind = "DROPOFF"
  BY LegsFacts
<1>2. Head(Legs(p, r)).request = r /\ Head(Legs(p, q)).request = q
      /\ Head(Tail(Legs(p, r))).request = r /\ Head(Tail(Legs(p, q))).request = q
  BY LegsFacts
<1>3. "PICKUP" # "DROPOFF" OBVIOUS
<1>4. QED BY <1>1, <1>2, <1>3

\* The schedule that the controller proposes.
LEMMA TripIsLegs == ASSUME NEW r PROVE Trip(r) = Legs(setting.parks, r)
BY DEF Trip, Legs

\* A driver without a trip has none of these schedules.
LEMMA JobShape ==
  ASSUME NEW p, NEW x, Shape(p, x)
  PROVE  /\ Ordered(x.items) = {} =>
              x.items \in {<<>>, <<Cruising>>, <<Parking>>} /\ x.passengers = {}
         /\ Ordered(x.items) # {} => \E r \in Requests :
              /\ Ordered(x.items) = {r}
              /\ x.items = Legs(p, r) \/ x.items = Tail(Legs(p, r))
<1>1. CASE x.items \in {<<>>, <<Cruising>>, <<Parking>>} /\ x.passengers = {}
  BY <1>1, NoLegs
<1>2. ASSUME NEW r \in Requests, x.items = Legs(p, r) \/ x.items = Tail(Legs(p, r))
      PROVE  Ordered(x.items) = {r}
  <2>1. Ordered(Legs(p, r)) = {r} /\ Ordered(Tail(Legs(p, r))) = {r} BY LegsFacts
  <2>2. QED BY ONLY <1>2, <2>1
<1>3. QED BY <1>1, <1>2 DEF Shape

-----------------------------------------------------------------------------
(* Messages. *)

\* What is left of a list of messages when one of them is handled.
LEMMA RestIs ==
  ASSUME NEW T, NEW s \in Seq(T), NEW i \in DOMAIN s
  PROVE  /\ Rest(s, i) \in Seq(T) /\ Len(s) \in Nat \ {0} /\ Len(Rest(s, i)) = Len(s) - 1
         /\ DOMAIN s = 1 .. Len(s) /\ DOMAIN Rest(s, i) = 1 .. Len(s) - 1
         /\ \A j \in 1 .. Len(s) - 1 : Rest(s, i)[j] = IF j < i THEN s[j] ELSE s[j + 1]
<1> DEFINE n == Len(s)
           a == SubSeq(s, 1, i - 1)
           b == SubSeq(s, i + 1, n)
<1>1. n \in Nat /\ DOMAIN s = 1 .. n /\ i \in 1 .. n /\ i \in Int /\ \A j \in 1 .. n : s[j] \in T
  BY LenProperties, ElementOfSeq
<1> HIDE DEF n
<1>2. a \in Seq(T) /\ Len(a) = i - 1 /\ \A j \in 1 .. i - 1 : a[j] = s[j]
  <2>1. \A j \in 1 .. i - 1 : s[j] \in T BY <1>1
  <2>2. 1 \in Int /\ i - 1 \in Int BY <1>1
  <2>3. /\ a \in Seq(T) /\ Len(a) = IF 1 <= i - 1 THEN (i - 1) - 1 + 1 ELSE 0
        /\ \A j \in 1 .. (i - 1) - 1 + 1 : a[j] = s[1 + j - 1]
    BY ONLY <2>1, <2>2, SubSeqProperties
  <2> HIDE DEF a
  <2>4. ASSUME NEW j \in 1 .. i - 1 PROVE a[j] = s[j]
    <3>1. j \in 1 .. (i - 1) - 1 + 1 /\ 1 + j - 1 = j BY <1>1
    <3>2. QED BY <2>3, <3>1
  <2>5. QED BY <1>1, <2>3, <2>4
<1>3. b \in Seq(T) /\ Len(b) = n - i /\ \A j \in 1 .. n - i : b[j] = s[i + j]
  <2>1. \A j \in i + 1 .. n : s[j] \in T BY <1>1
  <2>2. i + 1 \in Int /\ n \in Int BY <1>1
  <2>3. /\ b \in Seq(T) /\ Len(b) = IF i + 1 <= n THEN n - (i + 1) + 1 ELSE 0
        /\ \A j \in 1 .. n - (i + 1) + 1 : b[j] = s[(i + 1) + j - 1]
    BY ONLY <2>1, <2>2, SubSeqProperties
  <2> HIDE DEF b
  <2>4. ASSUME NEW j \in 1 .. n - i PROVE b[j] = s[i + j]
    <3>1. j \in 1 .. n - (i + 1) + 1 /\ (i + 1) + j - 1 = i + j BY <1>1
    <3>2. QED BY <2>3, <3>1
  <2>5. QED BY <1>1, <2>3, <2>4
<1>4. Rest(s, i) = a \o b BY DEF Rest, n
<1> HIDE DEF a, b
<1>5. /\ a \o b \in Seq(T) /\ Len(a \o b) = Len(a) + Len(b)
      /\ \A j \in 1 .. Len(a) + Len(b) : (a \o b)[j] = IF j <= Len(a) THEN a[j] ELSE b[j - Len(a)]
  BY ONLY <1>2, <1>3, ConcatProperties
<1>6. Len(a) + Len(b) = n - 1 BY <1>1, <1>2, <1>3
<1>7. ASSUME NEW j \in 1 .. n - 1 PROVE (a \o b)[j] = IF j < i THEN s[j] ELSE s[j + 1]
  <2>1. (a \o b)[j] = IF j <= Len(a) THEN a[j] ELSE b[j - Len(a)] BY <1>5, <1>6
  <2>2. CASE j < i BY <1>1, <1>2, <2>1, <2>2
  <2>3. CASE ~(j < i)
    <3>1. ~(j <= Len(a)) /\ j - Len(a) \in 1 .. n - i /\ i + (j - Len(a)) = j + 1
      BY <1>1, <1>2, <2>3
    <3>2. b[j - Len(a)] = s[i + (j - Len(a))] BY ONLY <1>3, <3>1
    <3>3. QED BY <2>1, <2>3, <3>1, <3>2
  <2>4. QED BY <2>2, <2>3
<1>8. n \in Nat \ {0} BY <1>1
<1>9. DOMAIN (a \o b) = 1 .. n - 1 BY <1>5, <1>6, LenProperties
<1>10. QED BY <1>1, <1>4, <1>5, <1>6, <1>7, <1>8, <1>9 DEF n

\* Each of what is left was there before, and only the one that was handled is missing.
LEMMA RestParts ==
  ASSUME NEW T, NEW s \in Seq(T), NEW i \in DOMAIN s
  PROVE  /\ \A j \in DOMAIN Rest(s, i) : \E k \in DOMAIN s :
              k # i /\ Rest(s, i)[j] = s[k] /\ k = IF j < i THEN j ELSE j + 1
         /\ \A k \in DOMAIN s : k # i => \E j \in DOMAIN Rest(s, i) : Rest(s, i)[j] = s[k]
<1> DEFINE n == Len(s)
           t == Rest(s, i)
<1>1. /\ n \in Nat \ {0} /\ Len(t) = n - 1 /\ DOMAIN s = 1 .. n /\ DOMAIN t = 1 .. n - 1
      /\ i \in 1 .. n /\ \A j \in 1 .. n - 1 : t[j] = IF j < i THEN s[j] ELSE s[j + 1]
  BY RestIs
<1> HIDE DEF n, t
<1>2. ASSUME NEW j \in DOMAIN t
      PROVE  \E k \in DOMAIN s : k # i /\ t[j] = s[k] /\ k = IF j < i THEN j ELSE j + 1
  <2>1. CASE j < i
    <3>1. j \in DOMAIN s /\ j # i /\ t[j] = s[j] BY <1>1, <2>1
    <3>2. QED BY <2>1, <3>1
  <2>2. CASE ~(j < i)
    <3>1. j + 1 \in DOMAIN s /\ j + 1 # i /\ t[j] = s[j + 1] BY <1>1, <2>2
    <3>2. QED BY <2>2, <3>1
  <2>3. QED BY <2>1, <2>2
<1>3. ASSUME NEW k \in DOMAIN s, k # i PROVE \E j \in DOMAIN t : t[j] = s[k]
  <2>1. CASE k < i
    <3>1. k \in DOMAIN t /\ t[k] = s[k] BY <1>1, <2>1
    <3>2. QED BY <3>1
  <2>2. CASE k > i
    <3>1. k - 1 \in DOMAIN t /\ ~(k - 1 < i) /\ (k - 1) + 1 = k BY <1>1, <2>2
    <3>2. t[k - 1] = s[k] BY <1>1, <3>1
    <3>3. QED BY <3>1, <3>2
  <2>3. QED BY <1>1, <1>3, <2>1, <2>2
<1>4. QED BY <1>2, <1>3 DEF t

\* It has what it had, but for the message that was handled.
LEMMA RestHas ==
  ASSUME NEW T, NEW s \in Seq(T), NEW i \in DOMAIN s
  PROVE  /\ \A m : Has(Rest(s, i), m) => Has(s, m)
         /\ \A m : Has(s, m) /\ s[i] # m => Has(Rest(s, i), m)
         /\ \A m : Once(s, m) => Once(Rest(s, i), m)
         /\ \A m : Once(s, m) /\ s[i] = m => ~Has(Rest(s, i), m)
<1> DEFINE n == Len(s)
           t == Rest(s, i)
<1>1. /\ n \in Nat \ {0} /\ Len(t) = n - 1 /\ DOMAIN s = 1 .. n /\ DOMAIN t = 1 .. n - 1
      /\ i \in 1 .. n
  BY RestIs
<1>2. /\ \A j \in DOMAIN t : \E k \in DOMAIN s :
           k # i /\ t[j] = s[k] /\ k = IF j < i THEN j ELSE j + 1
      /\ \A k \in DOMAIN s : k # i => \E j \in DOMAIN t : t[j] = s[k]
  BY RestParts
<1> HIDE DEF n, t
<1>3. \A k \in DOMAIN s : k # i => \E j \in DOMAIN t : t[j] = s[k] BY <1>2
<1>4. \A m : Has(t, m) => Has(s, m) BY <1>2 DEF Has
<1>5. \A m : Has(s, m) /\ s[i] # m => Has(t, m) BY <1>3 DEF Has
<1>6. ASSUME NEW m, Once(s, m) PROVE Once(t, m)
  <2>1. ASSUME NEW j \in DOMAIN t, NEW k \in DOMAIN t, t[j] = m, t[k] = m PROVE j = k
    <3>1. PICK a \in DOMAIN s : t[j] = s[a] /\ a = IF j < i THEN j ELSE j + 1 BY <1>2
    <3>2. PICK b \in DOMAIN s : t[k] = s[b] /\ b = IF k < i THEN k ELSE k + 1 BY <1>2
    <3>3. a = b BY <1>6, <2>1, <3>1, <3>2 DEF Once
    <3>4. QED BY <1>1, <3>1, <3>2, <3>3
  <2>2. QED BY <2>1 DEF Once
<1>7. ASSUME NEW m, Once(s, m), s[i] = m, Has(t, m) PROVE FALSE
  <2>1. PICK j \in DOMAIN t : t[j] = m BY <1>7 DEF Has
  <2>2. PICK k \in DOMAIN s : k # i /\ s[k] = m BY <1>2, <2>1
  <2>3. QED BY <1>1, <1>7, <2>2 DEF Once
<1>8. QED BY <1>4, <1>5, <1>6, <1>7 DEF t

\* What a message at the end of a list adds to it.
LEMMA AppendHas ==
  ASSUME NEW T, NEW s \in Seq(T), NEW m \in T
  PROVE  /\ Append(s, m) \in Seq(T)
         /\ \A n : Has(Append(s, m), n) <=> Has(s, n) \/ n = m
         /\ \A n : Once(s, n) /\ (n # m \/ ~Has(s, n)) => Once(Append(s, m), n)
<1> DEFINE t == Append(s, m)
<1>1. /\ t \in Seq(T) /\ Len(t) = Len(s) + 1 /\ t[Len(s) + 1] = m
      /\ \A i \in 1 .. Len(s) : t[i] = s[i]
  BY AppendProperties
<1>2. Len(s) \in Nat /\ DOMAIN s = 1 .. Len(s) /\ DOMAIN t = 1 .. Len(s) + 1
  BY <1>1, LenProperties
<1> HIDE DEF t
<1>3. \A i \in DOMAIN t : (i \in DOMAIN s /\ t[i] = s[i]) \/ (i = Len(s) + 1 /\ t[i] = m)
  BY <1>1, <1>2
<1>4. \A n : Has(t, n) <=> Has(s, n) \/ n = m BY <1>1, <1>2, <1>3 DEF Has
<1>5. \A n : Once(s, n) /\ (n # m \/ ~Has(s, n)) => Once(t, n)
  BY <1>1, <1>2, <1>3 DEF Once, Has
<1>6. QED BY <1>1, <1>4, <1>5 DEF t

\* Nothing has been said.
LEMMA NoneHas == \A m : ~Has(<<>>, m) /\ Once(<<>>, m)
BY DEF Has, Once

-----------------------------------------------------------------------------
(* A driver's update. *)

\* What a driver said of its trip: nothing, or that it has picked up.
Said(p, x, y) ==
  \/ y.items = x.items /\ ~Has(y.sent, "STATUS")
  \/ /\ \E r \in Requests : x.items = Legs(p, r) /\ y.items = Tail(Legs(p, r))
     /\ Has(y.sent, "STATUS") /\ Once(y.sent, "STATUS")

\* An update that began with x and has come to y.
Going(p, x, y) ==
  /\ y \in DriverRecord /\ Shape(p, y)
  /\ y.place \in {x.place, "parking"} /\ y.status # "DRIVE_START" /\ y.updated = x.updated
  /\ y.sure <=> y.toBeRemoved
  /\ Ordered(y.items) \subseteq Ordered(x.items)
  /\ Ordered(x.items) = {} => \A i \in DOMAIN y.sent : y.sent[i] = "SHIFT_END"
  /\ ~Has(y.sent, "SUBSCRIBE")
  /\ Has(y.sent, "AVAILABLE") => Ordered(y.items) = {}
  /\ Ordered(y.items) # {} => ~Has(y.sent, "SHIFT_END") /\ Said(p, x, y)

\* Steps that neither say anything nor change the schedule.
LEMMA GoingOn ==
  ASSUME NEW p, NEW x, NEW y, Going(p, x, y), NEW z \in DriverRecord,
         z.items = y.items, z.passengers = y.passengers, z.sent = y.sent, z.updated = y.updated,
         z.place \in {x.place, "parking"},
         z.status # "DRIVE_START", z.sure <=> z.toBeRemoved
  PROVE  Going(p, x, z)
<1>1. Shape(p, z) BY DEF Going, Shape
<1>2. Ordered(y.items) # {} => Said(p, x, z) BY DEF Going, Said
<1>3. QED BY <1>1, <1>2 DEF Going

\* A message of a driver that had a trip.
LEMMA SayGoing ==
  ASSUME NEW p, NEW x, NEW y, Going(p, x, y), NEW m \in {"STATUS", "AVAILABLE"},
         Ordered(x.items) # {}, Ordered(y.items) = {}
  PROVE  /\ Going(p, x, Say(y, m))
         /\ Say(y, m).items = y.items /\ Say(y, m).prev = y.prev
<1> DEFINE z == Say(y, m)
<1>1. y \in DriverRecord /\ y.sent \in Seq(DriverMessages) /\ m \in DriverMessages
  BY DEF Going, DriverRecord, DriverMessages
<1>2. z = [y EXCEPT !.sent = Append(y.sent, m)] BY DEF Say
<1>3. /\ Append(y.sent, m) \in Seq(DriverMessages)
      /\ \A n : Has(Append(y.sent, m), n) <=> Has(y.sent, n) \/ n = m
  BY ONLY <1>1, AppendHas
<1>4. z \in DriverRecord BY <1>1, <1>2, <1>3 DEF DriverRecord
<1>5. /\ z.items = y.items /\ z.passengers = y.passengers
      /\ z.place = y.place /\ z.status = y.status /\ z.updated = y.updated
      /\ z.sure = y.sure /\ z.toBeRemoved = y.toBeRemoved /\ z.sent = Append(y.sent, m)
      /\ z.prev = y.prev
  BY <1>1, <1>2 DEF DriverRecord
<1> HIDE DEF z
<1>6. Shape(p, z) BY <1>5 DEF Going, Shape
<1>7. ~Has(z.sent, "SUBSCRIBE") BY <1>3, <1>5 DEF Going
<1>8. Going(p, x, z) BY <1>4, <1>5, <1>6, <1>7 DEF Going
<1>9. QED BY <1>5, <1>8 DEF z

\* The end of the shift of a driver without a trip.
LEMMA EndGoing ==
  ASSUME NEW p, NEW over, NEW x, NEW y, Going(p, x, y), Ordered(y.items) = {}
  PROVE  LET z == EndIfOver(y, over) IN
         /\ Going(p, x, z) /\ z.items = y.items /\ z.status = y.status
         /\ z.toBeRemoved = y.toBeRemoved
<1> DEFINE z == [Say(y, "SHIFT_END") EXCEPT !.waiting = TRUE]
           w == EndIfOver(y, over)
<1>1. w = y \/ w = z BY DEF EndIfOver, endShift
<1>2. CASE w = y BY <1>2
<1>3. CASE w = z
  <2>1. y \in DriverRecord /\ y.sent \in Seq(DriverMessages) /\ "SHIFT_END" \in DriverMessages
    BY DEF Going, DriverRecord, DriverMessages
  <2>2. z = [y EXCEPT !.sent = Append(y.sent, "SHIFT_END"), !.waiting = TRUE] BY DEF Say
  <2>3. /\ Append(y.sent, "SHIFT_END") \in Seq(DriverMessages)
        /\ \A n : Has(Append(y.sent, "SHIFT_END"), n) <=> Has(y.sent, n) \/ n = "SHIFT_END"
    BY ONLY <2>1, AppendHas
  <2>4. z \in DriverRecord BY <2>1, <2>2, <2>3 DEF DriverRecord
  <2>5. /\ z.items = y.items /\ z.passengers = y.passengers /\ z.waiting
        /\ z.place = y.place /\ z.status = y.status /\ z.updated = y.updated
        /\ z.sure = y.sure /\ z.toBeRemoved = y.toBeRemoved /\ z.sent = Append(y.sent, "SHIFT_END")
    BY <2>1, <2>2 DEF DriverRecord
  <2> HIDE DEF z
  <2>6. Shape(p, z) BY <2>5 DEF Going, Shape
  <2>7. Ordered(x.items) = {} => \A i \in DOMAIN z.sent : z.sent[i] = "SHIFT_END"
    <3>1. /\ DOMAIN y.sent = 1 .. Len(y.sent) /\ DOMAIN z.sent = 1 .. Len(y.sent) + 1
          /\ Len(y.sent) \in Nat
          /\ z.sent[Len(y.sent) + 1] = "SHIFT_END"
          /\ \A i \in 1 .. Len(y.sent) : z.sent[i] = y.sent[i]
      BY <2>1, <2>3, <2>5, AppendProperties, LenProperties
    <3>2. QED BY <3>1 DEF Going
  <2>8. ~Has(z.sent, "SUBSCRIBE") /\ (Has(z.sent, "AVAILABLE") <=> Has(y.sent, "AVAILABLE"))
    BY <2>3, <2>5 DEF Going
  <2>9. Going(p, x, z)
    BY <2>4, <2>5, <2>6, <2>7, <2>8 DEF Going
  <2>10. QED BY <1>3, <2>5, <2>9
<1>4. QED BY <1>1, <1>2, <1>3

\* A driver without a route is to be deleted as it is.
LEMMA NoRouteGoing ==
  ASSUME NEW p, NEW x, NEW y, Going(p, x, y), NEW z \in NoRoute(y)
  PROVE  Going(p, x, z) /\ z.toBeRemoved
<1>1. y \in DriverRecord /\ z = [y EXCEPT !.sure = TRUE, !.toBeRemoved = TRUE]
  BY DEF Going, NoRoute
<1>2. /\ z \in DriverRecord /\ z.items = y.items /\ z.passengers = y.passengers
      /\ z.sent = y.sent /\ z.waiting = y.waiting /\ z.updated = y.updated /\ z.place = y.place
      /\ z.status = y.status /\ z.sure = TRUE /\ z.toBeRemoved = TRUE
  BY <1>1 DEF DriverRecord
<1>3. y.place \in {x.place, "parking"} /\ y.status # "DRIVE_START" BY DEF Going
<1> HIDE DEF Going
<1>4. Going(p, x, z) BY <1>2, <1>3, GoingOn
<1>5. QED BY <1>2, <1>4

\* A driver whose status changes.
WithStatus(y, s) == [y EXCEPT !.status = s]

\* A driver takes a status of its journey.
LEMMA StatusGoing ==
  ASSUME NEW p, NEW x, NEW y, Going(p, x, y),
         NEW s \in {"CRUISING", "DRIVE_ON_CALL", "DRIVE_WITH_PASSENGER", "DRIVE_TO_PARKING"}
  PROVE  LET z == WithStatus(y, s) IN
         /\ Going(p, x, z) /\ z.status = s /\ z.items = y.items
         /\ z.toBeRemoved = y.toBeRemoved /\ z.prev = y.prev /\ z.sent = y.sent
<1> DEFINE z == WithStatus(y, s)
<1>1. y \in DriverRecord BY DEF Going
<1>2. /\ z \in DriverRecord /\ z.items = y.items /\ z.passengers = y.passengers
      /\ z.sent = y.sent /\ z.waiting = y.waiting /\ z.updated = y.updated /\ z.place = y.place
      /\ z.status = s /\ z.sure = y.sure /\ z.toBeRemoved = y.toBeRemoved /\ z.prev = y.prev
  BY <1>1 DEF DriverRecord, WithStatus
<1> HIDE DEF z
<1>3. y.place \in {x.place, "parking"} /\ (y.sure <=> y.toBeRemoved) BY DEF Going
<1>4. Going(p, x, z) BY <1>2, <1>3, GoingOn
<1>5. QED BY <1>2, <1>4 DEF z

\* It parks.
LEMMA ParkGoing ==
  ASSUME NEW p, NEW x, NEW y, Going(p, x, y), y.items = <<Parking>>
  PROVE  LET z == parkVehicle(y) IN
         Going(p, x, z) /\ AtRest(p, z) /\ z.items = y.items /\ z.status = "PARKED"
<1> DEFINE z == parkVehicle(y)
<1>1. y \in DriverRecord BY DEF Going
<1>2. /\ z \in DriverRecord /\ z.items = y.items /\ z.passengers = y.passengers
      /\ z.sent = y.sent /\ z.waiting = y.waiting /\ z.updated = y.updated /\ z.place = "parking"
      /\ z.status = "PARKED" /\ z.sure = y.sure /\ z.toBeRemoved = y.toBeRemoved
  BY <1>1 DEF DriverRecord, parkVehicle
<1> HIDE DEF z
<1>3. y.sure <=> y.toBeRemoved BY DEF Going
<1>4. Going(p, x, z) BY <1>2, <1>3, GoingOn
<1>5. AtRest(p, z) BY <1>2 DEF AtRest
<1>6. QED BY <1>2, <1>4, <1>5 DEF z

\* It cruises, and ends its shift when it is over.
LEMMA CruiseGoing ==
  ASSUME NEW p, NEW over, NEW x, NEW y, Going(p, x, y), y.items = <<Cruising>>,
         NEW z \in beginCruising(y, over)
  PROVE  Going(p, x, z) /\ (z.toBeRemoved \/ AtRest(p, z))
<1> DEFINE w == WithStatus(y, "CRUISING")
<1>1. CASE z \in NoRoute(y) BY <1>1, NoRouteGoing
<1>2. CASE z = EndIfOver(w, over)
  <2>1. Going(p, x, w) /\ w.status = "CRUISING" /\ w.items = <<Cruising>>
    BY StatusGoing
  <2>2. Ordered(w.items) = {} BY <2>1, NoLegs
  <2> HIDE DEF w
  <2>3. Going(p, x, z) /\ z.items = w.items /\ z.status = w.status
    BY <1>2, <2>1, <2>2, EndGoing
  <2>4. QED BY <2>1, <2>3 DEF AtRest
<1>3. QED BY <1>1, <1>2 DEF beginCruising, WithStatus

\* The passenger gets on.
Picked(p, x, r, w) == Going(p, x, w) /\ w.items = Tail(Legs(p, r))

LEMMA PickedGoing ==
  ASSUME NEW p, NEW over, NEW x, NEW y, Going(p, x, y),
         NEW r \in Requests, y.items = Legs(p, r), NEW w, w = pickupPassenger(y, over)
  PROVE  Picked(p, x, r, w)
<1> DEFINE a == [y EXCEPT !.passengers = @ \cup {r}]
           b == [a EXCEPT !.prev = "PICKUP", !.items = Tail(Legs(p, r))]
           z == Say(b, "STATUS")
<1>1. y \in DriverRecord /\ y.sent \in Seq(DriverMessages) /\ "STATUS" \in DriverMessages
  BY DEF Going, DriverRecord, DriverMessages
<1>2. /\ Head(Legs(p, r)) = [kind |-> "PICKUP", request |-> r]
      /\ Tail(Legs(p, r)) \in Seq(Items) /\ Tail(Legs(p, r)) # <<>>
      /\ Ordered(Legs(p, r)) = {r} /\ Ordered(Tail(Legs(p, r))) = {r}
  BY LegsFacts
<1>3. a.items = Legs(p, r) /\ b = [a EXCEPT !.prev = Head(a.items).kind, !.items = Tail(@)]
  <2>1. a.items = Legs(p, r) BY <1>1 DEF DriverRecord
  <2>2. Head(a.items).kind = "PICKUP" /\ Tail(a.items) = Tail(Legs(p, r)) BY <1>2, <2>1
  <2> HIDE DEF a
  <2>3. [a EXCEPT !.prev = Head(a.items).kind, !.items = Tail(@)]
          = [a EXCEPT !.prev = "PICKUP", !.items = Tail(Legs(p, r))]
    BY ONLY <2>2
  <2>4. QED BY <2>1, <2>3
<1>4. pickupPassenger(y, over) = ItemCompleted(a, over)
  <2>1. Head(y.items).request = r BY <1>2
  <2>2. QED BY ONLY <2>1 DEF pickupPassenger
<1>5. b.items # <<>> BY <1>1, <1>2 DEF DriverRecord
<1>6. pickupPassenger(y, over) = z BY <1>3, <1>4, <1>5 DEF ItemCompleted
<1>7. b = [y EXCEPT !.passengers = y.passengers \cup {r}, !.prev = "PICKUP",
                    !.items = Tail(Legs(p, r))]
  BY <1>1 DEF DriverRecord
<1>8. z = [y EXCEPT !.passengers = y.passengers \cup {r}, !.prev = "PICKUP",
                    !.items = Tail(Legs(p, r)), !.sent = Append(y.sent, "STATUS")]
  BY <1>1, <1>7 DEF DriverRecord, Say
<1>9. /\ Append(y.sent, "STATUS") \in Seq(DriverMessages)
      /\ \A n : Has(Append(y.sent, "STATUS"), n) <=> Has(y.sent, n) \/ n = "STATUS"
      /\ \A n : Once(y.sent, n) /\ (n # "STATUS" \/ ~Has(y.sent, n)) =>
                Once(Append(y.sent, "STATUS"), n)
  BY ONLY <1>1, AppendHas
<1> HIDE DEF a, b, z
<1>10. z \in DriverRecord BY <1>1, <1>2, <1>8, <1>9 DEF DriverRecord
<1>11. /\ z.items = Tail(Legs(p, r)) /\ z.passengers = y.passengers \cup {r}
       /\ z.waiting = y.waiting /\ z.place = y.place /\ z.status = y.status /\ z.updated = y.updated
       /\ z.sure = y.sure /\ z.toBeRemoved = y.toBeRemoved /\ z.sent = Append(y.sent, "STATUS")
  BY <1>1, <1>8 DEF DriverRecord
<1>12. /\ ~Has(y.sent, "SHIFT_END") /\ Said(p, x, y) /\ Ordered(x.items) # {}
       /\ ~Has(y.sent, "AVAILABLE")
  BY <1>2 DEF Going
<1>13. y.passengers = {}
  <2>1. ASSUME NEW q \in Requests PROVE Legs(p, r) # Tail(Legs(p, q)) BY LegsDiffer
  <2>2. QED BY <1>2, <2>1, NoLegs DEF Going, Shape
<1>14. Shape(p, z) BY <1>11, <1>13 DEF Shape
<1>15. y.items = x.items /\ ~Has(y.sent, "STATUS")
  <2>1. ASSUME NEW q \in Requests PROVE Legs(p, r) # Tail(Legs(p, q)) BY LegsDiffer
  <2>2. QED BY <1>12, <2>1 DEF Said
<1>16. Said(p, x, z)
  <2>1. Has(z.sent, "STATUS") /\ Once(z.sent, "STATUS")
    <3>1. Once(y.sent, "STATUS") BY <1>15 DEF Has, Once
    <3>2. QED BY <1>9, <1>11, <1>15, <3>1
  <2>2. QED BY <1>11, <1>15, <2>1 DEF Said
<1>17. /\ ~Has(z.sent, "SUBSCRIBE") /\ ~Has(z.sent, "AVAILABLE") /\ ~Has(z.sent, "SHIFT_END")
  BY <1>9, <1>11, <1>12 DEF Going
<1>18. Going(p, x, z)
  BY <1>2, <1>10, <1>11, <1>12, <1>14, <1>16, <1>17 DEF Going, Has
<1>19. QED BY <1>6, <1>11, <1>18 DEF Picked

\* The passenger gets off: past the end of the shift, and without a car park to go to,
\* nothing is said, otherwise the driver is available when its schedule is empty.
LEMMA DroppedGoing ==
  ASSUME NEW p, NEW over, NEW x, NEW y, Going(p, x, y),
         NEW r \in Requests, y.items = Tail(Legs(p, r))
  PROVE  LET z == dropoffPassenger(y, over) IN
         /\ Going(p, x, z) /\ z.items = IF r \in p THEN <<Parking>> ELSE <<>>
         /\ z.prev = "DROPOFF" /\ Ordered(x.items) # {}
<1> DEFINE a == [y EXCEPT !.passengers = @ \ {r}]
           rest == IF r \in p THEN <<Parking>> ELSE <<>>
           b == [a EXCEPT !.prev = "DROPOFF", !.items = rest]
           old == Tail(Legs(p, r))
<1>1. y \in DriverRecord /\ y.items = old BY DEF Going
<1>2. /\ Head(old).kind = "DROPOFF" /\ Head(old).request = r
      /\ Tail(old) = rest /\ rest \in Seq(Items)
      /\ Ordered(old) = {r} /\ Ordered(rest) = {}
  <2>1. rest \in Seq(Items) /\ Ordered(rest) = {} BY NoLegs
  <2>2. Head(old) = [kind |-> "DROPOFF", request |-> r] BY ONLY r \in Requests, LegsFacts
  <2>3. Tail(old) = rest BY ONLY r \in Requests, LegsFacts
  <2>4. Ordered(old) = {r} BY ONLY r \in Requests, LegsFacts
  <2> HIDE DEF rest, old
  <2>5. QED BY ONLY <2>1, <2>2, <2>3, <2>4
<1> HIDE DEF rest, old
<1>3. a.items = old /\ b = [a EXCEPT !.prev = Head(a.items).kind, !.items = Tail(@)]
  <2>1. a.items = old BY <1>1 DEF DriverRecord
  <2>2. Head(a.items).kind = "DROPOFF" /\ Tail(a.items) = rest BY <1>2, <2>1
  <2> HIDE DEF a
  <2>3. [a EXCEPT !.prev = Head(a.items).kind, !.items = Tail(@)]
          = [a EXCEPT !.prev = "DROPOFF", !.items = rest]
    BY ONLY <2>2
  <2>4. QED BY <2>1, <2>3
<1>4. dropoffPassenger(y, over) = ItemCompleted(a, over)
  <2>1. Head(y.items).request = r BY ONLY <1>1, <1>2
  <2>2. QED BY ONLY <2>1 DEF dropoffPassenger
<1>5. b.items = rest /\ b.prev = "DROPOFF" /\ b.passengers = y.passengers \ {r}
  BY <1>1, <1>2 DEF DriverRecord
<1>6. b = [y EXCEPT !.passengers = y.passengers \ {r}, !.prev = "DROPOFF", !.items = rest]
  BY <1>1 DEF DriverRecord
<1>7. /\ b \in DriverRecord /\ b.waiting = y.waiting /\ b.place = y.place /\ b.status = y.status
      /\ b.updated = y.updated /\ b.sure = y.sure /\ b.toBeRemoved = y.toBeRemoved
      /\ b.sent = y.sent
  BY <1>1, <1>2, <1>6 DEF DriverRecord
<1>8. dropoffPassenger(y, over) =
        IF rest # <<>> THEN Say(b, "STATUS")
        ELSE IF over THEN b ELSE Say(Say(b, "STATUS"), "AVAILABLE")
  BY <1>3, <1>4, <1>5 DEF ItemCompleted
<1> HIDE DEF a, b
<1>9. /\ ~Has(y.sent, "SHIFT_END") /\ Ordered(x.items) # {} /\ ~Has(y.sent, "AVAILABLE")
  BY <1>1, <1>2 DEF Going
<1>10. y.passengers \subseteq {r}
  <2>1. ASSUME NEW q \in Requests PROVE Tail(Legs(p, r)) # Legs(p, q) BY LegsDiffer
  <2>2. ASSUME NEW q \in Requests, Tail(Legs(p, r)) = Tail(Legs(p, q)) PROVE r = q
    BY <2>2, LegsDiffer
  <2>3. QED BY <1>1, <1>2, <2>1, <2>2, NoLegs DEF Going, Shape, old
<1>11. Shape(p, b) BY <1>5, <1>10 DEF Shape, rest
<1>12. Going(p, x, b)
  BY <1>2, <1>5, <1>7, <1>9, <1>11 DEF Going
<1>13. Ordered(b.items) = {} BY <1>2, <1>5
<1>14. /\ Going(p, x, Say(b, "STATUS")) /\ Say(b, "STATUS").items = rest
       /\ Say(b, "STATUS").prev = "DROPOFF"
  BY ONLY <1>5, <1>9, <1>12, <1>13, SayGoing
<1>15. CASE rest # <<>> BY <1>8, <1>9, <1>14, <1>15 DEF rest
<1>16. CASE rest = <<>> /\ over BY <1>5, <1>8, <1>9, <1>12, <1>16 DEF rest
<1>17. CASE rest = <<>> /\ ~over
  <2> DEFINE c == Say(b, "STATUS")
  <2>1. Going(p, x, c) /\ c.items = rest /\ c.prev = "DROPOFF"
    BY <1>14
  <2> HIDE DEF c
  <2>2. Ordered(c.items) = {} BY <1>2, <2>1
  <2>3. /\ Going(p, x, Say(c, "AVAILABLE")) /\ Say(c, "AVAILABLE").items = rest
        /\ Say(c, "AVAILABLE").prev = "DROPOFF"
    BY ONLY <1>9, <2>1, <2>2, SayGoing
  <2>4. QED BY <1>8, <1>9, <1>17, <2>3 DEF c, rest
<1>18. QED BY <1>15, <1>16, <1>17 DEF rest

\* An update that has come to z, with the head of the schedule performed.
Performed(p, x, z) == Going(p, x, z) /\ (z.toBeRemoved \/ AtRest(p, z))

\* It drives to the drop-off.
LEMMA DropOffGoing ==
  ASSUME NEW p, NEW x, NEW y, Going(p, x, y),
         NEW r \in Requests, y.items = Tail(Legs(p, r)), NEW z \in beginDriveToDropOffPoint(y)
  PROVE  Performed(p, x, z)
<1> DEFINE w == WithStatus(y, "DRIVE_WITH_PASSENGER")
<1>1. CASE z \in NoRoute(y) BY <1>1, NoRouteGoing DEF Performed
<1>2. CASE z = w
  <2>1. Going(p, x, y) OBVIOUS
  <2>2. Going(p, x, w) /\ w.status = "DRIVE_WITH_PASSENGER" /\ w.items = y.items
    BY ONLY <2>1, StatusGoing
  <2>3. QED BY <1>2, <2>2 DEF AtRest, Performed
<1>3. QED BY <1>1, <1>2 DEF beginDriveToDropOffPoint, WithStatus

\* It drives to the pick-up, or is there.
LEMMA PickUpGoing ==
  ASSUME NEW p, NEW over, NEW x, NEW y, Going(p, x, y),
         NEW r \in Requests, y.items = Legs(p, r), NEW z \in beginDriveToPickUpPoint(y, over)
  PROVE  Performed(p, x, z)
<1> DEFINE w == WithStatus(y, "DRIVE_ON_CALL")
           u == pickupPassenger(w, over)
<1>1. CASE z \in NoRoute(y) BY <1>1, NoRouteGoing DEF Performed
<1>2. Going(p, x, w) /\ w.status = "DRIVE_ON_CALL" /\ w.items = y.items
  BY StatusGoing
<1> HIDE DEF w
<1>3. CASE z = w BY <1>2, <1>3 DEF Performed, AtRest
<1>4. CASE z \in beginDriveToDropOffPoint(u)
  <2>1. Going(p, x, u) /\ u.items = Tail(Legs(p, r))
    <3>1. Picked(p, x, r, u) BY <1>2, PickedGoing
    <3>2. QED BY <3>1 DEF Picked
  <2> HIDE DEF u
  <2>2. QED BY <1>4, <2>1, DropOffGoing
<1>5. QED BY <1>1, <1>3, <1>4 DEF beginDriveToPickUpPoint, WithStatus, w

\* From a drop-off it is available as it drives to a car park, or parks.
LEMMA ParkingGoing ==
  ASSUME NEW p, NEW over, NEW x, NEW y, Going(p, x, y), y.items = <<Parking>>,
         y.prev = "DROPOFF", Ordered(x.items) # {},
         NEW z \in beginDriveToParkingNode(y, over)
  PROVE  Performed(p, x, z)
<1> DEFINE a == Say(y, "STATUS")
           b == Say(a, "AVAILABLE")
           w == WithStatus(b, "DRIVE_TO_PARKING")
           v == parkVehicle(b)
<1>1. Ordered(x.items) # {} OBVIOUS
<1>2. Ordered(<<Parking>>) = {} BY NoLegs
<1>3. Going(p, x, a) /\ a.items = <<Parking>>
  <2>1. Going(p, x, y) /\ y.items = <<Parking>> OBVIOUS
  <2>2. QED BY ONLY <1>1, <1>2, <2>1, SayGoing
<1> HIDE DEF a
<1>4. Going(p, x, b) /\ b.items = <<Parking>>
  BY ONLY <1>1, <1>2, <1>3, SayGoing
<1> HIDE DEF b
<1>5. CASE z \in NoRoute(b) BY <1>4, <1>5, NoRouteGoing DEF Performed
<1>6. CASE z = EndIfOver(w, over)
  <2>1. Going(p, x, w) /\ w.status = "DRIVE_TO_PARKING" /\ w.items = <<Parking>>
    BY ONLY <1>4, StatusGoing
  <2> HIDE DEF w
  <2>2. Going(p, x, z) /\ z.items = <<Parking>> /\ z.status = "DRIVE_TO_PARKING"
    BY ONLY <1>2, <1>6, <2>1, EndGoing
  <2>3. QED BY <2>2 DEF Performed, AtRest
<1>7. CASE z = EndIfOver(v, over)
  <2>1. Going(p, x, v) /\ v.items = <<Parking>> /\ v.status = "PARKED"
    BY ONLY <1>4, ParkGoing
  <2> HIDE DEF v
  <2>2. Going(p, x, z) /\ z.items = <<Parking>> /\ z.status = "PARKED"
    BY ONLY <1>2, <1>7, <2>1, EndGoing
  <2>3. QED BY <2>2 DEF Performed, AtRest
<1>8. QED BY <1>5, <1>6, <1>7 DEF beginDriveToParkingNode, WithStatus, a, b

\* A driver that has picked up its passenger drives to the drop-off.
LEMMA PickedUpGoing ==
  ASSUME NEW p, NEW over, NEW x, NEW y, Going(p, x, y),
         NEW r \in Requests, y.items = Legs(p, r),
         NEW z \in performScheduleItem(pickupPassenger(y, over), over)
  PROVE  Performed(p, x, z)
<1> DEFINE w == pickupPassenger(y, over)
<1>1. w = pickupPassenger(y, over) OBVIOUS
<1>2. z \in performScheduleItem(w, over) OBVIOUS
<1> HIDE DEF w
<1>3. Going(p, x, w) /\ w.items = Tail(Legs(p, r))
  <2>1. Picked(p, x, r, w) BY <1>1, PickedGoing
  <2>2. QED BY <2>1 DEF Picked
<1>4. w.items # <<>> /\ Head(w.items).kind = "DROPOFF" BY <1>3, LegsFacts
<1>5. z \in beginDriveToDropOffPoint(w) BY ONLY <1>2, <1>4 DEF performScheduleItem
<1>6. QED BY <1>3, <1>5, DropOffGoing

\* The end of a path: the next item of the schedule, or the car park.
LEMMA EndOfPathGoing ==
  ASSUME NEW p, NEW over, NEW x, NEW y, Performed(p, x, y),
         ~y.toBeRemoved, NEW z \in EndOfPath(y, over)
  PROVE  Performed(p, x, z)
<1>1. Going(p, x, y) /\ AtRest(p, y) BY DEF Performed
<1>2. /\ Head(<<Cruising>>).kind = "CRUISE" /\ Head(<<Parking>>).kind = "PARK"
      /\ <<Cruising>> # <<>> /\ <<Parking>> # <<>>
  BY NoLegs
<1>3. CASE y.items = <<Cruising>> /\ y.status = "CRUISING"
  <2>1. z \in performScheduleItem(y, over) BY <1>3 DEF EndOfPath
  <2>2. z \in beginCruising(y, over) BY <1>2, <1>3, <2>1 DEF performScheduleItem
  <2>3. QED BY <1>1, <1>3, <2>2, CruiseGoing DEF Performed
<1>4. CASE y.items = <<Parking>> /\ y.status = "DRIVE_TO_PARKING"
  <2>1. z = parkVehicle(y) BY <1>4 DEF EndOfPath
  <2>2. QED BY <1>1, <1>4, <2>1, ParkGoing DEF Performed
<1>5. CASE y.status = "PARKED"
  <2>1. z = y BY <1>5 DEF EndOfPath
  <2>2. QED BY <2>1
<1>6. ASSUME NEW r \in Requests, y.items = Legs(p, r), y.status = "DRIVE_ON_CALL"
      PROVE  Performed(p, x, z)
  <2>1. z \in performScheduleItem(pickupPassenger(y, over), over) BY <1>6 DEF EndOfPath
  <2>2. QED BY <1>1, <1>6, <2>1, PickedUpGoing
<1>7. ASSUME NEW r \in Requests, y.items = Tail(Legs(p, r)), y.status = "DRIVE_WITH_PASSENGER"
      PROVE  Performed(p, x, z)
  <2> DEFINE w == dropoffPassenger(y, over)
  <2>1. /\ Going(p, x, w) /\ w.items = IF r \in p THEN <<Parking>> ELSE <<>>
        /\ w.prev = "DROPOFF" /\ Ordered(x.items) # {}
    BY <1>1, <1>7, DroppedGoing
  <2>2. z \in performScheduleItem(w, over) BY <1>7 DEF EndOfPath
  <2> HIDE DEF w
  <2>3. CASE r \in p
    <3>1. z \in beginDriveToParkingNode(w, over)
      BY <1>2, <2>1, <2>2, <2>3 DEF performScheduleItem
    <3>2. QED BY <2>1, <2>3, <3>1, ParkingGoing
  <2>4. CASE r \notin p
    <3> DEFINE v == [w EXCEPT !.items = <<Cruising>>]
    <3>1. w \in DriverRecord /\ w.items = <<>> BY <2>1, <2>4 DEF Going
    <3>2. /\ v.items = <<Cruising>> /\ v.passengers = w.passengers /\ v.sent = w.sent
          /\ v.waiting = w.waiting /\ v.place = w.place /\ v.status = w.status
          /\ v.updated = w.updated /\ v.sure = w.sure /\ v.toBeRemoved = w.toBeRemoved
      BY <3>1 DEF DriverRecord
    <3>3. v \in DriverRecord BY <3>1, NoLegs DEF DriverRecord
    <3>4. z \in performScheduleItem(w, over) /\ w.items = <<>> BY <2>2, <3>1
    <3> HIDE DEF v
    <3>5. z \in beginCruising(v, over)
      <4>1. Head(v.items).kind = "CRUISE" BY <1>2, <3>2
      <4>2. QED BY ONLY <3>4, <4>1 DEF performScheduleItem, v
    <3>6. Going(p, x, v)
      <4>1. Shape(p, w) BY <2>1 DEF Going
      <4>2. w.passengers = {} BY <3>1, <4>1, LegsFacts DEF Shape
      <4>3. Shape(p, v) BY <3>2, <4>2 DEF Shape
      <4>4. Ordered(v.items) = {} /\ Ordered(w.items) = {} BY <3>1, <3>2, NoLegs
      <4>5. QED BY <2>1, <3>2, <3>3, <4>3, <4>4 DEF Going
    <3>7. QED BY <3>2, <3>5, <3>6, CruiseGoing DEF Performed
  <2>5. QED BY <2>3, <2>4
<1>8. QED BY <1>1, <1>3, <1>4, <1>5, <1>6, <1>7 DEF AtRest

-----------------------------------------------------------------------------
(* Induction over the natural numbers, for a set. *)

\* A set of natural numbers has a least element: the sets 1 .. n are well-founded.
LEMMA Least ==
  ASSUME NEW T, T \subseteq Nat, T # {} PROVE \E x \in T : \A y \in T : ~ (y < x)
<1> DEFINE Upto(n) == 1 .. n
           C == {Upto(n) : n \in T}
           R == StrictSubsetOrdering(Nat)
           S == FiniteSubsetsOf(Nat)
<1>1. \A n \in T : Upto(n) \in S BY FS_Interval DEF FiniteSubsetsOf
<1>2. C # {} /\ C \subseteq S BY <1>1
<1>3. IsWellFoundedOn(R, S) BY FS_StrictSubsetOrderingWellFounded
<1> HIDE DEF C, S, R
<1>4. \E X \in C : \A Y \in C : ~ (<<Y, X>> \in R)
  BY ONLY <1>2, <1>3, WFMin
<1> USE DEF C, S, R
<1>5. PICK x \in T : \A y \in T : <<Upto(y), Upto(x)>> \notin R BY <1>4
<1>6. ASSUME NEW y \in T, y < x PROVE FALSE
  <2>1. Upto(y) \subseteq Upto(x) /\ Upto(y) # Upto(x) BY <1>6
  <2>2. <<Upto(y), Upto(x)>> \in R
    BY <1>1, <2>1 DEF StrictSubsetOrdering, FiniteSubsetsOf
  <2>3. QED BY <1>5, <2>2
<1>7. QED BY <1>6

\* Induction over the natural numbers, for a set.
LEMMA Induction ==
  ASSUME NEW T, 0 \in T, \A n \in Nat : n \in T => n + 1 \in T PROVE Nat \subseteq T
<1> SUFFICES ASSUME Nat \ T # {} PROVE FALSE
  OBVIOUS
<1>1. PICK x \in Nat \ T : \A y \in Nat \ T : ~ (y < x) BY Least
<1>2. x # 0 /\ x - 1 \in Nat /\ x - 1 < x /\ (x - 1) + 1 = x BY <1>1
<1>3. QED BY <1>1, <1>2

-----------------------------------------------------------------------------
(* The paths that a driver comes to the end of in one tick. *)

DriveStep(S, over) == S \cup UNION {EndOfPath(y, over) : y \in {y \in S : ~y.toBeRemoved}}

Arrivals(x, over, n, f) == f = [i \in 0 .. n |-> IF i = 0 THEN {x} ELSE DriveStep(f[i - 1], over)]

\* The sets of states after each path, up to the m-th, exist.
LEMMA ArrivalsExist ==
  ASSUME NEW x, NEW over, NEW m \in Nat PROVE \E f : Arrivals(x, over, m, f)
<1> DEFINE T == {n \in Nat : \E f : Arrivals(x, over, n, f)}
<1>1. 0 \in T
  <2>1. Arrivals(x, over, 0, [i \in {0} |-> {x}]) BY DEF Arrivals
  <2>2. QED BY <2>1
<1>2. ASSUME NEW n \in Nat, n \in T PROVE n + 1 \in T
  <2>1. PICK f : Arrivals(x, over, n, f) BY <1>2
  <2> DEFINE g == [i \in 0 .. n + 1 |-> IF i \in 0 .. n THEN f[i] ELSE DriveStep(f[i - 1], over)]
  <2>2. ASSUME NEW i \in 0 .. n + 1
        PROVE  g[i] = IF i = 0 THEN {x} ELSE DriveStep(g[i - 1], over)
    <3>1. CASE i = 0 BY <2>1, <3>1 DEF Arrivals
    <3>2. CASE i \in 1 .. n
      <4>1. g[i] = f[i] /\ g[i - 1] = f[i - 1] BY <3>2
      <4>2. i \in 0 .. n BY <3>2
      <4>3. f[i] = IF i = 0 THEN {x} ELSE DriveStep(f[i - 1], over)
        BY ONLY <2>1, <4>2 DEF Arrivals
      <4>4. QED BY <4>1, <4>3
    <3>3. CASE i = n + 1
      <4>1. g[i - 1] = f[i - 1] BY <3>3
      <4>2. QED BY <3>3, <4>1
    <3>4. QED BY <3>1, <3>2, <3>3
  <2>3. Arrivals(x, over, n + 1, g) BY <2>2 DEF Arrivals
  <2>4. QED BY <2>3
<1>3. Nat \subseteq T
  <2> HIDE DEF T
  <2>1. QED BY <1>1, <1>2, Induction
<1>4. QED BY <1>3

\* Drive is the last of them.
LEMMA DriveIs ==
  ASSUME NEW x, NEW over
  PROVE  \E f : Arrivals(x, over, MaxArrivals, f) /\ Drive(x, over) = f[MaxArrivals]
<1> DEFINE F(f) == [n \in 0 .. MaxArrivals |->
                     IF n = 0 THEN {x}
                     ELSE f[n - 1] \cup
                       UNION {EndOfPath(y, over) : y \in {y \in f[n - 1] : ~y.toBeRemoved}}]
           g == CHOOSE f : f = F(f)
<1>1. \E f : f = F(f)
  <2>1. PICK f : Arrivals(x, over, MaxArrivals, f) BY ServiceAssumption, ArrivalsExist
  <2>2. f = F(f) BY ONLY <2>1 DEF Arrivals, DriveStep
  <2>3. QED BY <2>2
<1>2. g = F(g) BY <1>1
<1>3. Drive(x, over) = g[MaxArrivals] BY DEF Drive
<1>4. QED BY <1>2, <1>3 DEF Arrivals, DriveStep

\* What a driver does before it drives stays so, however many paths it comes to the end of.
LEMMA DriveGoing ==
  ASSUME NEW p, NEW over, NEW x, NEW y, Performed(p, x, y),
         NEW z \in Drive(y, over)
  PROVE  Performed(p, x, z)
<1>1. PICK f : Arrivals(y, over, MaxArrivals, f) /\ Drive(y, over) = f[MaxArrivals] BY DriveIs
<1>2. \A i \in 0 .. MaxArrivals : f[i] = IF i = 0 THEN {y} ELSE DriveStep(f[i - 1], over)
  BY ONLY <1>1 DEF Arrivals
<1> DEFINE T == {n \in Nat : n <= MaxArrivals => \A u \in f[n] : Performed(p, x, u)}
<1>3. 0 \in T BY <1>2, ServiceAssumption
<1>4. ASSUME NEW n \in Nat, n \in T PROVE n + 1 \in T
  <2>1. ASSUME n + 1 <= MaxArrivals, NEW u \in f[n + 1] PROVE Performed(p, x, u)
    <3>1. n + 1 \in 0 .. MaxArrivals /\ n + 1 # 0 /\ (n + 1) - 1 = n /\ n <= MaxArrivals
      BY <2>1, ServiceAssumption
    <3>2. f[n + 1] = DriveStep(f[n], over) BY ONLY <1>2, <3>1
    <3>3. \A w \in f[n] : Performed(p, x, w) BY <1>4, <3>1
    <3>4. u \in f[n] \/ \E w \in f[n] : ~w.toBeRemoved /\ u \in EndOfPath(w, over)
      BY <2>1, <3>2 DEF DriveStep
    <3>5. QED BY <3>3, <3>4, EndOfPathGoing
  <2>2. QED BY <2>1
<1>5. Nat \subseteq T
  <2> HIDE DEF T
  <2>1. QED BY <1>3, <1>4, Induction
<1>6. QED BY <1>1, <1>5, ServiceAssumption

-----------------------------------------------------------------------------
(* The update of a driver, as a whole. *)

Begun(x) == [x EXCEPT !.updated = FALSE]
Leaves(x) == [x EXCEPT !.leaving = TRUE]

\* The flag is not part of what an update changes in between.
LEMMA BegunGoing ==
  ASSUME NEW p, NEW x \in DriverRecord, NEW y, Performed(p, x, y)
  PROVE  Performed(p, Begun(x), Begun(y))
<1> DEFINE a == Begun(x)
           b == Begun(y)
<1>1. Going(p, x, y) /\ y \in DriverRecord BY DEF Performed, Going
<1>2. a.items = x.items /\ a.place = x.place /\ a.updated = FALSE
  BY DEF Begun, DriverRecord
<1>3. /\ b \in DriverRecord /\ b.items = y.items /\ b.passengers = y.passengers
      /\ b.sent = y.sent /\ b.waiting = y.waiting /\ b.updated = FALSE /\ b.place = y.place
      /\ b.status = y.status /\ b.sure = y.sure /\ b.toBeRemoved = y.toBeRemoved
  BY <1>1 DEF Begun, DriverRecord
<1> HIDE DEF a, b
<1>4. Shape(p, b) BY <1>1, <1>3 DEF Going, Shape
<1>5. Said(p, x, y) => Said(p, a, b) BY <1>2, <1>3 DEF Said
<1>6. Going(p, a, b) BY <1>1, <1>2, <1>3, <1>4, <1>5 DEF Going
<1>7. AtRest(p, y) => AtRest(p, b) BY <1>3 DEF AtRest
<1>8. QED BY <1>3, <1>6, <1>7 DEF Performed, a, b

\* A driver before its update.
Ready(p, x) ==
  /\ x \in DriverRecord /\ Shape(p, x) /\ Rested(p, x) /\ x.sent = <<>>
  /\ ~x.toBeRemoved /\ ~x.sure /\ x.status # "DRIVE_START"

\* An update of a driver at rest has begun.
LEMMA ReadyGoing ==
  ASSUME NEW p, NEW x, Ready(p, x), NEW y \in DriverRecord,
         y.items = x.items, y.place = x.place, y.updated = x.updated
  PROVE  Going(p, y, x)
<1>1. \A m : ~Has(x.sent, m) BY NoneHas DEF Ready
<1>2. \A i \in DOMAIN x.sent : FALSE BY DEF Ready
<1>3. Said(p, y, x) BY <1>1 DEF Said
<1>4. QED BY <1>1, <1>2, <1>3 DEF Going, Ready

\* What an update from x to z may do.
Effect(p, x, z) ==
  /\ z \in DriverRecord /\ Shape(p, z) /\ (z.toBeRemoved \/ AtRest(p, z))
  /\ z.place \in {x.place, "parking"} /\ z.status # "DRIVE_START" /\ ~z.updated
  /\ z.sure <=> z.toBeRemoved
  /\ Ordered(z.items) \subseteq Ordered(x.items)
  /\ Ordered(x.items) = {} => \A m : Has(z.sent, m) => m = "SHIFT_END"
  /\ ~Has(z.sent, "SUBSCRIBE")
  /\ Has(z.sent, "AVAILABLE") => Ordered(z.items) = {} /\ Ordered(x.items) # {}
  /\ Ordered(z.items) # {} => Said(p, x, z) /\ (Has(z.sent, "SHIFT_END") => z.sure)

\* An update has that effect when the driver has performed the head of its schedule.
LEMMA PerformedFacts ==
  ASSUME NEW p, NEW x \in DriverRecord, NEW z, Performed(p, Begun(x), z)
  PROVE  Effect(p, x, z)
<1> DEFINE b == Begun(x)
<1>1. b.items = x.items /\ b.place = x.place /\ b.updated = FALSE BY DEF Begun, DriverRecord
<1> HIDE DEF b
<1>2. Going(p, b, z) /\ (z.toBeRemoved \/ AtRest(p, z)) BY DEF Performed, b
<1>3. Ordered(x.items) = {} => \A m : Has(z.sent, m) => m = "SHIFT_END"
  BY <1>1, <1>2 DEF Going, Has
<1>4. Said(p, b, z) => Said(p, x, z) BY <1>1 DEF Said
<1>5. /\ z \in DriverRecord /\ Shape(p, z)
      /\ z.place \in {x.place, "parking"} /\ z.status # "DRIVE_START" /\ ~z.updated
      /\ z.sure <=> z.toBeRemoved
      /\ Ordered(z.items) \subseteq Ordered(x.items)
      /\ ~Has(z.sent, "SUBSCRIBE")
      /\ Has(z.sent, "AVAILABLE") => Ordered(z.items) = {}
      /\ Ordered(z.items) # {} => ~Has(z.sent, "SHIFT_END") /\ Said(p, b, z)
  BY <1>1, <1>2 DEF Going
<1>6. Has(z.sent, "AVAILABLE") => Ordered(x.items) # {} BY <1>3
<1>7. QED BY <1>2, <1>3, <1>4, <1>5, <1>6 DEF Effect

\* A parked driver without a route may have a trip left when it ends its shift.
LEMMA EndEffect ==
  ASSUME NEW p, NEW x, NEW y, Effect(p, x, y), y.sure
  PROVE  Effect(p, x, [Say(Leaves(y), "SHIFT_END") EXCEPT !.waiting = TRUE])
<1> DEFINE z == [Say(Leaves(y), "SHIFT_END") EXCEPT !.waiting = TRUE]
<1>1. y \in DriverRecord /\ y.sent \in Seq(DriverMessages) /\ "SHIFT_END" \in DriverMessages
  BY DEF Effect, DriverRecord, DriverMessages
<1>2. z = [y EXCEPT !.leaving = TRUE, !.sent = Append(y.sent, "SHIFT_END"), !.waiting = TRUE]
  BY <1>1 DEF Say, Leaves, DriverRecord
<1>3. /\ Append(y.sent, "SHIFT_END") \in Seq(DriverMessages)
      /\ \A n : Has(Append(y.sent, "SHIFT_END"), n) <=> Has(y.sent, n) \/ n = "SHIFT_END"
      /\ \A n : Once(y.sent, n) /\ (n # "SHIFT_END" \/ ~Has(y.sent, n)) =>
                Once(Append(y.sent, "SHIFT_END"), n)
  BY ONLY <1>1, AppendHas
<1>4. z \in DriverRecord BY <1>1, <1>2, <1>3 DEF DriverRecord
<1>5. /\ z.items = y.items /\ z.passengers = y.passengers
      /\ z.place = y.place /\ z.status = y.status /\ z.updated = y.updated
      /\ z.sure = y.sure /\ z.toBeRemoved = y.toBeRemoved /\ z.sent = Append(y.sent, "SHIFT_END")
  BY <1>1, <1>2 DEF DriverRecord
<1> HIDE DEF z
<1>6. /\ \A n : Has(z.sent, n) <=> Has(y.sent, n) \/ n = "SHIFT_END"
      /\ Once(y.sent, "STATUS") => Once(z.sent, "STATUS")
  BY <1>3, <1>5
<1>7. Shape(p, z) /\ (AtRest(p, y) => AtRest(p, z)) BY <1>5 DEF Effect, Shape, AtRest
<1>8. Said(p, x, y) => Said(p, x, z) BY <1>5, <1>6 DEF Said
<1>9. Effect(p, x, z) BY <1>4, <1>5, <1>6, <1>7, <1>8 DEF Effect
<1>10. QED BY <1>9 DEF z

\* The frame tick of a driver, with the performance of its schedule.
LEMMA TickedEffect ==
  ASSUME NEW p, NEW over, NEW x, Ready(p, x), NEW z \in Ticked(x, over)
  PROVE  Effect(p, x, z)
<1> DEFINE begun == IF x.updated
                    THEN {[y EXCEPT !.updated = FALSE] : y \in performScheduleItem(x, over)}
                    ELSE {x}
<1>1. x \in DriverRecord /\ ~x.toBeRemoved /\ x.updated \in BOOLEAN BY DEF Ready, DriverRecord
<1>2. ASSUME NEW y \in begun PROVE Performed(p, Begun(x), y)
  <2>1. CASE x.updated
    <3>1. PICK r \in Requests : x.items = Legs(p, r) BY <1>1, <2>1 DEF Ready, Rested
    <3>2. Going(p, x, x) BY <1>1, ReadyGoing
    <3>3. x.items # <<>> /\ Head(x.items).kind = "PICKUP" BY <3>1, LegsFacts
    <3>4. PICK u \in performScheduleItem(x, over) : y = Begun(u) BY <2>1 DEF Begun
    <3>5. u \in beginDriveToPickUpPoint(x, over)
      <4>1. u \in performScheduleItem(x, over) OBVIOUS
      <4>2. QED BY ONLY <3>3, <4>1 DEF performScheduleItem
    <3>6. Performed(p, x, u) BY <3>1, <3>2, <3>5, PickUpGoing
    <3>7. QED BY <1>1, <3>4, <3>6, BegunGoing
  <2>2. CASE ~x.updated
    <3> DEFINE w == Begun(x)
    <3>1. w \in DriverRecord /\ w.items = x.items /\ w.place = x.place /\ w.updated = x.updated
      BY <1>1, <2>2 DEF Begun, DriverRecord
    <3> HIDE DEF w
    <3>2. AtRest(p, x) BY <1>1, <2>2 DEF Ready, Rested
    <3>3. Going(p, w, x) BY <3>1, ReadyGoing
    <3>4. y = x BY <2>2
    <3>5. QED BY <3>2, <3>3, <3>4 DEF Performed, w
  <2>3. QED BY <1>1, <2>1, <2>2
<1>3. z \in IF x.status = "PARKED" THEN {EndParked(y, over) : y \in begun}
            ELSE UNION {Drive(y, over) : y \in begun}
  BY DEF Ticked
<1> HIDE DEF begun
<1>4. ASSUME NEW y \in begun, z \in Drive(y, over) PROVE Effect(p, x, z)
  <2>1. Performed(p, Begun(x), y) BY <1>2
  <2>2. Performed(p, Begun(x), z) BY <1>4, <2>1, DriveGoing
  <2>3. QED BY <1>1, <2>2, PerformedFacts
<1>5. ASSUME NEW y \in begun, z = EndParked(y, over) PROVE Effect(p, x, z)
  <2>1. Performed(p, Begun(x), y) BY <1>2
  <2>2. Effect(p, x, y) BY <1>1, <2>1, PerformedFacts
  <2>3. CASE z = y BY <2>2, <2>3
  <2>4. CASE z # y
    <3> DEFINE v == Leaves(y)
    <3>1. y \in DriverRecord BY <2>2 DEF Effect
    <3>2. z = endShift(v) /\ y.status = "PARKED" /\ over /\ ~y.waiting
      BY <1>5, <2>4 DEF EndParked, Leaves
    <3>3. /\ v \in DriverRecord /\ v.items = y.items /\ v.passengers = y.passengers
          /\ v.sent = y.sent /\ v.waiting = y.waiting /\ v.updated = y.updated /\ v.place = y.place
          /\ v.status = y.status /\ v.sure = y.sure /\ v.toBeRemoved = y.toBeRemoved
      BY <3>1 DEF Leaves, DriverRecord
    <3> HIDE DEF v
    <3>4. CASE y.toBeRemoved
      <4>1. y.sure BY <2>2, <3>4 DEF Effect
      <4>2. z = [Say(v, "SHIFT_END") EXCEPT !.waiting = TRUE] BY <3>2, <3>3 DEF endShift
      <4>3. QED BY ONLY <2>2, <4>1, <4>2, EndEffect DEF v
    <3>5. CASE ~y.toBeRemoved
      <4>1. Going(p, Begun(x), y) /\ AtRest(p, y) BY <2>1, <3>5 DEF Performed
      <4>2. y.items = <<Parking>> BY <3>2, <4>1 DEF AtRest
      <4>3. /\ y.place \in {Begun(x).place, "parking"} /\ y.status # "DRIVE_START"
            /\ (y.sure <=> y.toBeRemoved)
        BY <4>1 DEF Going
      <4>4. Going(p, Begun(x), v) BY ONLY <3>3, <4>1, <4>3, GoingOn
      <4>5. Ordered(v.items) = {} BY <3>3, <4>2, NoLegs
      <4>6. z = EndIfOver(v, over) BY <3>2, <3>3 DEF EndIfOver
      <4>7. v.items = <<Parking>> /\ v.status = "PARKED" BY <3>2, <3>3, <4>2
      <4>8. Going(p, Begun(x), z) /\ z.items = <<Parking>> /\ z.status = "PARKED"
        BY ONLY <4>4, <4>5, <4>6, <4>7, EndGoing
      <4>9. Performed(p, Begun(x), z) BY <4>8 DEF Performed, AtRest
      <4>10. QED BY <1>1, <4>9, PerformedFacts
    <3>6. QED BY <3>4, <3>5
  <2>5. QED BY <2>3, <2>4
<1>6. QED BY <1>3, <1>4, <1>5

-----------------------------------------------------------------------------
(* What is posted to a driver, and what is left of it. *)

\* What is left of the messages to a driver once it has received one.
LEMMA OutRest ==
  ASSUME NEW s \in Seq(Answers), NEW i \in DOMAIN s
  PROVE  /\ Rest(s, i) \in Seq(Answers) /\ s[i] \in Answers
         /\ Single(s) => Single(Rest(s, i))
         /\ LetGo(Rest(s, i)) => LetGo(s)
         /\ Offered(Rest(s, i)) \subseteq Offered(s)
         /\ s[i].kind # "SCHEDULE_PROPOSITION" => Offered(Rest(s, i)) = Offered(s)
         /\ s[i].kind = "SCHEDULE_PROPOSITION" /\ Single(s) =>
              Offered(Rest(s, i)) = {} /\ Offered(s) = {s[i].request}
<1> DEFINE t == Rest(s, i)
<1>1. /\ \A j \in DOMAIN t : \E k \in DOMAIN s :
           k # i /\ t[j] = s[k] /\ k = IF j < i THEN j ELSE j + 1
      /\ \A k \in DOMAIN s : k # i => \E j \in DOMAIN t : t[j] = s[k]
  BY RestParts
<1>2. t \in Seq(Answers) /\ DOMAIN t = 1 .. Len(s) - 1 /\ DOMAIN s = 1 .. Len(s) /\ Len(s) \in Nat
  BY RestIs
<1>3. s[i] \in Answers BY <1>2, ElementOfSeq
<1> HIDE DEF t
<1>4. ASSUME Single(s) PROVE Single(t)
  <2>1. ASSUME NEW j \in DOMAIN t, NEW k \in DOMAIN t,
               t[j].kind = "SCHEDULE_PROPOSITION", t[k].kind = "SCHEDULE_PROPOSITION"
        PROVE  j = k
    <3>1. PICK a \in DOMAIN s : t[j] = s[a] /\ a = IF j < i THEN j ELSE j + 1 BY <1>1
    <3>2. PICK b \in DOMAIN s : t[k] = s[b] /\ b = IF k < i THEN k ELSE k + 1 BY <1>1
    <3>3. a = b BY <1>4, <2>1, <3>1, <3>2 DEF Single
    <3>4. QED BY <1>2, <3>1, <3>2, <3>3
  <2>2. QED BY <2>1 DEF Single
<1>5. LetGo(t) => LetGo(s) BY <1>1 DEF LetGo
<1>6. Offered(t) \subseteq Offered(s)
  <2>1. ASSUME NEW r \in Offered(t) PROVE r \in Offered(s)
    <3>1. PICK j \in DOMAIN t : t[j].kind = "SCHEDULE_PROPOSITION" /\ r = t[j].request
      BY DEF Offered
    <3>2. PICK k \in DOMAIN s : t[j] = s[k] BY <1>1
    <3>3. QED BY <3>1, <3>2 DEF Offered
  <2>2. QED BY <2>1
<1>7. ASSUME s[i].kind # "SCHEDULE_PROPOSITION" PROVE Offered(t) = Offered(s)
  <2>1. ASSUME NEW r \in Offered(s) PROVE r \in Offered(t)
    <3>1. PICK k \in DOMAIN s : s[k].kind = "SCHEDULE_PROPOSITION" /\ r = s[k].request
      BY DEF Offered
    <3>2. PICK j \in DOMAIN t : t[j] = s[k] BY <1>1, <1>7, <3>1
    <3>3. QED BY <3>1, <3>2 DEF Offered
  <2>2. QED BY <1>6, <2>1
<1>8. ASSUME s[i].kind = "SCHEDULE_PROPOSITION", Single(s)
      PROVE  Offered(t) = {} /\ Offered(s) = {s[i].request}
  <2>1. ASSUME NEW k \in DOMAIN s, s[k].kind = "SCHEDULE_PROPOSITION" PROVE k = i
    BY <1>8, <2>1 DEF Single
  <2>2. Offered(s) = {s[i].request} BY <1>8, <2>1 DEF Offered
  <2>3. ASSUME NEW j \in DOMAIN t PROVE t[j].kind # "SCHEDULE_PROPOSITION" BY <1>1, <2>1
  <2>4. Offered(t) = {} BY <2>3 DEF Offered
  <2>5. QED BY <2>2, <2>4
<1>9. QED BY <1>2, <1>3, <1>4, <1>5, <1>6, <1>7, <1>8 DEF t

\* The controller sends a driver one more message.
LEMMA OutAppend ==
  ASSUME NEW s \in Seq(Answers), NEW m \in Answers
  PROVE  /\ Append(s, m) \in Seq(Answers)
         /\ LetGo(Append(s, m)) <=> LetGo(s) \/ m.kind = "UNSUBSCRIBE_SUCCESSFUL"
         /\ m.kind # "SCHEDULE_PROPOSITION" =>
              Offered(Append(s, m)) = Offered(s) /\ (Single(s) => Single(Append(s, m)))
         /\ m.kind = "SCHEDULE_PROPOSITION" /\ Offered(s) = {} =>
              Offered(Append(s, m)) = {m.request} /\ Single(Append(s, m))
<1> DEFINE t == Append(s, m)
<1>1. /\ t \in Seq(Answers) /\ Len(t) = Len(s) + 1 /\ t[Len(s) + 1] = m
      /\ \A i \in 1 .. Len(s) : t[i] = s[i]
  BY AppendProperties
<1>2. Len(s) \in Nat /\ DOMAIN s = 1 .. Len(s) /\ DOMAIN t = 1 .. Len(s) + 1
  BY <1>1, LenProperties
<1> HIDE DEF t
<1>3. /\ \A i \in DOMAIN t : (i \in DOMAIN s /\ t[i] = s[i]) \/ (i = Len(s) + 1 /\ t[i] = m)
      /\ \A i \in DOMAIN s : i \in DOMAIN t /\ t[i] = s[i]
      /\ Len(s) + 1 \in DOMAIN t /\ t[Len(s) + 1] = m
  BY <1>1, <1>2
<1>4. LetGo(t) <=> LetGo(s) \/ m.kind = "UNSUBSCRIBE_SUCCESSFUL" BY <1>3 DEF LetGo
<1>5. ASSUME m.kind # "SCHEDULE_PROPOSITION" PROVE Offered(t) = Offered(s) BY <1>3, <1>5 DEF Offered
<1>6. ASSUME m.kind # "SCHEDULE_PROPOSITION", Single(s) PROVE Single(t)
  BY <1>3, <1>6 DEF Single
<1>7. ASSUME m.kind = "SCHEDULE_PROPOSITION", Offered(s) = {}
      PROVE  Offered(t) = {m.request} /\ Single(t)
  <2>1. \A i \in DOMAIN s : s[i].kind # "SCHEDULE_PROPOSITION" BY <1>7 DEF Offered
  <2>2. \A i \in DOMAIN t : t[i].kind = "SCHEDULE_PROPOSITION" => i = Len(s) + 1 BY <1>3, <2>1
  <2>3. Offered(t) = {m.request} BY <1>3, <1>7, <2>2 DEF Offered
  <2>4. Single(t) BY <2>2 DEF Single
  <2>5. QED BY <2>3, <2>4
<1>8. QED BY <1>1, <1>4, <1>5, <1>6, <1>7 DEF t

\* No message offers a trip or lets a driver go.
LEMMA NothingSent == Offered(<<>>) = {} /\ Single(<<>>) /\ ~LetGo(<<>>)
BY DEF Offered, Single, LetGo

\* A list and a message are an appended list.
LEMMA OneMore ==
  ASSUME NEW T, NEW s \in Seq(T), NEW m \in T
  PROVE  s \o <<m>> = Append(s, m) /\ s \o <<>> = s /\ <<>> \o s = s
<1>1. <<m>> \in Seq(T) /\ Len(<<m>>) = 1 /\ <<m>>[1] = m OBVIOUS
<1>2. s \o <<>> = s /\ <<>> \o s = s BY ConcatEmptySeq
<1>3. /\ s \o <<m>> \in Seq(T) /\ Len(s \o <<m>>) = Len(s) + Len(<<m>>)
      /\ \A i \in 1 .. Len(s) + Len(<<m>>) :
           (s \o <<m>>)[i] = IF i <= Len(s) THEN s[i] ELSE <<m>>[i - Len(s)]
  BY ONLY <1>1, s \in Seq(T), ConcatProperties
<1>4. /\ Append(s, m) \in Seq(T) /\ Len(Append(s, m)) = Len(s) + 1
      /\ Append(s, m)[Len(s) + 1] = m /\ \A i \in 1 .. Len(s) : Append(s, m)[i] = s[i]
  BY AppendProperties
<1>5. Len(s) \in Nat BY LenProperties
<1> DEFINE a == s \o <<m>>
           b == Append(s, m)
           o == <<m>>
<1>6. o[1] = m /\ Len(o) = 1 BY <1>1
<1>7. a \in Seq(T) /\ Len(a) = Len(s) + 1
      /\ \A i \in 1 .. Len(s) + 1 : a[i] = IF i <= Len(s) THEN s[i] ELSE o[i - Len(s)]
  BY <1>1, <1>3, <1>5
<1> HIDE DEF a, b, o
<1>8. b \in Seq(T) /\ Len(b) = Len(s) + 1 /\ b[Len(s) + 1] = m
      /\ \A i \in 1 .. Len(s) : b[i] = s[i]
  BY <1>4 DEF b
<1>9. ASSUME NEW i \in 1 .. Len(s) + 1 PROVE a[i] = b[i]
  <2>1. CASE i <= Len(s) BY <1>5, <1>7, <1>8, <2>1
  <2>2. CASE i = Len(s) + 1
    <3>1. i - Len(s) = 1 /\ ~(i <= Len(s)) BY <1>5, <2>2
    <3>2. a[i] = o[i - Len(s)] BY <1>7, <3>1
    <3>3. QED BY <1>6, <1>8, <2>2, <3>1, <3>2
  <2>3. QED BY <1>5, <2>1, <2>2
<1>10. a = b BY <1>7, <1>8, <1>9, SeqEqual
<1>11. QED BY <1>2, <1>10 DEF a, b

-----------------------------------------------------------------------------
(* A driver's update, as a step of its view. *)

\* A driver's update keeps its view good: it has received all its messages, and what it
\* says now is all that it has said in this tick.
LEMMA UpdateGood ==
  ASSUME NEW p,
         NEW v \in Views, NEW w \in Views, Good(p, v),
         v.x.place \in {"road", "parking"}, ~v.x.toBeRemoved, v.out = <<>>, ~v.updated,
         NEW z, Effect(p, v.x, z),
         w.x.items = z.items, w.x.passengers = z.passengers, w.x.status = z.status,
         w.x.toBeRemoved = z.toBeRemoved, w.x.sure = z.sure, w.x.updated = z.updated,
         w.x.sent = <<>>, w.x.place = PlaceAfter(v.x, z),
         w.in = v.in, w.new = z.sent, w.out = v.out, w.sent = v.sent, w.updated,
         z.sure => ~w.known /\ ~w.free /\ ~w.subscribed /\ w.copy = <<>>,
         ~z.sure => /\ w.known = v.known /\ w.free = v.free
                    /\ w.subscribed = v.subscribed /\ w.copy = v.copy
  PROVE  Good(p, w)
<1>1. /\ v.x \in DriverRecord /\ w.x \in DriverRecord /\ v.known \in BOOLEAN /\ w.known \in BOOLEAN
      /\ v.free \in BOOLEAN /\ w.free \in BOOLEAN /\ v.subscribed \in BOOLEAN
      /\ w.subscribed \in BOOLEAN
  BY DEF Views
<1>2. /\ Shape(p, z) /\ (z.toBeRemoved \/ AtRest(p, z))
      /\ z.place \in {v.x.place, "parking"} /\ z.status # "DRIVE_START" /\ ~z.updated
      /\ z.sure <=> z.toBeRemoved
      /\ Job(w) => Job(v)
      /\ ~Job(v) => \A m : Has(w.new, m) => m = "SHIFT_END"
      /\ ~Has(w.new, "SUBSCRIBE")
      /\ Has(w.new, "AVAILABLE") => ~Job(w) /\ Job(v)
      /\ Job(w) => Said(p, v.x, z) /\ (Has(w.new, "SHIFT_END") => z.sure)
  BY DEF Effect, Job
<1>3. /\ Loaded(p, v) /\ OneJob(v) /\ Copied(p, v) /\ Ending(v) BY DEF Good
<1>4. /\ v.new = <<>> /\ ~v.x.sure /\ (v.free \/ v.subscribed => v.known)
      /\ (~v.known => v.copy = <<>>)
  BY <1>3 DEF Loaded
<1>5. \A m : ~Has(v.new, m) BY <1>4, NoneHas
<1>6. Offers(w) = Offers(v) /\ Wakes(w.in) = Wakes(v.in) /\ LetGo(w.out) = LetGo(v.out)
      /\ LetGo(w.sent) = LetGo(v.sent)
  BY DEF Offers, Wakes
<1>7. (w.known => v.known) /\ (w.free => v.free) /\ (Awake(w) => Awake(v))
  BY <1>1, <1>6 DEF Awake
<1>8. w.x.place # "unloaded" /\ (w.x.toBeRemoved => w.x.place = "deleted")
      /\ (~w.x.toBeRemoved => w.x.place # "deleted")
  BY <1>2 DEF PlaceAfter
<1>9. Shape(p, w.x) /\ (AtRest(p, z) => AtRest(p, w.x)) BY <1>2 DEF Shape, AtRest
<1>10. Loaded(p, w)
  BY <1>1, <1>2, <1>4, <1>8, <1>9 DEF Loaded, Rested
<1>11. Wakes(w.new) => Job(v) /\ ~Job(w) BY <1>2 DEF Wakes
<1>12. OneJob(w)
  <2>1. Awake(v) \/ Wakes(v.new) => ~Job(v) /\ Offers(v) = {} BY <1>3 DEF OneJob
  <2>2. Offers(v) # {} => ~Job(v) /\ ~Has(v.in, "STATUS") BY <1>3 DEF OneJob
  <2>3. /\ OneOffer(v) /\ (Has(v.in, "SUBSCRIBE") => ~v.known) /\ Once(v.in, "SUBSCRIBE")
        /\ ~(Has(v.in, "SUBSCRIBE") /\ Has(v.in, "AVAILABLE"))
    BY <1>3 DEF OneJob
  <2>4. OneOffer(w) BY <2>3 DEF OneOffer
  <2>5. Awake(w) \/ Wakes(w.new) => ~Job(w) /\ Offers(w) = {}
    BY <1>2, <1>6, <1>7, <1>11, <2>1, <2>2
  <2>6. Offers(w) # {} => ~Job(w) /\ ~Has(w.in, "STATUS") /\ ~Has(w.new, "STATUS")
    BY <1>2, <1>6, <2>2
  <2>7. Awake(w) => \A i \in DOMAIN w.new : w.new[i] = "SHIFT_END"
    BY <1>2, <1>7, <2>1 DEF Has
  <2>8. Once(w.new, "SUBSCRIBE") BY <1>2 DEF Once, Has
  <2>9. QED BY <1>2, <1>7, <2>3, <2>4, <2>5, <2>6, <2>7, <2>8 DEF OneJob
<1>13. Copied(p, w)
  <2>1. SUFFICES ASSUME w.known PROVE Copied(p, w) BY DEF Copied
  <2>2. ~z.sure /\ v.known /\ w.free = v.free /\ w.copy = v.copy BY <1>7, <2>1
  <2>3. /\ \A r \in Offers(v) : v.copy = Tail(Legs(p, r))
        /\ v.free => v.copy = <<>>
        /\ \A r \in Requests :
             /\ v.x.items = Legs(p, r) => v.copy = Tail(Legs(p, r)) /\ ~Has(v.in, "STATUS")
             /\ v.x.items = Tail(Legs(p, r)) =>
                  \/ v.copy = Tail(Legs(p, r)) /\ Has(v.in, "STATUS") /\ Once(v.in, "STATUS")
                  \/ v.copy = Tail(Tail(Legs(p, r))) /\ ~Has(v.in, "STATUS")
    BY <1>3, <1>5, <2>2 DEF Copied
  <2>4. ASSUME NEW r \in Requests, w.x.items = Legs(p, r)
        PROVE  w.copy = Tail(Legs(p, r)) /\ ~Has(w.in, "STATUS") /\ ~Has(w.new, "STATUS")
    <3>1. Job(w)
      <4>1. Ordered(Legs(p, r)) = {r} BY LegsFacts
      <4>2. QED BY <2>4, <4>1 DEF Job
    <3>2. z.items = v.x.items /\ ~Has(z.sent, "STATUS")
      <4>1. ASSUME NEW q \in Requests, z.items = Tail(Legs(p, q)) PROVE FALSE
        <5>1. Legs(p, r) # Tail(Legs(p, q)) BY LegsDiffer
        <5>2. QED BY <2>4, <4>1, <5>1
      <4>2. QED BY <1>2, <3>1, <4>1 DEF Said
    <3>3. QED BY <2>2, <2>3, <2>4, <3>2
  <2>5. ASSUME NEW r \in Requests, w.x.items = Tail(Legs(p, r))
        PROVE  \/ w.copy = Tail(Legs(p, r)) /\ Once(w.in, "STATUS") /\ Once(w.new, "STATUS")
                  /\ (Has(w.in, "STATUS") <=> ~Has(w.new, "STATUS"))
               \/ w.copy = Tail(Tail(Legs(p, r))) /\ ~Has(w.in, "STATUS") /\ ~Has(w.new, "STATUS")
    <3>1. Job(w)
      <4>1. Ordered(Tail(Legs(p, r))) = {r} BY LegsFacts
      <4>2. QED BY <2>5, <4>1 DEF Job
    <3>2. CASE z.items = v.x.items /\ ~Has(z.sent, "STATUS")
      <4>1. Once(w.new, "STATUS") BY <3>2 DEF Once, Has
      <4>2. QED BY <2>2, <2>3, <2>5, <3>2, <4>1
    <3>3. ASSUME NEW q \in Requests, v.x.items = Legs(p, q), z.items = Tail(Legs(p, q)),
                 Has(z.sent, "STATUS"), Once(z.sent, "STATUS")
          PROVE  /\ w.copy = Tail(Legs(p, r)) /\ Once(w.in, "STATUS") /\ Once(w.new, "STATUS")
                 /\ (Has(w.in, "STATUS") <=> ~Has(w.new, "STATUS"))
      <4>1. r = q
        <5>1. Tail(Legs(p, r)) = Tail(Legs(p, q)) BY <2>5, <3>3
        <5>2. Tail(Legs(p, r)) = Tail(Legs(p, q)) => r = q BY LegsDiffer
        <5>3. QED BY <5>1, <5>2
      <4>2. v.copy = Tail(Legs(p, q)) /\ ~Has(v.in, "STATUS") BY <2>3, <3>3
      <4>3. Once(w.in, "STATUS") BY <4>2 DEF Once, Has
      <4>4. QED BY <2>2, <3>3, <4>1, <4>2, <4>3
    <3>4. QED BY <1>2, <3>1, <3>2, <3>3 DEF Said
  <2>6. QED BY <1>6, <2>2, <2>3, <2>4, <2>5 DEF Copied
<1>14. Ending(w)
  <2>1. Job(w) /\ Has(w.new, "SHIFT_END") => ~w.known BY <1>2
  <2>2. Has(w.in, "SHIFT_END") /\ w.known /\ (Job(w) \/ Wakes(w.new)) =>
          w.copy # <<>> /\ ~Has(w.in, "STATUS")
    <3>1. Has(v.in, "SHIFT_END") /\ v.known /\ Job(v) => v.copy # <<>> /\ ~Has(v.in, "STATUS")
      BY <1>3 DEF Ending
    <3>2. w.known => w.copy = v.copy OBVIOUS
    <3>3. QED BY <1>2, <1>7, <1>11, <3>1, <3>2
  <2>3. ASSUME Gone(w)
        PROVE  ~Job(w) /\ Offers(w) = {} /\ ~w.known /\ ~Wakes(w.in) /\ ~Wakes(w.new)
    <3>1. Gone(v)
      <4>1. ~(w.x.toBeRemoved /\ ~w.x.sure) BY <1>2
      <4>2. QED BY <1>6, <2>3, <4>1 DEF Gone
    <3>2. ~Job(v) /\ Offers(v) = {} /\ ~v.known /\ ~Wakes(v.in)
      BY <1>3, <2>3, <3>1 DEF Ending
    <3>3. QED BY <1>2, <1>6, <1>7, <1>11, <3>2
  <2>4. ASSUME w.x.place # "deleted"
        PROVE  /\ w.known <=> w.subscribed
               /\ Job(w) \/ Offers(w) # {} \/ Has(w.in, "AVAILABLE") \/ Has(w.new, "AVAILABLE")
                    => w.known
    <3>1. /\ v.known <=> v.subscribed
          /\ Job(v) \/ Offers(v) # {} \/ Has(v.in, "AVAILABLE") => v.known
      BY <1>3, <2>4 DEF Ending
    <3>2. ~z.sure BY <1>2, <1>8, <2>4
    <3>3. QED BY <1>2, <1>6, <3>1, <3>2
  <2>5. QED BY <2>1, <2>2, <2>3, <2>4 DEF Ending
<1>15. QED BY <1>10, <1>12, <1>13, <1>14 DEF Good

-----------------------------------------------------------------------------
(* Steps that only take away from a view: messages that change nothing else, and the end
   of a driver. *)

Less(v, w) ==
  /\ v.x.place # "unloaded" /\ w.x.place \in {v.x.place, "deleted"}
  /\ w.x.items = v.x.items /\ w.x.passengers = v.x.passengers /\ w.x.status = v.x.status
  /\ w.x.updated = v.x.updated /\ w.x.sure = v.x.sure /\ w.x.sent = <<>>
  /\ v.x.toBeRemoved => w.x.toBeRemoved
  /\ \A m : (Has(w.in, m) => Has(v.in, m)) /\ (Once(v.in, m) => Once(w.in, m))
  /\ Has(v.in, "STATUS") /\ w.known /\ w.x.place # "deleted" => Has(w.in, "STATUS")
  /\ w.new = v.new /\ (w.updated => w.out = <<>>) /\ (~w.updated => w.new = <<>>)
  /\ (Single(v.out) => Single(w.out)) /\ (Single(v.sent) => Single(w.sent))
  /\ Offered(w.out) \subseteq Offered(v.out) /\ Offered(w.sent) = Offered(v.sent)
  /\ Gone(w) => Gone(v)
  /\ w.known = v.known /\ w.copy = v.copy /\ w.subscribed = v.subscribed
  /\ w.free => v.free

\* Such a step keeps the view good.
LEMMA LessGood ==
  ASSUME NEW p, NEW v \in Views, NEW w \in Views,
         Good(p, v), Less(v, w)
  PROVE  Good(p, w)
<1>1. /\ v.x \in DriverRecord /\ w.x \in DriverRecord /\ v.known \in BOOLEAN /\ w.known \in BOOLEAN
      /\ v.free \in BOOLEAN /\ w.free \in BOOLEAN /\ v.subscribed \in BOOLEAN
      /\ w.subscribed \in BOOLEAN
  BY DEF Views
<1>2. /\ Loaded(p, v) /\ OneJob(v) /\ Copied(p, v) /\ Ending(v) BY DEF Good
<1>3. Offers(w) \subseteq Offers(v) /\ (Job(w) <=> Job(v)) /\ (Wakes(w.in) => Wakes(v.in))
      /\ Wakes(w.new) = Wakes(v.new) /\ (Awake(w) => Awake(v))
  BY DEF Less, Offers, Job, Wakes, Awake
<1>4. Loaded(p, w)
  <2>1. Shape(p, w.x) BY <1>2 DEF Less, Loaded, Shape
  <2>2. Rested(p, v.x) /\ (v.x.status = "DRIVE_START" => v.x.sure) BY <1>2 DEF Less, Loaded
  <2>3. Rested(p, w.x) BY <2>2 DEF Less, Rested, AtRest
  <2>4. /\ v.x.sure => v.x.toBeRemoved
        /\ v.x.sure /\ v.x.place # "deleted" =>
             v.x.place = "nowhere" /\ ~v.known /\ ~Job(v) /\ Offers(v) = {}
        /\ v.free \/ v.subscribed => v.known
        /\ ~v.known => v.copy = <<>>
    BY <1>2 DEF Loaded
  <2>5. w.x.sure /\ w.x.place # "deleted" =>
          w.x.place = "nowhere" /\ ~w.known /\ ~Job(w) /\ Offers(w) = {}
    BY <1>3, <2>4 DEF Less
  <2>6. /\ w.x.sure => w.x.toBeRemoved
        /\ w.free \/ w.subscribed => w.known
        /\ ~w.known => w.copy = <<>>
        /\ w.x.sent = <<>> /\ w.x.place # "unloaded" /\ (w.x.status = "DRIVE_START" => w.x.sure)
        /\ ~w.updated => w.new = <<>>
        /\ w.updated => w.out = <<>>
    BY <2>2, <2>4 DEF Less
  <2>7. QED BY <2>1, <2>3, <2>5, <2>6 DEF Loaded
<1>5. OneJob(w)
  <2>1. OneOffer(w) BY <1>2 DEF OneJob, OneOffer, Less
  <2>2. Awake(w) \/ Wakes(w.new) => ~Job(w) /\ Offers(w) = {} BY <1>2, <1>3 DEF OneJob
  <2>3. Offers(w) # {} => ~Job(w) /\ ~Has(w.in, "STATUS") /\ ~Has(w.new, "STATUS")
    <3>1. Offers(w) # {} => Offers(v) # {} BY <1>3
    <3>2. QED BY <1>2, <1>3, <3>1 DEF OneJob, Less
  <2>4. Awake(w) => \A i \in DOMAIN w.new : w.new[i] = "SHIFT_END" BY <1>2, <1>3 DEF OneJob, Less
  <2>5. /\ Has(w.in, "SUBSCRIBE") \/ Has(w.new, "SUBSCRIBE") => ~w.known
        /\ Once(w.in, "SUBSCRIBE") /\ Once(w.new, "SUBSCRIBE")
        /\ ~(Has(w.in, "SUBSCRIBE") /\ Has(w.in, "AVAILABLE"))
        /\ ~(Has(w.new, "SUBSCRIBE") /\ Has(w.new, "AVAILABLE"))
    BY <1>2 DEF OneJob, Less
  <2>6. QED BY <2>1, <2>2, <2>3, <2>4, <2>5 DEF OneJob
<1>6. Copied(p, w)
  <2>1. SUFFICES ASSUME w.known PROVE Copied(p, w) BY DEF Copied
  <2>2. /\ v.known /\ w.copy = v.copy /\ w.x.items = v.x.items /\ w.new = v.new
        /\ (w.free => v.free) /\ (w.x.place # "deleted" => v.x.place # "deleted")
        /\ (w.x.place # "deleted" => (Has(w.in, "STATUS") <=> Has(v.in, "STATUS")))
        /\ (Once(v.in, "STATUS") => Once(w.in, "STATUS"))
    BY <1>1, <2>1 DEF Less
  <2>3. /\ \A r \in Offers(v) : v.copy = Tail(Legs(p, r))
        /\ v.free => v.copy = <<>>
        /\ v.x.place # "deleted" => \A r \in Requests :
             /\ v.x.items = Legs(p, r) =>
                  v.copy = Tail(Legs(p, r)) /\ ~Has(v.in, "STATUS") /\ ~Has(v.new, "STATUS")
             /\ v.x.items = Tail(Legs(p, r)) =>
                  \/ v.copy = Tail(Legs(p, r)) /\ Once(v.in, "STATUS") /\ Once(v.new, "STATUS")
                     /\ (Has(v.in, "STATUS") <=> ~Has(v.new, "STATUS"))
                  \/ v.copy = Tail(Tail(Legs(p, r)))
                     /\ ~Has(v.in, "STATUS") /\ ~Has(v.new, "STATUS")
    BY <1>2, <2>2 DEF Copied
  <2>4. ASSUME w.x.place # "deleted", NEW r \in Requests
        PROVE  /\ w.x.items = Legs(p, r) =>
                    w.copy = Tail(Legs(p, r)) /\ ~Has(w.in, "STATUS") /\ ~Has(w.new, "STATUS")
               /\ w.x.items = Tail(Legs(p, r)) =>
                    \/ w.copy = Tail(Legs(p, r)) /\ Once(w.in, "STATUS") /\ Once(w.new, "STATUS")
                       /\ (Has(w.in, "STATUS") <=> ~Has(w.new, "STATUS"))
                    \/ w.copy = Tail(Tail(Legs(p, r)))
                     /\ ~Has(w.in, "STATUS") /\ ~Has(w.new, "STATUS")
    BY <2>2, <2>3, <2>4
  <2>5. \A r \in Offers(w) : w.copy = Tail(Legs(p, r)) BY <1>3, <2>2, <2>3
  <2>6. QED BY <2>2, <2>3, <2>4, <2>5 DEF Copied
<1>7. Ending(w)
  <2>1. Job(w) /\ Has(w.new, "SHIFT_END") => ~w.known
    BY <1>2, <1>3 DEF Ending, Less
  <2>2. Has(w.in, "SHIFT_END") /\ w.known /\ (Job(w) \/ Wakes(w.new)) =>
          w.copy # <<>> /\ ~Has(w.in, "STATUS")
    BY <1>2, <1>3 DEF Ending, Less
  <2>3. ASSUME Gone(w)
        PROVE  ~Job(w) /\ Offers(w) = {} /\ ~w.known /\ ~Wakes(w.in) /\ ~Wakes(w.new)
    <3>1. ~Job(v) /\ Offers(v) = {} /\ ~v.known /\ ~Wakes(v.in) /\ ~Wakes(v.new)
      BY <1>2, <2>3 DEF Ending, Less
    <3>2. QED BY <1>3, <3>1 DEF Less
  <2>4. ASSUME w.x.place # "deleted"
        PROVE  /\ w.known <=> w.subscribed
               /\ Job(w) \/ Offers(w) # {} \/ Has(w.in, "AVAILABLE") \/ Has(w.new, "AVAILABLE")
                    => w.known
    <3>1. v.x.place # "deleted" BY <2>4 DEF Less
    <3>2. /\ v.known <=> v.subscribed
          /\ Job(v) \/ Offers(v) # {} \/ Has(v.in, "AVAILABLE") \/ Has(v.new, "AVAILABLE")
               => v.known
      BY <1>2, <2>4, <3>1 DEF Ending
    <3>3. QED BY <1>3, <3>2 DEF Less
  <2>5. QED BY <2>1, <2>2, <2>3, <2>4 DEF Ending
<1>8. QED BY <1>4, <1>5, <1>6, <1>7 DEF Good

-----------------------------------------------------------------------------
(* A driver receives a proposal: it has one trip from here on. *)

Proposed(p, r, v, w) ==
  /\ v.x.place \notin {"unloaded", "deleted"} /\ w.x.place = v.x.place
  /\ w.x.items = Legs(p, r) /\ w.x.updated /\ w.x.passengers = v.x.passengers
  /\ w.x.status = v.x.status /\ w.x.sure = v.x.sure /\ w.x.sent = <<>>
  /\ w.x.toBeRemoved = v.x.toBeRemoved
  /\ r \in Offers(v) /\ Offers(w) = {} /\ OneOffer(w)
  /\ LetGo(w.out) => LetGo(v.out)
  /\ w.in = v.in /\ w.new = v.new /\ w.sent = v.sent /\ w.updated = v.updated /\ v.new = <<>>
  /\ w.updated => w.out = <<>>
  /\ w.known = v.known /\ w.copy = v.copy /\ w.subscribed = v.subscribed /\ w.free = v.free

\* The trip goes from the offers to the schedule, and the view stays good.
LEMMA ProposedGood ==
  ASSUME NEW p, NEW v \in Views, NEW w \in Views,
         Good(p, v), NEW r \in Requests, Proposed(p, r, v, w)
  PROVE  Good(p, w)
<1>1. /\ v.x \in DriverRecord /\ w.x \in DriverRecord /\ v.known \in BOOLEAN
      /\ v.free \in BOOLEAN /\ v.subscribed \in BOOLEAN
  BY DEF Views
<1>2. /\ Loaded(p, v) /\ OneJob(v) /\ Copied(p, v) /\ Ending(v) BY DEF Good
<1>3. /\ Legs(p, r) # <<>> /\ Tail(Legs(p, r)) # <<>> /\ Ordered(Legs(p, r)) = {r}
      /\ \A q \in Requests : Legs(p, r) # Tail(Legs(p, q)) /\ (Legs(p, r) = Legs(p, q) => r = q)
  BY LegsFacts, LegsDiffer
<1>4. Offers(v) # {} /\ ~Job(v) /\ ~Awake(v) /\ ~Has(v.in, "STATUS") /\ ~Has(v.new, "STATUS")
  BY <1>2 DEF OneJob, Proposed
<1>5. Job(w) BY <1>3 DEF Job, Proposed
<1>6. \A m : ~Has(w.new, m) BY NoneHas DEF Proposed
<1>7. ~Awake(w) /\ ~Wakes(w.new) BY <1>4, <1>6 DEF Awake, Wakes, Proposed
<1>8. Loaded(p, w)
  <2>1. v.x.passengers = {}
    <3>1. Shape(p, v.x) /\ Ordered(v.x.items) = {} BY <1>2, <1>4 DEF Loaded, Job
    <3>2. QED BY <3>1, JobShape
  <2>2. Shape(p, w.x) BY <2>1 DEF Shape, Proposed
  <2>3. Rested(p, w.x) BY DEF Rested, Proposed
  <2>4. ~v.x.sure BY <1>2, <1>4 DEF Loaded, Proposed
  <2>5. QED BY <1>2, <2>2, <2>3, <2>4 DEF Loaded, Proposed
<1>9. OneJob(w)
  <2>1. /\ Has(w.in, "SUBSCRIBE") => ~w.known
        /\ Once(w.in, "SUBSCRIBE") /\ Once(w.new, "SUBSCRIBE")
        /\ ~(Has(w.in, "SUBSCRIBE") /\ Has(w.in, "AVAILABLE"))
    BY <1>2 DEF OneJob, Proposed
  <2>2. OneOffer(w) /\ Offers(w) = {} BY DEF Proposed
  <2>3. QED BY <1>6, <1>7, <2>1, <2>2 DEF OneJob
<1>10. Copied(p, w)
  <2>1. v.known => v.copy = Tail(Legs(p, r)) BY <1>2 DEF Copied, Proposed
  <2>2. ~v.free BY <1>1, <1>4 DEF Awake
  <2>3. QED BY <1>3, <1>4, <1>6, <2>1, <2>2 DEF Copied, Proposed
<1>11. Ending(w)
  <2>1. v.known => v.copy = Tail(Legs(p, r)) BY <1>2 DEF Copied, Proposed
  <2>2. ~Gone(v) BY <1>2, <1>4 DEF Ending
  <2>3. Gone(w) => Gone(v) BY DEF Gone, Proposed
  <2>4. (w.known <=> w.subscribed) /\ w.known BY <1>2, <1>4 DEF Ending, Proposed
  <2>5. w.copy # <<>> /\ ~Has(w.in, "STATUS") BY <1>3, <1>4, <2>1, <2>4 DEF Proposed
  <2>6. QED BY <1>6, <2>2, <2>3, <2>4, <2>5 DEF Ending
<1>12. QED BY <1>8, <1>9, <1>10, <1>11 DEF Good

-----------------------------------------------------------------------------
(* The controller handles a message. *)

\* One message was taken from those the controller handles, and nothing else changed but
\* what the controller knows.
Taken(m, v, w) ==
  /\ v.x.place # "unloaded" /\ w.x = v.x
  /\ Has(v.in, m)
  /\ \A n : (Has(w.in, n) => Has(v.in, n)) /\ (Once(v.in, n) => Once(w.in, n))
            /\ (n # m /\ Has(v.in, n) => Has(w.in, n))
  /\ Once(v.in, m) => ~Has(w.in, m)
  /\ w.new = v.new /\ w.out = v.out /\ w.updated = v.updated

\* A driver that is free has no trip, and what it says in this tick is the end of its shift.
LEMMA AwakeFacts ==
  ASSUME NEW p, NEW v, Good(p, v), Awake(v)
  PROVE  /\ ~Job(v) /\ Offers(v) = {} /\ ~Wakes(v.new)
         /\ \A m : Has(v.new, m) => m = "SHIFT_END"
         /\ ~Gone(v)
<1>1. OneJob(v) /\ Ending(v) BY DEF Good
<1>2. \A m : Has(v.new, m) => m = "SHIFT_END" BY <1>1 DEF OneJob, Has
<1>3. ~Wakes(v.new) BY <1>2 DEF Wakes
<1>4. ~Gone(v)
  <2>1. v.free => v.known BY DEF Good, Loaded
  <2>2. QED BY <1>1, <2>1 DEF Ending, Awake
<1>5. QED BY <1>1, <1>2, <1>3, <1>4 DEF OneJob

\* The driver becomes free: it has subscribed, or has said so.
FreeAgain(v, w) ==
  /\ w.sent = v.sent /\ w.known /\ w.free /\ w.copy = <<>>
  /\ v.x.sure => v.x.place = "deleted"
  /\ \/ Taken("SUBSCRIBE", v, w) /\ w.subscribed
     \/ Taken("AVAILABLE", v, w) /\ w.subscribed = v.subscribed

\* A message SUBSCRIBE or AVAILABLE is handled.
LEMMA FreeAgainGood ==
  ASSUME NEW p, NEW v \in Views, NEW w \in Views,
         Good(p, v), FreeAgain(v, w)
  PROVE  Good(p, w)
<1>1. /\ v.x \in DriverRecord /\ v.known \in BOOLEAN /\ w.known \in BOOLEAN /\ v.free \in BOOLEAN
      /\ w.free \in BOOLEAN /\ v.subscribed \in BOOLEAN /\ w.subscribed \in BOOLEAN
  BY DEF Views
<1>2. Loaded(p, v) /\ OneJob(v) /\ Copied(p, v) /\ Ending(v) BY DEF Good
<1>3. Awake(v) BY DEF FreeAgain, Taken, Awake, Wakes
<1>4. /\ ~Job(v) /\ Offers(v) = {} /\ ~Wakes(v.new) /\ \A m : Has(v.new, m) => m = "SHIFT_END"
      /\ ~Gone(v)
  BY <1>3, AwakeFacts
<1>5. /\ v.x.place # "unloaded" /\ w.x = v.x /\ w.new = v.new /\ w.out = v.out
      /\ w.updated = v.updated /\ w.sent = v.sent
      /\ \A n : (Has(w.in, n) => Has(v.in, n)) /\ (Once(v.in, n) => Once(w.in, n))
  BY DEF FreeAgain, Taken
<1>6. Job(w) = Job(v) /\ Offers(w) = Offers(v) /\ Gone(w) = Gone(v) /\ Wakes(w.new) = Wakes(v.new)
  BY <1>5 DEF Job, Offers, Gone, Wakes
<1>7. Loaded(p, w)
  <2>1. w.x.sure => w.x.place = "deleted" BY <1>5 DEF FreeAgain
  <2>2. QED BY <1>2, <1>5, <2>1 DEF Loaded, FreeAgain
<1>8. OneJob(w)
  <2>1. ~Has(w.in, "SUBSCRIBE")
    <3>1. Once(v.in, "SUBSCRIBE") /\ ~(Has(v.in, "SUBSCRIBE") /\ Has(v.in, "AVAILABLE"))
      BY <1>2 DEF OneJob
    <3>2. QED BY <1>5, <3>1 DEF FreeAgain, Taken
  <2>2. ~Has(w.new, "SUBSCRIBE") /\ ~Has(w.new, "STATUS") BY <1>4, <1>5
  <2>3. OneOffer(w) BY <1>2, <1>5 DEF OneJob, OneOffer
  <2>4. \A i \in DOMAIN w.new : w.new[i] = "SHIFT_END" BY <1>4, <1>5 DEF Has
  <2>5. Once(w.in, "SUBSCRIBE") /\ Once(w.new, "SUBSCRIBE") BY <1>2, <1>5 DEF OneJob
  <2>6. QED BY <1>4, <1>6, <2>1, <2>2, <2>3, <2>4, <2>5 DEF OneJob
<1>9. Copied(p, w)
  <2>1. ASSUME NEW r \in Requests PROVE w.x.items # Legs(p, r) /\ w.x.items # Tail(Legs(p, r))
    <3>1. Ordered(w.x.items) = {} BY <1>4, <1>6 DEF Job
    <3>2. Ordered(Legs(p, r)) = {r} /\ Ordered(Tail(Legs(p, r))) = {r} BY LegsFacts
    <3>3. QED BY <3>1, <3>2
  <2>2. QED BY <1>4, <1>6, <2>1 DEF Copied, FreeAgain
<1>10. Ending(w)
  <2>1. ~Gone(w) BY <1>4, <1>6
  <2>2. ASSUME w.x.place # "deleted" PROVE w.subscribed
    <3>1. CASE Taken("SUBSCRIBE", v, w) /\ w.subscribed BY <3>1
    <3>2. CASE Taken("AVAILABLE", v, w) /\ w.subscribed = v.subscribed
      <4>1. Has(v.in, "AVAILABLE") BY <3>2 DEF Taken
      <4>2. QED BY <1>2, <1>5, <2>2, <3>2, <4>1 DEF Ending
    <3>3. QED BY <3>1, <3>2 DEF FreeAgain
  <2>3. w.known BY DEF FreeAgain
  <2>4. QED BY <1>4, <1>6, <2>1, <2>2, <2>3 DEF Ending
<1>11. QED BY <1>7, <1>8, <1>9, <1>10 DEF Good

\* The controller drops an item of its copy.
StatusTaken(v, w) ==
  /\ Taken("STATUS", v, w) /\ w.sent = v.sent
  /\ w.known = v.known /\ w.free = v.free /\ w.subscribed = v.subscribed
  /\ w.copy = IF v.copy # <<>> THEN Tail(v.copy) ELSE v.copy

\* A message STATUS is handled: the copy drops what the driver has done.
LEMMA StatusGood ==
  ASSUME NEW p, NEW v \in Views, NEW w \in Views,
         Good(p, v), StatusTaken(v, w)
  PROVE  Good(p, w)
<1>1. Loaded(p, v) /\ OneJob(v) /\ Copied(p, v) /\ Ending(v) BY DEF Good
<1>2. /\ v.x.place # "unloaded" /\ w.x = v.x /\ w.new = v.new /\ w.out = v.out
      /\ w.updated = v.updated /\ w.sent = v.sent /\ Has(v.in, "STATUS")
      /\ \A n : (Has(w.in, n) => Has(v.in, n)) /\ (Once(v.in, n) => Once(w.in, n))
      /\ Once(v.in, "STATUS") => ~Has(w.in, "STATUS")
      /\ w.known = v.known /\ w.free = v.free /\ w.subscribed = v.subscribed
      /\ w.copy = IF v.copy # <<>> THEN Tail(v.copy) ELSE v.copy
  BY DEF StatusTaken, Taken
<1>3. /\ Job(w) = Job(v) /\ Offers(w) = Offers(v) /\ Gone(w) = Gone(v)
      /\ Wakes(w.new) = Wakes(v.new)
      /\ (Wakes(w.in) => Wakes(v.in)) /\ (Awake(w) => Awake(v))
  BY <1>2 DEF Job, Offers, Gone, Wakes, Awake
<1>4. Offers(v) = {} BY <1>1, <1>2 DEF OneJob
<1>5. Loaded(p, w) BY <1>1, <1>2, <1>3, <1>4 DEF Loaded
<1>6. OneJob(w)
  <2>1. OneOffer(w) BY <1>1, <1>2 DEF OneJob, OneOffer
  <2>2. QED BY <1>1, <1>2, <1>3, <1>4, <2>1 DEF OneJob
<1>7. Copied(p, w)
  <2>1. SUFFICES ASSUME w.known PROVE Copied(p, w) BY DEF Copied
  <2>2. w.free => w.copy = <<>> BY <1>1, <1>2, <2>1 DEF Copied
  <2>3. ASSUME w.x.place # "deleted", NEW r \in Requests
        PROVE  /\ w.x.items # Legs(p, r)
               /\ w.x.items = Tail(Legs(p, r)) =>
                    w.copy = Tail(Tail(Legs(p, r))) /\ ~Has(w.in, "STATUS") /\ ~Has(w.new, "STATUS")
    <3>1. v.x.items = Legs(p, r) => ~Has(v.in, "STATUS") BY <1>1, <1>2, <2>1, <2>3 DEF Copied
    <3>2. v.x.items = Tail(Legs(p, r)) =>
            v.copy = Tail(Legs(p, r)) /\ Once(v.in, "STATUS") /\ ~Has(v.new, "STATUS")
      BY <1>1, <1>2, <2>1, <2>3 DEF Copied
    <3>3. Tail(Legs(p, r)) # <<>> BY LegsFacts
    <3>4. QED BY <1>2, <3>1, <3>2, <3>3
  <2>4. QED BY <1>3, <1>4, <2>2, <2>3 DEF Copied
<1>8. Ending(w)
  <2>1. ~(Has(w.in, "SHIFT_END") /\ w.known /\ (Job(w) \/ Wakes(w.new)))
    BY <1>1, <1>2, <1>3 DEF Ending
  <2>2. Job(w) /\ Has(w.new, "SHIFT_END") => ~w.known
    BY <1>1, <1>2, <1>3 DEF Ending
  <2>3. ASSUME Gone(w)
        PROVE  ~Job(w) /\ Offers(w) = {} /\ ~w.known /\ ~Wakes(w.in) /\ ~Wakes(w.new)
    <3>1. ~Job(v) /\ Offers(v) = {} /\ ~v.known /\ ~Wakes(v.in) /\ ~Wakes(v.new)
      BY <1>1, <1>3, <2>3 DEF Ending
    <3>2. QED BY <1>2, <1>3, <3>1
  <2>4. ASSUME w.x.place # "deleted"
        PROVE  /\ w.known <=> w.subscribed
               /\ Job(w) \/ Offers(w) # {} \/ Has(w.in, "AVAILABLE") \/ Has(w.new, "AVAILABLE")
                    => w.known
    <3>1. /\ v.known <=> v.subscribed
          /\ Job(v) \/ Offers(v) # {} \/ Has(v.in, "AVAILABLE") \/ Has(v.new, "AVAILABLE")
               => v.known
      BY <1>1, <1>2, <2>4 DEF Ending
    <3>2. QED BY <1>2, <1>3, <3>1
  <2>5. QED BY <2>1, <2>2, <2>3, <2>4 DEF Ending
<1>9. QED BY <1>5, <1>6, <1>7, <1>8 DEF Good

\* The controller lets a driver go that has no schedule.
LetGone(v, w) ==
  /\ Taken("SHIFT_END", v, w) /\ v.known /\ v.copy = <<>>
  /\ ~Has(v.in, "AVAILABLE")
  /\ ~w.known /\ ~w.free /\ ~w.subscribed /\ w.copy = <<>>
  /\ Offered(w.sent) = Offered(v.sent) /\ (Single(v.sent) => Single(w.sent))

\* A message SHIFT_END is handled: the driver is let go, or told to stay.
LEMMA LetGoneGood ==
  ASSUME NEW p, NEW v \in Views, NEW w \in Views,
         Good(p, v), LetGone(v, w)
  PROVE  Good(p, w)
<1>1. Loaded(p, v) /\ OneJob(v) /\ Copied(p, v) /\ Ending(v) BY DEF Good
<1>2. /\ v.x.place # "unloaded" /\ w.x = v.x /\ w.new = v.new /\ w.out = v.out
      /\ w.updated = v.updated /\ Has(v.in, "SHIFT_END") /\ v.known /\ v.copy = <<>>
      /\ \A n : (Has(w.in, n) => Has(v.in, n)) /\ (Once(v.in, n) => Once(w.in, n))
      /\ ~w.known /\ ~w.free /\ ~w.subscribed /\ w.copy = <<>>
  BY DEF LetGone, Taken
<1>3. /\ Job(w) = Job(v) /\ Offers(w) = Offers(v) /\ Wakes(w.new) = Wakes(v.new)
      /\ (Wakes(w.in) => Wakes(v.in)) /\ (Awake(w) => Awake(v))
  BY <1>2 DEF LetGone, Job, Offers, Wakes, Awake
<1>4. Offers(v) = {}
  <2>1. ASSUME NEW r \in Offers(v) PROVE FALSE
    <3>1. v.copy = Tail(Legs(p, r)) BY <1>1, <1>2 DEF Copied
    <3>2. r \in Requests
      <4>1. v.out \in Seq(Answers) /\ v.sent \in Seq(Answers) BY DEF Views
      <4>2. \A i \in DOMAIN v.out : v.out[i] \in Answers BY <4>1, ElementOfSeq, LenProperties
      <4>3. \A i \in DOMAIN v.sent : v.sent[i] \in Answers BY <4>1, ElementOfSeq, LenProperties
      <4>4. PICK a \in Answers : a.kind = "SCHEDULE_PROPOSITION" /\ a.request = r
        BY <4>2, <4>3 DEF Offers, Offered
      <4>5. QED BY <4>4 DEF Answers
    <3>3. QED BY <1>2, <3>1, <3>2, LegsFacts
  <2>2. QED BY <2>1
<1>5. ~Job(v) /\ ~Wakes(v.new) BY <1>1, <1>2 DEF Ending
<1>6. Loaded(p, w) BY <1>1, <1>2, <1>3, <1>4, <1>5 DEF Loaded
<1>7. OneJob(w)
  <2>1. OneOffer(w) BY <1>1, <1>2 DEF OneJob, OneOffer, LetGone
  <2>2. QED BY <1>1, <1>2, <1>3, <1>4, <2>1 DEF OneJob
<1>8. Copied(p, w) BY <1>2 DEF Copied
<1>9. Ending(w)
  <2>1. ~Has(w.in, "AVAILABLE") BY <1>2 DEF LetGone
  <2>2. ~Has(v.in, "SUBSCRIBE") BY <1>1, <1>2 DEF OneJob
  <2>3. ~Wakes(w.in) BY <1>2, <2>1, <2>2 DEF Wakes
  <2>4. ~Has(w.new, "AVAILABLE") BY <1>3, <1>5 DEF Wakes
  <2>5. QED BY <1>2, <1>3, <1>4, <1>5, <2>1, <2>3, <2>4 DEF Ending
<1>10. QED BY <1>6, <1>7, <1>8, <1>9 DEF Good

-----------------------------------------------------------------------------
(* The controller proposes a trip to a driver. *)

Proposition(r) == [kind |-> "SCHEDULE_PROPOSITION", request |-> r]

Assigned(p, r, v, w) ==
  /\ v.free /\ v.in = <<>>
  /\ w.x = v.x /\ w.in = v.in /\ w.new = v.new /\ w.out = v.out /\ w.updated = v.updated
  /\ w.sent = Append(v.sent, Proposition(r))
  /\ w.known = v.known /\ w.subscribed = v.subscribed /\ ~w.free /\ w.copy = Tail(Legs(p, r))

\* The driver to which a trip is assigned had none.
LEMMA AssignedGood ==
  ASSUME NEW p, NEW v \in Views, NEW w \in Views,
         Good(p, v), NEW r \in Requests, Assigned(p, r, v, w)
  PROVE  Good(p, w) /\ Offers(v) = {} /\ Offers(w) = {r} /\ ~Job(v)
<1>1. Loaded(p, v) /\ OneJob(v) /\ Copied(p, v) /\ Ending(v) BY DEF Good
<1>2. /\ v.free /\ v.in = <<>> /\ w.x = v.x /\ w.in = v.in /\ w.new = v.new /\ w.out = v.out
      /\ w.updated = v.updated /\ w.known = v.known /\ w.subscribed = v.subscribed
      /\ ~w.free /\ w.copy = Tail(Legs(p, r))
  BY DEF Assigned
<1>3. Awake(v) /\ v.known BY <1>1, <1>2 DEF Awake, Loaded
<1>4. /\ ~Job(v) /\ Offers(v) = {} /\ ~Wakes(v.new) /\ \A m : Has(v.new, m) => m = "SHIFT_END"
      /\ ~Gone(v)
  BY <1>3, AwakeFacts
<1>5. \A m : ~Has(w.in, m) BY <1>2, NoneHas
<1>6. Offered(v.out) = {} /\ Offered(v.sent) = {} /\ Single(v.out)
  BY <1>1, <1>4 DEF Offers, OneJob, OneOffer
<1>7. /\ Offered(w.sent) = {r} /\ Single(w.sent) /\ (LetGo(w.sent) => LetGo(v.sent))
  <2>1. v.sent \in Seq(Answers) BY DEF Views
  <2>2. Proposition(r) \in Answers /\ Proposition(r).kind = "SCHEDULE_PROPOSITION"
        /\ Proposition(r).request = r
    BY DEF Answers, Proposition
  <2>3. w.sent = Append(v.sent, Proposition(r)) BY DEF Assigned
  <2>4. QED BY <1>6, <2>1, <2>2, <2>3, OutAppend
<1>8. Offers(w) = {r} /\ OneOffer(w) /\ ~Job(w) /\ ~Awake(w) /\ ~Wakes(w.new)
  BY <1>2, <1>4, <1>5, <1>6, <1>7 DEF Offers, OneOffer, Job, Awake, Wakes
<1>9. Loaded(p, w) BY <1>1, <1>2, <1>3, <1>8 DEF Loaded
<1>10. OneJob(w) BY <1>1, <1>2, <1>4, <1>5, <1>8 DEF OneJob
<1>11. Copied(p, w)
  <2>1. ASSUME NEW q \in Requests PROVE w.x.items # Legs(p, q) /\ w.x.items # Tail(Legs(p, q))
    <3>1. Ordered(w.x.items) = {} BY <1>8 DEF Job
    <3>2. Ordered(Legs(p, q)) = {q} /\ Ordered(Tail(Legs(p, q))) = {q} BY LegsFacts
    <3>3. QED BY <3>1, <3>2
  <2>2. QED BY <1>2, <1>8, <2>1 DEF Copied
<1>12. Ending(w)
  <2>1. ~Gone(w) BY <1>2, <1>3, <1>4, <1>7 DEF Gone
  <2>2. w.x.place # "deleted" => w.subscribed BY <1>1, <1>2, <1>3 DEF Ending
  <2>3. QED BY <1>2, <1>3, <1>5, <1>8, <2>1, <2>2 DEF Ending
<1>13. QED BY <1>4, <1>8, <1>9, <1>10, <1>11, <1>12 DEF Good

-----------------------------------------------------------------------------
(* The end of a tick. *)

Ticks(v, w) ==
  /\ v.in = <<>> /\ v.out = <<>> /\ w.x = v.x
  /\ w.in = v.new /\ w.new = <<>> /\ w.out = v.sent /\ w.sent = <<>> /\ ~w.updated
  /\ w.known = v.known /\ w.free = v.free /\ w.subscribed = v.subscribed /\ w.copy = v.copy

\* The messages that were posted are those of the next tick.
LEMMA TicksGood ==
  ASSUME NEW p, NEW v \in Views, NEW w \in Views,
         Good(p, v), Ticks(v, w)
  PROVE  Good(p, w)
<1>1. Loaded(p, v) /\ OneJob(v) /\ Copied(p, v) /\ Ending(v) BY DEF Good
<1>2. /\ v.in = <<>> /\ v.out = <<>> /\ w.x = v.x
      /\ w.in = v.new /\ w.new = <<>> /\ w.out = v.sent /\ w.sent = <<>> /\ ~w.updated
      /\ w.known = v.known /\ w.free = v.free /\ w.subscribed = v.subscribed /\ w.copy = v.copy
  BY DEF Ticks
<1>3. \A m : ~Has(v.in, m) /\ ~Has(w.new, m) /\ Once(v.in, m) /\ Once(w.new, m) BY <1>2, NoneHas
<1>4. /\ Offered(v.out) = {} /\ Offered(w.sent) = {} /\ Single(w.sent)
      /\ ~LetGo(v.out) /\ ~LetGo(w.sent)
  BY <1>2, NothingSent
<1>5. /\ Job(w) = Job(v) /\ Offers(w) = Offers(v) /\ (Gone(w) <=> Gone(v)) /\ ~Wakes(w.new)
      /\ (Awake(w) => v.free \/ Wakes(v.new)) /\ (v.free => Awake(v))
  BY <1>2, <1>3, <1>4 DEF Job, Offers, Gone, Wakes, Awake
<1>6. Loaded(p, w) BY <1>1, <1>2, <1>5 DEF Loaded
<1>7. OneJob(w)
  <2>1. OneOffer(w) BY <1>1, <1>2, <1>4 DEF OneJob, OneOffer
  <2>2. Awake(w) \/ Wakes(w.new) => ~Job(w) /\ Offers(w) = {} BY <1>1, <1>5 DEF OneJob
  <2>3. Awake(w) => \A i \in DOMAIN w.new : w.new[i] = "SHIFT_END" BY <1>3 DEF Has
  <2>4. QED BY <1>1, <1>2, <1>3, <1>5, <2>1, <2>2, <2>3 DEF OneJob
<1>8. Copied(p, w)
  <2>1. SUFFICES ASSUME w.known PROVE Copied(p, w) BY DEF Copied
  <2>2. \A r \in Offers(w) : w.copy = Tail(Legs(p, r)) BY <1>1, <1>2, <1>5, <2>1 DEF Copied
  <2>3. w.free => w.copy = <<>> BY <1>1, <1>2, <2>1 DEF Copied
  <2>4. ASSUME w.x.place # "deleted", NEW r \in Requests
        PROVE  /\ w.x.items = Legs(p, r) =>
                    w.copy = Tail(Legs(p, r)) /\ ~Has(w.in, "STATUS") /\ ~Has(w.new, "STATUS")
               /\ w.x.items = Tail(Legs(p, r)) =>
                    \/ w.copy = Tail(Legs(p, r)) /\ Once(w.in, "STATUS") /\ Once(w.new, "STATUS")
                       /\ (Has(w.in, "STATUS") <=> ~Has(w.new, "STATUS"))
                    \/ w.copy = Tail(Tail(Legs(p, r)))
                     /\ ~Has(w.in, "STATUS") /\ ~Has(w.new, "STATUS")
    BY <1>1, <1>2, <1>3, <2>1, <2>4 DEF Copied
  <2>5. QED BY <2>2, <2>3, <2>4 DEF Copied
<1>9. Ending(w)
  <2>1. ~Has(w.new, "SHIFT_END") BY <1>3
  <2>2. Job(w) /\ Has(w.in, "SHIFT_END") => ~w.known BY <1>1, <1>2, <1>5 DEF Ending
  <2>3. ASSUME Gone(w)
        PROVE  ~Job(w) /\ Offers(w) = {} /\ ~w.known /\ ~Wakes(w.in) /\ ~Wakes(w.new)
    BY <1>1, <1>2, <1>5, <2>3 DEF Ending
  <2>4. ASSUME w.x.place # "deleted"
        PROVE  /\ w.known <=> w.subscribed
               /\ Job(w) \/ Offers(w) # {} \/ Has(w.in, "AVAILABLE") \/ Has(w.new, "AVAILABLE")
                    => w.known
    BY <1>1, <1>2, <1>3, <1>5, <2>4 DEF Ending
  <2>5. QED BY <1>3, <1>5, <2>1, <2>2, <2>3, <2>4 DEF Ending
<1>10. QED BY <1>6, <1>7, <1>8, <1>9 DEF Good

-----------------------------------------------------------------------------
(* A driver is loaded. *)

\* It has said that it subscribes, and perhaps that its shift is over.
Fresh(y) ==
  /\ y \in DriverRecord /\ y.items \in {<<Cruising>>, <<Parking>>} /\ y.passengers = {}
  /\ ~y.updated /\ y.place \in {"unloaded", "parking"}
  /\ y.sent = <<"SUBSCRIBE">> \/ y.sent = Append(<<"SUBSCRIBE">>, "SHIFT_END")

Started(p, y) ==
  /\ Fresh(y)
  /\ \/ y.sure /\ y.toBeRemoved
     \/ ~y.sure /\ ~y.toBeRemoved /\ AtRest(p, y)

\* The shift may be over when the driver starts.
LEMMA EndStarted ==
  ASSUME NEW p, NEW over, NEW y, Started(p, y), y.sent = <<"SUBSCRIBE">>
  PROVE  Started(p, EndIfOver(y, over))
<1> DEFINE z == [Say(y, "SHIFT_END") EXCEPT !.waiting = TRUE]
           w == EndIfOver(y, over)
<1>1. w = y \/ w = z BY DEF EndIfOver, endShift
<1>2. CASE w = z
  <2>1. y \in DriverRecord /\ y.sent \in Seq(DriverMessages) /\ "SHIFT_END" \in DriverMessages
    BY DEF Started, Fresh, DriverRecord, DriverMessages
  <2>2. Append(y.sent, "SHIFT_END") \in Seq(DriverMessages) BY <2>1, AppendProperties
  <2>3. z = [y EXCEPT !.sent = Append(y.sent, "SHIFT_END"), !.waiting = TRUE] BY DEF Say
  <2>4. /\ z \in DriverRecord /\ z.items = y.items /\ z.passengers = y.passengers
        /\ z.updated = y.updated /\ z.place = y.place /\ z.status = y.status /\ z.sure = y.sure
        /\ z.toBeRemoved = y.toBeRemoved /\ z.sent = Append(y.sent, "SHIFT_END")
    BY <2>1, <2>2, <2>3 DEF DriverRecord
  <2> HIDE DEF z
  <2>5. Fresh(z) BY <2>4 DEF Started, Fresh
  <2>6. AtRest(p, y) => AtRest(p, z) BY <2>4 DEF AtRest
  <2>7. QED BY <1>2, <2>4, <2>5, <2>6 DEF Started
<1>3. QED BY <1>1, <1>2

\* It performs the first item of its schedule.
LEMMA LoadStarted ==
  ASSUME NEW p, NEW over, NEW x, Fresh(x), ~x.sure, ~x.toBeRemoved, x.prev = None,
         x.sent = <<"SUBSCRIBE">>, NEW y \in performScheduleItem(x, over)
  PROVE  Started(p, y)
<1>1. x \in DriverRecord BY DEF Fresh
<1>2. /\ Head(<<Cruising>>).kind = "CRUISE" /\ Head(<<Parking>>).kind = "PARK"
      /\ <<Cruising>> # <<>> /\ <<Parking>> # <<>>
  BY NoLegs
<1>3. x.items = <<Cruising>> \/ x.items = <<Parking>> BY DEF Fresh
<1>4. CASE y \in NoRoute(x)
  <2>1. y = [x EXCEPT !.sure = TRUE, !.toBeRemoved = TRUE] BY <1>4 DEF NoRoute
  <2>2. /\ y \in DriverRecord /\ y.items = x.items /\ y.passengers = x.passengers
        /\ y.updated = x.updated /\ y.place = x.place /\ y.sure = TRUE /\ y.toBeRemoved = TRUE
        /\ y.sent = x.sent
    BY <1>1, <2>1 DEF DriverRecord
  <2>3. QED BY <2>2 DEF Started, Fresh
<1>5. ASSUME x.items = <<Cruising>>, y = EndIfOver(WithStatus(x, "CRUISING"), over)
      PROVE  Started(p, y)
  <2> DEFINE w == WithStatus(x, "CRUISING")
  <2>1. /\ w \in DriverRecord /\ w.items = x.items /\ w.passengers = x.passengers
        /\ w.updated = x.updated /\ w.place = x.place /\ w.sure = x.sure
        /\ w.toBeRemoved = x.toBeRemoved /\ w.sent = x.sent /\ w.status = "CRUISING"
    BY <1>1 DEF DriverRecord, WithStatus
  <2> HIDE DEF w
  <2>2. Started(p, w) BY <1>5, <2>1 DEF Started, Fresh, AtRest
  <2>3. w.sent = <<"SUBSCRIBE">> BY <2>1
  <2>4. QED BY <1>5, <2>2, <2>3, EndStarted DEF w
<1>6. ASSUME x.items = <<Parking>>, y = EndIfOver(WithStatus(x, "DRIVE_TO_PARKING"), over)
      PROVE  Started(p, y)
  <2> DEFINE w == WithStatus(x, "DRIVE_TO_PARKING")
  <2>1. /\ w \in DriverRecord /\ w.items = x.items /\ w.passengers = x.passengers
        /\ w.updated = x.updated /\ w.place = x.place /\ w.sure = x.sure
        /\ w.toBeRemoved = x.toBeRemoved /\ w.sent = x.sent /\ w.status = "DRIVE_TO_PARKING"
    BY <1>1 DEF DriverRecord, WithStatus
  <2> HIDE DEF w
  <2>2. Started(p, w) BY <1>6, <2>1 DEF Started, Fresh, AtRest
  <2>3. w.sent = <<"SUBSCRIBE">> BY <2>1
  <2>4. QED BY <1>6, <2>2, <2>3, EndStarted DEF w
<1>7. ASSUME x.items = <<Parking>>, y = EndIfOver(parkVehicle(x), over)
      PROVE  Started(p, y)
  <2> DEFINE w == parkVehicle(x)
  <2>1. /\ w \in DriverRecord /\ w.items = x.items /\ w.passengers = x.passengers
        /\ w.updated = x.updated /\ w.place = "parking" /\ w.sure = x.sure
        /\ w.toBeRemoved = x.toBeRemoved /\ w.sent = x.sent /\ w.status = "PARKED"
    BY <1>1 DEF DriverRecord, parkVehicle
  <2> HIDE DEF w
  <2>2. Started(p, w) BY <1>7, <2>1 DEF Started, Fresh, AtRest
  <2>3. w.sent = <<"SUBSCRIBE">> BY <2>1
  <2>4. QED BY <1>7, <2>2, <2>3, EndStarted DEF w
<1>8. CASE x.items = <<Cruising>>
  <2>1. x.items # <<>> /\ Head(x.items).kind = "CRUISE" /\ y \in performScheduleItem(x, over)
    BY <1>2, <1>8
  <2>2. y \in beginCruising(x, over) BY ONLY <2>1 DEF performScheduleItem
  <2>3. y \in NoRoute(x) \/ y = EndIfOver(WithStatus(x, "CRUISING"), over)
    BY <2>2 DEF beginCruising, WithStatus
  <2>4. QED BY <1>4, <1>5, <1>8, <2>3
<1>9. CASE x.items = <<Parking>>
  <2>1. x.items # <<>> /\ Head(x.items).kind = "PARK" /\ y \in performScheduleItem(x, over)
    BY <1>2, <1>9
  <2>2. y \in beginDriveToParkingNode(x, over) BY ONLY <2>1 DEF performScheduleItem
  <2>3. x.prev # "DROPOFF" BY DEF None
  <2>4. \/ y \in NoRoute(x) \/ y = EndIfOver(WithStatus(x, "DRIVE_TO_PARKING"), over)
        \/ y = EndIfOver(parkVehicle(x), over)
    BY <2>2, <2>3 DEF beginDriveToParkingNode, WithStatus
  <2>5. QED BY <1>4, <1>6, <1>7, <1>9, <2>4
<1>10. QED BY <1>3, <1>8, <1>9

Loads(p, y, v, w) ==
  /\ v.x.place = "unloaded" /\ Started(p, y)
  /\ w.x.items = y.items /\ w.x.passengers = y.passengers /\ w.x.status = y.status
  /\ w.x.toBeRemoved = y.toBeRemoved /\ w.x.sure = y.sure /\ w.x.updated = y.updated
  /\ w.x.sent = <<>>
  /\ w.x.place = IF y.toBeRemoved THEN "nowhere"
                 ELSE IF y.place = "unloaded" THEN "road" ELSE y.place
  /\ w.in = v.in /\ w.new = y.sent /\ w.out = v.out /\ w.sent = v.sent /\ w.updated
  /\ w.known = v.known /\ w.free = v.free /\ w.subscribed = v.subscribed /\ w.copy = v.copy

\* The view of a driver that has been loaded is good.
LEMMA LoadsGood ==
  ASSUME NEW p, NEW v \in Views, NEW w \in Views,
         Good(p, v), NEW y, Loads(p, y, v, w)
  PROVE  Good(p, w)
<1>1. Loaded(p, v) BY DEF Good
<1>2. /\ ~v.known /\ v.in = <<>> /\ v.out = <<>> /\ v.sent = <<>> /\ ~v.free /\ ~v.subscribed
      /\ v.copy = <<>>
  BY <1>1 DEF Loaded, Loads
<1>3. /\ w.in = <<>> /\ w.out = <<>> /\ w.sent = <<>> /\ w.new = y.sent /\ w.updated
      /\ ~w.known /\ ~w.free /\ ~w.subscribed /\ w.copy = <<>>
  BY <1>2 DEF Loads
<1>4. /\ Started(p, y) /\ Fresh(y)
      /\ w.x.items = y.items /\ w.x.passengers = {} /\ w.x.status = y.status
      /\ w.x.toBeRemoved = y.toBeRemoved /\ w.x.sure = y.sure /\ ~w.x.updated
      /\ w.x.sent = <<>> /\ w.x.place \notin {"unloaded", "deleted"}
      /\ y.toBeRemoved => w.x.place = "nowhere"
  BY DEF Loads, Started, Fresh
<1>5. w.x.items \in {<<Cruising>>, <<Parking>>} /\ ~Job(w) BY <1>4, NoLegs DEF Fresh, Job
<1>6. \A m : ~Has(w.in, m) BY <1>3, NoneHas
<1>7. /\ \A m : Has(w.new, m) => m \in {"SUBSCRIBE", "SHIFT_END"}
      /\ Once(w.new, "SUBSCRIBE")
  <2> DEFINE s == <<"SUBSCRIBE">>
             t == Append(s, "SHIFT_END")
  <2>1. s \in Seq(DriverMessages) /\ "SHIFT_END" \in DriverMessages BY DEF DriverMessages
  <2>2. \A m : Has(s, m) <=> m = "SUBSCRIBE" BY DEF Has
  <2>3. Once(s, "SUBSCRIBE") BY DEF Once
  <2> HIDE DEF s
  <2>4. /\ \A m : Has(t, m) <=> Has(s, m) \/ m = "SHIFT_END"
        /\ Once(t, "SUBSCRIBE")
    BY <2>1, <2>3, AppendHas
  <2> HIDE DEF t
  <2>5. \A m : Has(t, m) => m \in {"SUBSCRIBE", "SHIFT_END"} BY <2>2, <2>4
  <2>6. w.new = s \/ w.new = t BY <1>3, <1>4 DEF Fresh, s, t
  <2>7. QED BY <2>2, <2>3, <2>4, <2>5, <2>6
<1>8. Offers(w) = {} /\ OneOffer(w) /\ ~LetGo(w.out) /\ ~LetGo(w.sent)
  BY <1>3, NothingSent DEF Offers, OneOffer
<1>9. ~Awake(w) BY <1>3, <1>6 DEF Awake, Wakes
<1>10. Loaded(p, w)
  <2>1. Shape(p, w.x) BY <1>4, <1>5 DEF Shape
  <2>2. Rested(p, w.x)
    <3>1. y.toBeRemoved \/ AtRest(p, y) BY <1>4 DEF Started
    <3>2. QED BY <1>4, <3>1 DEF Rested, AtRest
  <2>3. w.x.status = "DRIVE_START" => w.x.sure
    <3>1. AtRest(p, y) => y.status # "DRIVE_START" BY DEF AtRest
    <3>2. QED BY <1>4, <3>1 DEF Started
  <2>4. w.x.sure => w.x.toBeRemoved /\ w.x.place = "nowhere" BY <1>4 DEF Started
  <2>5. QED BY <1>3, <1>4, <1>5, <1>8, <2>1, <2>2, <2>3, <2>4 DEF Loaded
<1>11. OneJob(w)
  <2>1. Once(w.in, "SUBSCRIBE") BY <1>3, NoneHas
  <2>2. QED BY <1>3, <1>5, <1>6, <1>7, <1>8, <1>9, <2>1 DEF OneJob
<1>12. Copied(p, w) BY <1>3 DEF Copied
<1>13. Ending(w)
  <2>1. ~Gone(w) BY <1>4, <1>8 DEF Gone, Started
  <2>2. ~Has(w.in, "AVAILABLE") /\ ~Has(w.new, "AVAILABLE") BY <1>6, <1>7
  <2>3. QED BY <1>3, <1>5, <1>6, <1>7, <1>8, <2>1, <2>2 DEF Ending
<1>14. QED BY <1>10, <1>11, <1>12, <1>13 DEF Good
=============================================================================
