------------------------- MODULE OnCallServiceProofs --------------------------
(***************************************************************************)
(* Proofs about the on-call service, for any drivers, requests, load and   *)
(* shift times, car parks and period.                                      *)
(*                                                                         *)
(* The invariant: everything has its type, the view of every driver is     *)
(* good (OnCallViewProofs.tla), the controller handles its messages before *)
(* its own update, and a request that was asked for is in one place -      *)
(* among the messages, in the queue, offered to a driver, in a schedule,   *)
(* served or lost - while the others are in none (InHand).  That it is in  *)
(* one place is stated without counting: there is a place, and any place   *)
(* where it is is that one (Alone).  A step leaves a request where it is   *)
(* or takes it from there to another place (Stays).                        *)
(*                                                                         *)
(* The safety properties follow, and so does the refinement: the place of  *)
(* a request is its stage in TripLife.tla, and each step takes it to a     *)
(* place that comes next in a life.                                        *)
(***************************************************************************)
EXTENDS OnCallViewProofs

-----------------------------------------------------------------------------
(* The invariant. *)

\* The types, with those of the messages and the books.
Typed ==
  /\ setting \in [parks : SUBSET (Drivers \cup Requests), lost : BOOLEAN] /\ setting \in Settings
  /\ now \in 0 .. EndTick /\ updated \subseteq Drivers \cup {Controller}
  /\ mail \in Boxes /\ posted \in Boxes /\ Books(ctl)
  /\ drv \in [Drivers -> DriverRecord]
  /\ asked \subseteq Requests /\ served \subseteq Requests /\ lost \subseteq Requests

View(d) == ViewOf(drv[d], mail, posted, ctl, updated, d)

\* Every driver and what the controller knows of it fit together.
DriversGood == \A d \in Drivers : Good(setting.parks, View(d))

\* The controller has handled its messages before its own update.
InOrderOfUpdate ==
  Controller \in updated => mail.asks = {} /\ \A d \in Drivers : mail.in[d] = <<>>

\* Where the requests are.  (The field `rest' is used while schedules are computed.)
WhereOf(m, n, queue, x, done, gone) ==
  [asks |-> m.asks, posted |-> n.asks, rest |-> [i \in {} |-> None], queue |-> queue,
   offers |-> [d \in Drivers |-> Offered(m.out[d]) \cup Offered(n.out[d])],
   orders |-> [d \in Drivers |-> IF x[d].place = "deleted" THEN {} ELSE Ordered(x[d].items)],
   served |-> done, lost |-> gone]

Where == WhereOf(mail, posted, ctl.queue, drv, served, lost)

\* Request r is at place k, the i-th of its kind.
At(s, r, k, i) ==
  \/ k = "asks" /\ i = None /\ r \in s.asks
  \/ k = "posted" /\ i = None /\ r \in s.posted
  \/ k = "rest" /\ i \in DOMAIN s.rest /\ s.rest[i] = r
  \/ k = "queue" /\ i \in DOMAIN s.queue /\ s.queue[i] = r
  \/ k = "offers" /\ i \in Drivers /\ r \in s.offers[i]
  \/ k = "orders" /\ i \in Drivers /\ r \in s.orders[i]
  \/ k = "served" /\ i = None /\ r \in s.served
  \/ k = "lost" /\ i = None /\ r \in s.lost

Alone(s, r) == \E k, i : At(s, r, k, i) /\ \A l, j : At(s, r, l, j) => l = k /\ j = i
Nowhere(s, r) == \A k, i : ~At(s, r, k, i)

\* A request that was asked for is in one place, another in none.
Accounted(s) == \A r \in Requests : IF r \in asked THEN Alone(s, r) ELSE Nowhere(s, r)

InHand == Accounted(Where)

\* What every state satisfies.
OnCallInv == Typed /\ DriversGood /\ InOrderOfUpdate /\ InHand

-----------------------------------------------------------------------------
(* The state around the drivers. *)

\* The fields of a view.
LEMMA ViewFields ==
  ASSUME NEW x, NEW m, NEW n, NEW c, NEW u, NEW d
  PROVE  LET v == ViewOf(x, m, n, c, u, d) IN
         /\ v.x = x /\ v.in = m.in[d] /\ v.new = n.in[d] /\ v.out = m.out[d] /\ v.sent = n.out[d]
         /\ v.known = (d \in DOMAIN c.copy)
         /\ v.copy = IF d \in DOMAIN c.copy THEN c.copy[d] ELSE <<>>
         /\ v.free = (d \in c.available) /\ v.subscribed = (d \in c.subscribed)
         /\ v.updated = (d \in u)
BY DEF ViewOf

\* They have their types.
LEMMA ViewTyped ==
  ASSUME NEW x \in DriverRecord, NEW m \in Boxes, NEW n \in Boxes, NEW c, Books(c), NEW u,
         NEW d \in Drivers
  PROVE  ViewOf(x, m, n, c, u, d) \in Views
<1>1. m.in[d] \in Seq(DriverMessages) /\ n.in[d] \in Seq(DriverMessages)
      /\ m.out[d] \in Seq(Answers) /\ n.out[d] \in Seq(Answers)
  BY DEF Boxes
<1> DEFINE k == IF d \in DOMAIN c.copy THEN c.copy[d] ELSE <<>>
<1>2. k \in Seq(Items) BY NoLegs DEF Books
<1> HIDE DEF k
<1>3. ViewOf(x, m, n, c, u, d) =
        [x |-> x, in |-> m.in[d], new |-> n.in[d], out |-> m.out[d], sent |-> n.out[d],
         known |-> d \in DOMAIN c.copy, copy |-> k,
         free |-> d \in c.available, subscribed |-> d \in c.subscribed, updated |-> d \in u]
  BY DEF ViewOf, k
<1>4. QED BY <1>1, <1>2, <1>3 DEF Views

\* Two states that agree on a driver have the same view of it.
LEMMA SameView ==
  ASSUME NEW x, NEW m, NEW n, NEW c, NEW u, NEW d, NEW m2, NEW n2, NEW c2, NEW u2,
         m2.in[d] = m.in[d], m2.out[d] = m.out[d], n2.in[d] = n.in[d], n2.out[d] = n.out[d],
         (d \in DOMAIN c2.copy) <=> (d \in DOMAIN c.copy),
         d \in DOMAIN c.copy => c2.copy[d] = c.copy[d],
         (d \in c2.available) <=> (d \in c.available),
         (d \in c2.subscribed) <=> (d \in c.subscribed), (d \in u2) <=> (d \in u)
  PROVE  ViewOf(x, m2, n2, c2, u2, d) = ViewOf(x, m, n, c, u, d)
BY DEF ViewOf

WithIn(m, d, s) == [m EXCEPT !.in[d] = s]
WithOut(m, d, s) == [m EXCEPT !.out[d] = s]

\* The messages from one driver are replaced.
LEMMA WithInIs ==
  ASSUME NEW m \in Boxes, NEW d \in Drivers, NEW s \in Seq(DriverMessages)
  PROVE  /\ WithIn(m, d, s) \in Boxes
         /\ WithIn(m, d, s).asks = m.asks /\ WithIn(m, d, s).out = m.out
         /\ WithIn(m, d, s).in[d] = s
         /\ \A e \in Drivers \ {d} : WithIn(m, d, s).in[e] = m.in[e]
<1>1. WithIn(m, d, s) = [m EXCEPT !.in = [m.in EXCEPT ![d] = s]] BY DEF WithIn
<1>2. [m.in EXCEPT ![d] = s] \in [Drivers -> Seq(DriverMessages)] BY DEF Boxes
<1>3. QED BY <1>1, <1>2 DEF Boxes

\* The messages to one driver are replaced.
LEMMA WithOutIs ==
  ASSUME NEW m \in Boxes, NEW d \in Drivers, NEW s \in Seq(Answers)
  PROVE  /\ WithOut(m, d, s) \in Boxes
         /\ WithOut(m, d, s).asks = m.asks /\ WithOut(m, d, s).in = m.in
         /\ WithOut(m, d, s).out[d] = s
         /\ \A e \in Drivers \ {d} : WithOut(m, d, s).out[e] = m.out[e]
<1>1. WithOut(m, d, s) = [m EXCEPT !.out = [m.out EXCEPT ![d] = s]] BY DEF WithOut
<1>2. [m.out EXCEPT ![d] = s] \in [Drivers -> Seq(Answers)] BY DEF Boxes
<1>3. QED BY <1>1, <1>2 DEF Boxes

\* No messages.
LEMMA NoMailIs ==
  /\ NoMail \in Boxes /\ NoMail.asks = {}
  /\ \A d \in Drivers : NoMail.in[d] = <<>> /\ NoMail.out[d] = <<>>
<1>1. <<>> \in Seq(DriverMessages) /\ <<>> \in Seq(Answers) OBVIOUS
<1>2. QED BY <1>1 DEF NoMail, Boxes

\* A schedule orders requests.
LEMMA OrderedIn == ASSUME NEW s \in Seq(Items) PROVE Ordered(s) \subseteq Requests
<1>1. \A i \in DOMAIN s : s[i] \in Items BY LenProperties, ElementOfSeq
<1>2. QED BY <1>1 DEF Ordered, Items

\* Messages offer requests.
LEMMA OfferedIn == ASSUME NEW s \in Seq(Answers) PROVE Offered(s) \subseteq Requests
<1>1. \A i \in DOMAIN s : s[i] \in Answers BY LenProperties, ElementOfSeq
<1>2. QED BY <1>1 DEF Offered, Answers

\* What a step about d leaves alone in the controller.
Keeps(c, d, b) ==
  /\ Books(b) /\ b.queue = c.queue /\ b.localTick = c.localTick
  /\ \A e \in Drivers \ {d} :
       /\ e \in DOMAIN b.copy <=> e \in DOMAIN c.copy
       /\ e \in DOMAIN c.copy => b.copy[e] = c.copy[e]
       /\ e \in b.available <=> e \in c.available
       /\ e \in b.subscribed <=> e \in c.subscribed

\* A driver that it knows nothing of.
Unknown(c, d) == d \notin DOMAIN c.copy /\ d \notin c.available /\ d \notin c.subscribed

\* The controller knows nothing any more of a driver that it unsubscribes.
LEMMA UnsubscribeIs ==
  ASSUME NEW c, Books(c), NEW d \in Drivers
  PROVE  Keeps(c, d, unsubscribeDriver(c, d)) /\ Unknown(unsubscribeDriver(c, d), d)
<1> DEFINE b == unsubscribeDriver(c, d)
           k == [e \in DOMAIN c.copy \ {d} |-> c.copy[e]]
<1>1. /\ DOMAIN b = DOMAIN c /\ b.queue = c.queue /\ b.localTick = c.localTick
      /\ b.subscribed = c.subscribed \ {d} /\ b.available = c.available \ {d} /\ b.copy = k
  BY DEF unsubscribeDriver, Books
<1>2. DOMAIN k = DOMAIN c.copy \ {d} /\ (\A e \in DOMAIN k : k[e] = c.copy[e])
      /\ IsMap(k)
  BY DEF IsMap
<1> HIDE DEF b, k
<1>3. Books(b) BY <1>1, <1>2 DEF Books
<1>4. QED BY <1>1, <1>2, <1>3 DEF b, Books, Keeps, Unknown

\* Nor of one whose entries it removes.
LEMMA RemoveEntriesIs ==
  ASSUME NEW c, Books(c), NEW d \in Drivers, NEW status,
         status = "DRIVE_START" => d \notin DOMAIN c.copy
  PROVE  Keeps(c, d, RemoveEntries(c, d, status)) /\ Unknown(RemoveEntries(c, d, status), d)
<1>1. CASE d \in DOMAIN c.copy
  <2>1. RemoveEntries(c, d, status) = unsubscribeDriver(c, d) BY <1>1 DEF RemoveEntries
  <2>2. QED BY <2>1, UnsubscribeIs
<1>2. CASE d \notin DOMAIN c.copy
  <2> DEFINE b == [c EXCEPT !.available = @ \ {d}]
  <2>1. Unknown(c, d) BY <1>2 DEF Books, Unknown
  <2>2. /\ DOMAIN b = DOMAIN c /\ b.queue = c.queue /\ b.localTick = c.localTick
        /\ b.subscribed = c.subscribed /\ b.available = c.available \ {d} /\ b.copy = c.copy
    BY DEF Books
  <2> HIDE DEF b
  <2>3. Keeps(c, d, b) /\ Unknown(b, d) BY <2>1, <2>2 DEF Keeps, Unknown, Books
  <2>4. Keeps(c, d, c) BY DEF Keeps
  <2>5. RemoveEntries(c, d, status) = c \/ RemoveEntries(c, d, status) = b
    BY <1>2 DEF RemoveEntries, b
  <2>6. QED BY <2>1, <2>3, <2>4, <2>5
<1>3. QED BY <1>1, <1>2

\* The controller's copy of one schedule is replaced.
LEMMA WithCopyIs ==
  ASSUME NEW c, Books(c), NEW d \in Drivers, NEW s \in Seq(Items)
  PROVE  LET k == WithCopy(c, d, s) IN
         /\ DOMAIN k = DOMAIN c.copy \cup {d} /\ DOMAIN k \subseteq Drivers
         /\ IsMap(k)
         /\ k[d] = s /\ \A e \in DOMAIN c.copy \ {d} : k[e] = c.copy[e]
         /\ \A e \in DOMAIN k : k[e] \in Seq(Items)
BY DEF WithCopy, Books, IsMap

\* A step about one driver leaves the others as they were.
LEMMA OneDriver ==
  ASSUME NEW d \in Drivers, setting' = setting, DriversGood, Keeps(ctl, d, ctl'),
         \A e \in Drivers \ {d} :
           /\ drv'[e] = drv[e] /\ (e \in updated' <=> e \in updated)
           /\ mail'.in[e] = mail.in[e] /\ mail'.out[e] = mail.out[e]
           /\ posted'.in[e] = posted.in[e] /\ posted'.out[e] = posted.out[e],
         Good(setting.parks, ViewOf(drv'[d], mail', posted', ctl', updated', d))
  PROVE  DriversGood'
<1>1. ASSUME NEW e \in Drivers
      PROVE  Good(setting.parks, ViewOf(drv'[e], mail', posted', ctl', updated', e))
  <2>1. CASE e = d BY <2>1
  <2>2. CASE e # d
    <3>1. ViewOf(drv[e], mail', posted', ctl', updated', e)
          = ViewOf(drv[e], mail, posted, ctl, updated, e)
      BY <2>2, SameView DEF Keeps
    <3>2. drv'[e] = drv[e] BY <2>2
    <3>3. QED BY <3>1, <3>2 DEF DriversGood, View
  <2>3. QED BY <2>1, <2>2
<1>2. QED BY <1>1 DEF DriversGood, View

\* What a driver's update does to the requests.
Drives(d) ==
  /\ mail' = mail /\ ctl'.queue = ctl.queue /\ asked' = asked /\ updated' = updated \cup {d}
  /\ setting' = setting
  /\ posted'.asks = posted.asks /\ posted'.out = posted.out
  /\ \A e \in Drivers \ {d} : drv'[e] = drv[e]
  /\ drv[d].place # "deleted" /\ Ordered(drv'[d].items) \subseteq Ordered(drv[d].items)
  /\ served' = served \cup (Ordered(drv[d].items) \ Ordered(drv'[d].items))
  /\ lost' = lost \cup (IF drv'[d].place = "deleted" THEN Ordered(drv'[d].items) ELSE {})
  /\ \/ Ordered(drv'[d].items) = {} \/ drv'[d].items = drv[d].items
     \/ \E r \in Requests : /\ drv[d].items = Legs(setting.parks, r)
                            /\ drv'[d].items = Tail(Legs(setting.parks, r))

\* What becomes of a driver's view, and of the rest of the state.
LEMMA Becoming ==
  ASSUME Typed, NEW d \in Drivers, NEW y \in DriverRecord, Becomes(d, drv[d], y),
         y.sure /\ y.status = "DRIVE_START" => d \notin DOMAIN ctl.copy
  PROVE  LET x == drv'[d] IN
         /\ Typed' /\ Keeps(ctl, d, ctl') /\ (y.sure => Unknown(ctl', d)) /\ (~y.sure => ctl' = ctl)
         /\ x \in DriverRecord /\ x.items = y.items /\ x.passengers = y.passengers
         /\ x.status = y.status /\ x.toBeRemoved = y.toBeRemoved /\ x.sure = y.sure
         /\ x.updated = y.updated /\ x.sent = <<>>
         /\ x.place = IF drv[d].place = "unloaded" /\ y.toBeRemoved THEN "nowhere"
                      ELSE PlaceAfter(drv[d], y)
         /\ posted'.in[d] = posted.in[d] \o y.sent /\ posted'.out = posted.out
         /\ posted'.asks = posted.asks /\ mail' = mail /\ d \in updated' /\ setting' = setting
         /\ \A e \in Drivers \ {d} :
              /\ drv'[e] = drv[e] /\ (e \in updated' <=> e \in updated)
              /\ posted'.in[e] = posted.in[e]
         /\ asked' = asked /\ updated' = updated \cup {d}
         /\ served' = served \cup (Ordered(drv[d].items) \ Ordered(y.items))
         /\ lost' = lost \cup (IF y.toBeRemoved THEN Ordered(y.items) ELSE {})
<1> DEFINE place == IF drv[d].place = "unloaded" /\ y.toBeRemoved THEN "nowhere"
                    ELSE PlaceAfter(drv[d], y)
           z == [y EXCEPT !.place = place, !.sent = <<>>]
           s == posted.in[d] \o y.sent
<1>1. /\ drv' = [drv EXCEPT ![d] = z] /\ posted' = WithIn(posted, d, s)
      /\ ctl' = (IF y.sure THEN RemoveEntries(ctl, d, y.status) ELSE ctl)
      /\ updated' = updated \cup {d} /\ setting' = setting /\ now' = now /\ mail' = mail
      /\ asked' = asked
      /\ served' = served \cup (Ordered(drv[d].items) \ Ordered(y.items))
      /\ lost' = lost \cup (IF y.toBeRemoved THEN Ordered(y.items) ELSE {})
  BY DEF Becomes, Posted, WithIn
<1>2. drv \in [Drivers -> DriverRecord] /\ posted \in Boxes /\ Books(ctl) /\ drv[d] \in DriverRecord
  BY DEF Typed
<1>3. place \in {"unloaded", "road", "parking", "nowhere", "deleted"}
  BY <1>2 DEF PlaceAfter, DriverRecord
<1>4. s \in Seq(DriverMessages)
  <2>1. posted.in[d] \in Seq(DriverMessages) /\ y.sent \in Seq(DriverMessages)
    BY <1>2 DEF Boxes, DriverRecord
  <2>2. QED BY ONLY <2>1, ConcatProperties
<1> HIDE DEF place, s
<1>5. /\ z \in DriverRecord /\ z.items = y.items /\ z.passengers = y.passengers
      /\ z.status = y.status /\ z.toBeRemoved = y.toBeRemoved /\ z.sure = y.sure
      /\ z.updated = y.updated /\ z.sent = <<>> /\ z.place = place
  <2>1. <<>> \in Seq(DriverMessages) OBVIOUS
  <2>2. z \in DriverRecord BY <1>3, <2>1 DEF DriverRecord
  <2>3. /\ z.items = y.items /\ z.passengers = y.passengers
        /\ z.status = y.status /\ z.toBeRemoved = y.toBeRemoved /\ z.sure = y.sure
        /\ z.updated = y.updated /\ z.sent = <<>> /\ z.place = place
    BY DEF DriverRecord
  <2>4. QED BY <2>2, <2>3
<1> HIDE DEF z
<1>6. /\ drv' \in [Drivers -> DriverRecord] /\ drv'[d] = z
      /\ \A e \in Drivers \ {d} : drv'[e] = drv[e]
  BY <1>1, <1>2, <1>5
<1>7. /\ posted' \in Boxes /\ posted'.asks = posted.asks /\ posted'.out = posted.out
      /\ posted'.in[d] = s /\ \A e \in Drivers \ {d} : posted'.in[e] = posted.in[e]
  BY <1>1, <1>2, <1>4, WithInIs
<1>8. Keeps(ctl, d, ctl') /\ (y.sure => Unknown(ctl', d)) /\ (~y.sure => ctl' = ctl)
  <2>1. Keeps(ctl, d, ctl) BY <1>2 DEF Keeps
  <2>2. CASE y.sure
    <3>1. y.status = "DRIVE_START" => d \notin DOMAIN ctl.copy BY <2>2
    <3>2. QED BY <1>1, <1>2, <2>2, <3>1, RemoveEntriesIs
  <2>3. CASE ~y.sure BY <1>1, <2>1, <2>3
  <2>4. QED BY <2>2, <2>3
<1>9. Ordered(drv[d].items) \subseteq Requests /\ Ordered(y.items) \subseteq Requests
  BY <1>2, OrderedIn DEF DriverRecord
<1>10. served' \subseteq Requests /\ lost' \subseteq Requests
  BY <1>1, <1>9 DEF Typed
<1>11. Books(ctl') BY <1>8 DEF Keeps
<1>12. Typed' BY <1>1, <1>6, <1>7, <1>10, <1>11 DEF Typed
<1>13. QED BY <1>1, <1>5, <1>6, <1>7, <1>8, <1>12 DEF place, s

-----------------------------------------------------------------------------
(* The steps of a driver. *)

\* What the invariant says of one driver.
LEMMA GoodView ==
  ASSUME Typed, DriversGood, NEW d \in Drivers
  PROVE  /\ drv[d] \in DriverRecord /\ View(d) \in Views
         /\ Good(setting.parks, View(d))
         /\ View(d).x = drv[d] /\ View(d).in = mail.in[d] /\ View(d).new = posted.in[d]
         /\ View(d).out = mail.out[d] /\ View(d).sent = posted.out[d]
         /\ View(d).known = (d \in DOMAIN ctl.copy) /\ View(d).free = (d \in ctl.available)
         /\ View(d).subscribed = (d \in ctl.subscribed) /\ View(d).updated = (d \in updated)
         /\ View(d).copy = IF d \in DOMAIN ctl.copy THEN ctl.copy[d] ELSE <<>>
<1>1. drv[d] \in DriverRecord /\ mail \in Boxes /\ posted \in Boxes /\ Books(ctl) BY DEF Typed
<1>2. View(d) \in Views BY <1>1, ViewTyped DEF View
<1>3. Good(setting.parks, View(d)) BY DEF DriversGood
<1>4. QED BY <1>1, <1>2, <1>3, ViewFields DEF View

\* A driver's update.
LEMMA UpdateStep ==
  ASSUME Typed, DriversGood, NEW d \in Drivers, Update(d)
  PROVE  Typed' /\ DriversGood' /\ Drives(d)
<1> DEFINE p == setting.parks
           v == View(d)
           w == ViewOf(drv'[d], mail', posted', ctl', updated', d)
           x == drv[d]
<1>1. /\ x \in DriverRecord /\ v \in Views
      /\ Good(p, v) /\ v.x = x /\ v.in = mail.in[d] /\ v.new = posted.in[d]
      /\ v.out = mail.out[d] /\ v.sent = posted.out[d]
      /\ v.known = (d \in DOMAIN ctl.copy) /\ v.free = (d \in ctl.available)
      /\ v.subscribed = (d \in ctl.subscribed) /\ v.updated = (d \in updated)
      /\ v.copy = IF d \in DOMAIN ctl.copy THEN ctl.copy[d] ELSE <<>>
  BY GoodView
<1>2. x.place \in {"road", "parking"} /\ mail.out[d] = <<>> /\ d \notin updated BY DEF Update
<1>3. Loaded(p, v) BY <1>1 DEF Good
<1>4. /\ ~x.sure /\ x.sent = <<>> /\ posted.in[d] = <<>> /\ x.status # "DRIVE_START"
      /\ Shape(p, x) /\ Rested(p, x)
  BY <1>1, <1>2, <1>3 DEF Loaded
<1>5. /\ w.x = drv'[d] /\ w.in = mail'.in[d] /\ w.new = posted'.in[d]
      /\ w.out = mail'.out[d] /\ w.sent = posted'.out[d]
      /\ w.known = (d \in DOMAIN ctl'.copy) /\ w.free = (d \in ctl'.available)
      /\ w.subscribed = (d \in ctl'.subscribed) /\ w.updated = (d \in updated')
      /\ w.copy = IF d \in DOMAIN ctl'.copy THEN ctl'.copy[d] ELSE <<>>
  BY ViewFields
<1>6. SUFFICES ASSUME NEW y \in DriverRecord, Becomes(d, x, y), y.status # "DRIVE_START",
                      \/ x.toBeRemoved /\ y = x
                      \/ ~x.toBeRemoved /\ Effect(p, x, y)
               PROVE  Typed' /\ DriversGood' /\ Drives(d)
  <2>1. CASE x.toBeRemoved
    <3>1. Becomes(d, x, x) BY <2>1 DEF Update
    <3>2. QED BY <1>1, <1>4, <1>6, <2>1, <3>1
  <2>2. CASE ~x.toBeRemoved
    <3> DEFINE over == now >= ShiftEnd[d]
    <3>1. PICK y \in Ticked(x, over) : Becomes(d, x, y) BY <2>2 DEF Update
    <3>2. Ready(p, x) BY <1>1, <1>4, <2>2 DEF Ready
    <3> HIDE DEF over
    <3>3. Effect(p, x, y) BY <3>1, <3>2, TickedEffect
    <3>4. y \in DriverRecord /\ y.status # "DRIVE_START" BY <3>3 DEF Effect
    <3>5. QED BY <1>6, <2>2, <3>1, <3>3, <3>4
  <2>3. QED BY <2>1, <2>2
<1>7. /\ Typed' /\ Keeps(ctl, d, ctl') /\ (y.sure => Unknown(ctl', d)) /\ (~y.sure => ctl' = ctl)
      /\ drv'[d] \in DriverRecord /\ drv'[d].items = y.items /\ drv'[d].passengers = y.passengers
      /\ drv'[d].status = y.status /\ drv'[d].toBeRemoved = y.toBeRemoved
      /\ drv'[d].sure = y.sure /\ drv'[d].updated = y.updated /\ drv'[d].sent = <<>>
      /\ drv'[d].place = IF x.place = "unloaded" /\ y.toBeRemoved THEN "nowhere"
                         ELSE PlaceAfter(x, y)
      /\ posted'.in[d] = posted.in[d] \o y.sent /\ posted'.out = posted.out
      /\ posted'.asks = posted.asks /\ mail' = mail /\ d \in updated' /\ setting' = setting
      /\ \A e \in Drivers \ {d} :
           /\ drv'[e] = drv[e] /\ (e \in updated' <=> e \in updated)
           /\ posted'.in[e] = posted.in[e]
  BY <1>6, Becoming
<1>8. drv'[d].place = PlaceAfter(x, y) BY <1>2, <1>7
<1>9. posted'.in[d] = y.sent
  <2>1. y.sent \in Seq(DriverMessages) BY DEF DriverRecord
  <2>2. <<>> \o y.sent = y.sent BY <2>1, ConcatEmptySeq
  <2>3. QED BY <1>4, <1>7, <2>2
<1>10. w \in Views
  <2>1. mail' \in Boxes /\ posted' \in Boxes /\ Books(ctl') BY <1>7 DEF Typed
  <2>2. QED BY <1>7, <2>1, ViewTyped
<1>11. Good(p, w)
  <2> HIDE DEF v, w
  <2>1. CASE x.toBeRemoved /\ y = x
    <3>1. w.x.place = "deleted" BY <1>5, <1>8, <2>1 DEF PlaceAfter
    <3>2. w.in = v.in /\ w.new = v.new /\ w.out = v.out /\ w.sent = v.sent /\ w.updated
          /\ w.known = v.known /\ w.copy = v.copy /\ w.subscribed = v.subscribed /\ w.free = v.free
      <4>1. ctl' = ctl /\ mail' = mail /\ posted'.out = posted.out BY <1>4, <1>7, <2>1
      <4>2. posted'.in[d] = posted.in[d] BY <1>4, <1>9, <2>1
      <4>3. w.in = v.in /\ w.new = v.new /\ w.out = v.out /\ w.sent = v.sent
        BY ONLY <1>1, <1>5, <4>1, <4>2
      <4>4. w.known = v.known /\ w.copy = v.copy /\ w.subscribed = v.subscribed /\ w.free = v.free
        BY ONLY <1>1, <1>5, <4>1
      <4>5. w.updated BY ONLY <1>5, <1>7
      <4>6. QED BY <4>3, <4>4, <4>5
    <3>3. Gone(w) => Gone(v) BY <1>1, <1>5, <1>7, <2>1, <3>2 DEF Gone
    <3>4. w.out = <<>> /\ v.x.place # "unloaded" BY <1>1, <1>2, <3>2
    <3>5. /\ w.x.items = v.x.items /\ w.x.passengers = v.x.passengers /\ w.x.status = v.x.status
          /\ w.x.updated = v.x.updated /\ w.x.sure = v.x.sure /\ w.x.sent = <<>>
          /\ w.x.toBeRemoved = v.x.toBeRemoved
      <4>1. v.x = x /\ w.x = drv'[d] /\ y = x BY ONLY <1>1, <1>5, <2>1
      <4>2. /\ drv'[d].items = y.items /\ drv'[d].passengers = y.passengers
            /\ drv'[d].status = y.status /\ drv'[d].toBeRemoved = y.toBeRemoved
            /\ drv'[d].sure = y.sure /\ drv'[d].updated = y.updated /\ drv'[d].sent = <<>>
        BY ONLY <1>7
      <4>3. QED BY ONLY <4>1, <4>2
    <3>6. Less(v, w)
      BY ONLY <3>1, <3>2, <3>3, <3>4, <3>5 DEF Less
    <3>7. QED BY <1>1, <1>10, <3>6, LessGood
  <2>2. CASE ~x.toBeRemoved /\ Effect(p, x, y)
    <3>1. w.x.place = PlaceAfter(v.x, y) BY <1>1, <1>5, <1>8
    <3>2. /\ w.in = v.in /\ w.new = y.sent /\ w.out = v.out /\ w.sent = v.sent /\ w.updated
          /\ y.sure => ~w.known /\ ~w.free /\ ~w.subscribed /\ w.copy = <<>>
          /\ ~y.sure => /\ w.known = v.known /\ w.free = v.free
                        /\ w.subscribed = v.subscribed /\ w.copy = v.copy
      <4>1. /\ w.in = v.in /\ w.out = v.out /\ w.sent = v.sent /\ w.new = y.sent /\ w.updated
        BY ONLY <1>1, <1>5, <1>7, <1>9
      <4>2. ASSUME y.sure PROVE ~w.known /\ ~w.free /\ ~w.subscribed /\ w.copy = <<>>
        BY ONLY <1>5, <1>7, <4>2 DEF Unknown
      <4>3. ASSUME ~y.sure
            PROVE  /\ w.known = v.known /\ w.free = v.free
                   /\ w.subscribed = v.subscribed /\ w.copy = v.copy
        <5>1. ctl' = ctl BY ONLY <1>7, <4>3
        <5>2. QED BY ONLY <1>1, <1>5, <5>1
      <4>4. QED BY ONLY <4>1, <4>2, <4>3
    <3>3. /\ v.x.place \in {"road", "parking"} /\ ~v.x.toBeRemoved /\ v.out = <<>> /\ ~v.updated
      BY <1>1, <1>2, <2>2
    <3>4. /\ w.x.items = y.items /\ w.x.passengers = y.passengers /\ w.x.status = y.status
          /\ w.x.toBeRemoved = y.toBeRemoved /\ w.x.sure = y.sure /\ w.x.updated = y.updated
          /\ w.x.sent = <<>>
      BY <1>5, <1>7
    <3>5. Effect(p, v.x, y) BY <1>1, <2>2
    <3>6. QED BY <1>1, <1>10, <3>1, <3>2, <3>3, <3>4, <3>5, UpdateGood
  <2>3. QED BY <1>6, <2>1, <2>2
<1>12. DriversGood' BY <1>7, <1>11, OneDriver
<1>13. Drives(d)
  <2> HIDE DEF v, w
  <2>1. /\ asked' = asked /\ updated' = updated \cup {d}
        /\ served' = served \cup (Ordered(drv[d].items) \ Ordered(y.items))
        /\ lost' = lost \cup (IF y.toBeRemoved THEN Ordered(y.items) ELSE {})
    BY <1>6, Becoming
  <2>2. ctl'.queue = ctl.queue BY <1>7 DEF Keeps
  <2>3. Ordered(y.items) \subseteq Ordered(x.items) BY <1>6 DEF Effect
  <2>4. x.place # "deleted" BY <1>2
  <2>5. drv'[d].place = "deleted" <=> y.toBeRemoved
    <3>1. ~y.toBeRemoved => y.place # "deleted" BY <1>2, <1>6 DEF Effect
    <3>2. QED BY <1>8, <3>1 DEF PlaceAfter
  <2>6. drv'[d].items = y.items BY <1>7
  <2>7. \/ Ordered(y.items) = {} \/ y.items = x.items
        \/ \E r \in Requests : x.items = Legs(p, r) /\ y.items = Tail(Legs(p, r))
    BY <1>6 DEF Effect, Said
  <2>8. QED BY ONLY <1>7, <2>1, <2>2, <2>3, <2>4, <2>5, <2>6, <2>7 DEF Drives
<1>14. QED BY <1>7, <1>12, <1>13

\* A driver as it is loaded, before it performs the first item of its schedule.
Loading(d) ==
  Say([drv[d] EXCEPT !.items = <<IF d \in setting.parks THEN Parking ELSE Cruising>>], "SUBSCRIBE")

OnTheRoad(y) == IF y.place = "unloaded" THEN [y EXCEPT !.place = "road"] ELSE y

\* A driver that is being loaded subscribes.
LEMMA LoadingIs ==
  ASSUME NEW d \in Drivers, drv[d] = Unloaded
  PROVE  LET x == Loading(d) IN
         /\ Fresh(x) /\ ~x.sure /\ ~x.toBeRemoved /\ x.prev = None /\ x.sent = <<"SUBSCRIBE">>
<1> DEFINE item == IF d \in setting.parks THEN Parking ELSE Cruising
           z == [Unloaded EXCEPT !.items = <<item>>]
           x == [z EXCEPT !.sent = Append(@, "SUBSCRIBE")]
<1>1. Loading(d) = x
  <2>1. Say(z, "SUBSCRIBE") = x BY DEF Say
  <2>2. QED BY <2>1 DEF Loading
<1>2. <<item>> \in {<<Cruising>>, <<Parking>>} /\ <<item>> \in Seq(Items) BY NoLegs
<1> HIDE DEF item
<1>3. Append(<<>>, "SUBSCRIBE") = <<"SUBSCRIBE">> /\ <<"SUBSCRIBE">> \in Seq(DriverMessages)
  BY DEF DriverMessages
<1>4. Unloaded \in DriverRecord
  <2>1. <<>> \in Seq(Items) /\ <<>> \in Seq(DriverMessages) /\ {} \in SUBSET Requests OBVIOUS
  <2>2. QED BY <2>1 DEF Unloaded, DriverRecord
<1>5. /\ Unloaded.sent = <<>> /\ Unloaded.passengers = {} /\ ~Unloaded.updated /\ ~Unloaded.sure
      /\ ~Unloaded.toBeRemoved /\ Unloaded.prev = None /\ Unloaded.place = "unloaded"
  BY DEF Unloaded
<1>6. /\ z \in DriverRecord /\ z.items = <<item>> /\ z.sent = <<>> /\ z.passengers = {}
      /\ ~z.updated /\ ~z.sure /\ ~z.toBeRemoved /\ z.prev = None /\ z.place = "unloaded"
  <2>1. z \in DriverRecord BY <1>2, <1>4 DEF DriverRecord
  <2>2. /\ z.items = <<item>> /\ z.sent = Unloaded.sent /\ z.passengers = Unloaded.passengers
        /\ z.updated = Unloaded.updated /\ z.sure = Unloaded.sure
        /\ z.toBeRemoved = Unloaded.toBeRemoved /\ z.prev = Unloaded.prev
        /\ z.place = Unloaded.place
    BY ONLY <1>4 DEF DriverRecord
  <2> HIDE DEF z
  <2>3. QED BY ONLY <1>5, <2>1, <2>2
<1> HIDE DEF z
<1>7. /\ x \in DriverRecord /\ x.items = <<item>> /\ x.sent = <<"SUBSCRIBE">> /\ x.passengers = {}
      /\ ~x.updated /\ ~x.sure /\ ~x.toBeRemoved /\ x.prev = None /\ x.place = "unloaded"
  <2>1. x = [z EXCEPT !.sent = <<"SUBSCRIBE">>] BY ONLY <1>3, <1>6
  <2> HIDE DEF x
  <2>2. x \in DriverRecord BY ONLY <1>3, <1>6, <2>1 DEF DriverRecord
  <2>3. /\ x.items = z.items /\ x.sent = <<"SUBSCRIBE">> /\ x.passengers = z.passengers
        /\ x.updated = z.updated /\ x.sure = z.sure /\ x.toBeRemoved = z.toBeRemoved
        /\ x.prev = z.prev /\ x.place = z.place
    BY ONLY <1>6, <2>1 DEF DriverRecord
  <2>4. QED BY ONLY <1>6, <2>2, <2>3
<1> HIDE DEF x
<1>8. Fresh(x) BY <1>2, <1>7 DEF Fresh
<1>9. QED BY <1>1, <1>7, <1>8

\* Only the place changes when a driver gets on the road.
LEMMA OnTheRoadIs ==
  ASSUME NEW y \in DriverRecord
  PROVE  LET z == OnTheRoad(y) IN
         /\ z \in DriverRecord /\ z.items = y.items /\ z.passengers = y.passengers
         /\ z.status = y.status /\ z.toBeRemoved = y.toBeRemoved /\ z.sure = y.sure
         /\ z.updated = y.updated /\ z.sent = y.sent
         /\ z.place = IF y.place = "unloaded" THEN "road" ELSE y.place
<1>1. CASE y.place = "unloaded"
  <2>1. OnTheRoad(y) = [y EXCEPT !.place = "road"] BY <1>1 DEF OnTheRoad
  <2>2. QED BY <1>1, <2>1 DEF DriverRecord
<1>2. CASE y.place # "unloaded"
  <2>1. OnTheRoad(y) = y BY <1>2 DEF OnTheRoad
  <2>2. QED BY <1>2, <2>1
<1>3. QED BY <1>1, <1>2

\* A driver is loaded.
LEMMA LoadStep ==
  ASSUME Typed, DriversGood, NEW d \in Drivers, Load(d)
  PROVE  Typed' /\ DriversGood' /\ Drives(d)
<1> DEFINE p == setting.parks
           v == View(d)
           w == ViewOf(drv'[d], mail', posted', ctl', updated', d)
           over == now >= ShiftEnd[d]
<1>1. /\ drv[d] \in DriverRecord /\ v \in Views
      /\ Good(p, v) /\ v.x = drv[d] /\ v.in = mail.in[d] /\ v.new = posted.in[d]
      /\ v.out = mail.out[d] /\ v.sent = posted.out[d]
      /\ v.known = (d \in DOMAIN ctl.copy) /\ v.free = (d \in ctl.available)
      /\ v.subscribed = (d \in ctl.subscribed) /\ v.updated = (d \in updated)
      /\ v.copy = IF d \in DOMAIN ctl.copy THEN ctl.copy[d] ELSE <<>>
  BY GoodView
<1>2. drv[d].place = "unloaded" BY DEF Load
<1>3. Loaded(p, v) BY <1>1 DEF Good
<1>4. /\ drv[d] = Unloaded /\ ~v.known /\ posted.in[d] = <<>> /\ v.copy = <<>>
      /\ ~v.free /\ ~v.subscribed
  BY <1>1, <1>2, <1>3 DEF Loaded
<1>5. PICK y \in performScheduleItem(Loading(d), over) : Becomes(d, drv[d], OnTheRoad(y))
  BY DEF Load, Loading, OnTheRoad
<1> HIDE DEF over
<1>6. Started(p, y) BY <1>4, <1>5, LoadingIs, LoadStarted
<1>7. y \in DriverRecord BY <1>6 DEF Started, Fresh
<1> DEFINE z == OnTheRoad(y)
<1>8. /\ z \in DriverRecord /\ z.items = y.items /\ z.passengers = y.passengers
      /\ z.status = y.status /\ z.toBeRemoved = y.toBeRemoved /\ z.sure = y.sure
      /\ z.updated = y.updated /\ z.sent = y.sent
      /\ z.place = IF y.place = "unloaded" THEN "road" ELSE y.place
  BY <1>7, OnTheRoadIs
<1> HIDE DEF z
<1>9. d \notin DOMAIN ctl.copy BY <1>1, <1>4
<1>10. /\ Typed' /\ Keeps(ctl, d, ctl') /\ (z.sure => Unknown(ctl', d)) /\ (~z.sure => ctl' = ctl)
       /\ drv'[d] \in DriverRecord /\ drv'[d].items = z.items /\ drv'[d].passengers = z.passengers
       /\ drv'[d].status = z.status /\ drv'[d].toBeRemoved = z.toBeRemoved
       /\ drv'[d].sure = z.sure /\ drv'[d].updated = z.updated /\ drv'[d].sent = <<>>
       /\ drv'[d].place = IF drv[d].place = "unloaded" /\ z.toBeRemoved THEN "nowhere"
                          ELSE PlaceAfter(drv[d], z)
       /\ posted'.in[d] = posted.in[d] \o z.sent /\ posted'.out = posted.out
       /\ posted'.asks = posted.asks /\ mail' = mail /\ d \in updated' /\ setting' = setting
       /\ \A e \in Drivers \ {d} :
            /\ drv'[e] = drv[e] /\ (e \in updated' <=> e \in updated)
            /\ posted'.in[e] = posted.in[e]
  BY <1>5, <1>8, <1>9, Becoming DEF z
<1>11. posted'.in[d] = y.sent
  <2>1. y.sent \in Seq(DriverMessages) BY <1>7 DEF DriverRecord
  <2>2. <<>> \o y.sent = y.sent BY <2>1, ConcatEmptySeq
  <2>3. QED BY <1>4, <1>8, <1>10, <2>2
<1>12. drv'[d].place = IF y.toBeRemoved THEN "nowhere"
                       ELSE IF y.place = "unloaded" THEN "road" ELSE y.place
  BY <1>2, <1>8, <1>10 DEF PlaceAfter
<1>13. Unknown(ctl', d)
  <2>1. Unknown(ctl, d) BY <1>1, <1>4 DEF Unknown
  <2>2. QED BY <1>10, <2>1
<1>14. /\ w.x = drv'[d] /\ w.in = mail'.in[d] /\ w.new = posted'.in[d]
       /\ w.out = mail'.out[d] /\ w.sent = posted'.out[d]
       /\ w.known = (d \in DOMAIN ctl'.copy) /\ w.free = (d \in ctl'.available)
       /\ w.subscribed = (d \in ctl'.subscribed) /\ w.updated = (d \in updated')
       /\ w.copy = IF d \in DOMAIN ctl'.copy THEN ctl'.copy[d] ELSE <<>>
  BY ViewFields
<1>15. w \in Views
  <2>1. mail' \in Boxes /\ posted' \in Boxes /\ Books(ctl') BY <1>10 DEF Typed
  <2>2. QED BY <1>10, <2>1, ViewTyped
<1>16. Good(p, w)
  <2> HIDE DEF v, w
  <2>1. ~w.known /\ ~w.free /\ ~w.subscribed /\ w.copy = <<>> BY ONLY <1>13, <1>14 DEF Unknown
  <2>2. w.known = v.known /\ w.free = v.free /\ w.subscribed = v.subscribed /\ w.copy = v.copy
    <3>1. v.known \in BOOLEAN /\ v.free \in BOOLEAN /\ v.subscribed \in BOOLEAN
          /\ w.known \in BOOLEAN /\ w.free \in BOOLEAN /\ w.subscribed \in BOOLEAN
      BY ONLY <1>1, <1>15 DEF Views
    <3>2. QED BY ONLY <1>4, <2>1, <3>1
  <2>3. /\ w.x.items = y.items /\ w.x.passengers = y.passengers /\ w.x.status = y.status
        /\ w.x.toBeRemoved = y.toBeRemoved /\ w.x.sure = y.sure /\ w.x.updated = y.updated
        /\ w.x.sent = <<>>
    BY ONLY <1>8, <1>10, <1>14
  <2>4. w.x.place = IF y.toBeRemoved THEN "nowhere"
                    ELSE IF y.place = "unloaded" THEN "road" ELSE y.place
    BY ONLY <1>12, <1>14
  <2>5. w.in = v.in /\ w.new = y.sent /\ w.out = v.out /\ w.sent = v.sent /\ w.updated
    BY ONLY <1>1, <1>10, <1>11, <1>14
  <2>6. v.x.place = "unloaded" BY ONLY <1>1, <1>2
  <2>7. Loads(p, y, v, w) BY <1>6, <2>2, <2>3, <2>4, <2>5, <2>6 DEF Loads
  <2>8. QED BY <1>1, <1>15, <2>7, LoadsGood
<1>17. DriversGood' BY <1>10, <1>16, OneDriver
<1>18. Drives(d)
  <2> HIDE DEF v, w
  <2>1. /\ asked' = asked /\ updated' = updated \cup {d}
        /\ served' = served \cup (Ordered(drv[d].items) \ Ordered(z.items))
        /\ lost' = lost \cup (IF z.toBeRemoved THEN Ordered(z.items) ELSE {})
    BY <1>5, <1>8, <1>9, Becoming DEF z
  <2>2. ctl'.queue = ctl.queue BY <1>10 DEF Keeps
  <2>3. drv[d].items = <<>> BY <1>4 DEF Unloaded
  <2>4. Ordered(z.items) = {} /\ Ordered(drv[d].items) = {}
    BY <1>6, <1>8, <2>3, NoLegs DEF Started, Fresh
  <2>5. drv'[d].items = z.items BY <1>10
  <2>6. drv[d].place # "deleted" BY <1>2
  <2>7. /\ mail' = mail /\ posted'.asks = posted.asks /\ posted'.out = posted.out
        /\ setting' = setting /\ \A e \in Drivers \ {d} : drv'[e] = drv[e]
    BY <1>10
  <2>8. QED BY ONLY <2>1, <2>2, <2>4, <2>5, <2>6, <2>7 DEF Drives
<1>19. QED BY <1>10, <1>17, <1>18

\* What a driver makes of a message.
Answered(x, m) ==
  CASE m.kind = "SCHEDULE_PROPOSITION" ->
         [x EXCEPT !.prev = IF x.items = <<>> THEN None ELSE Head(x.items).kind,
                   !.items = Trip(m.request), !.updated = TRUE, !.leaving = TRUE]
    [] m.kind = "UNSUBSCRIBE_SUCCESSFUL" -> [x EXCEPT !.toBeRemoved = TRUE]
    [] m.kind = "DELAY_SHIFT_END" -> [x EXCEPT !.waiting = FALSE]

\* What a message changes in the driver that receives it.
LEMMA AnsweredIs ==
  ASSUME Typed, NEW x \in DriverRecord, NEW m \in Answers
  PROVE  LET y == Answered(x, m) IN
         /\ y \in DriverRecord /\ y.place = x.place /\ y.passengers = x.passengers
         /\ y.status = x.status /\ y.sure = x.sure /\ y.sent = x.sent
         /\ m.kind = "SCHEDULE_PROPOSITION" =>
              /\ m.request \in Requests /\ y.items = Legs(setting.parks, m.request)
              /\ y.updated /\ y.toBeRemoved = x.toBeRemoved
         /\ m.kind # "SCHEDULE_PROPOSITION" =>
              /\ y.items = x.items /\ y.updated = x.updated
              /\ x.toBeRemoved => y.toBeRemoved
              /\ m.kind # "UNSUBSCRIBE_SUCCESSFUL" => y.toBeRemoved = x.toBeRemoved
<1>1. CASE m.kind = "SCHEDULE_PROPOSITION"
  <2> DEFINE prev == IF x.items = <<>> THEN None ELSE Head(x.items).kind
             items == Trip(m.request)
             y == [x EXCEPT !.prev = prev, !.items = items, !.updated = TRUE, !.leaving = TRUE]
  <2>1. m.request \in Requests BY <1>1 DEF Answers
  <2>2. items = Legs(setting.parks, m.request) /\ items \in Seq(Items)
    BY <2>1, TripIsLegs, LegsFacts DEF Typed
  <2>3. prev \in {None, "CRUISE", "PICKUP", "DROPOFF", "PARK"}
    <3>1. x.items \in Seq(Items) BY DEF DriverRecord
    <3>2. x.items # <<>> => Head(x.items) \in Items BY ONLY <3>1, HeadTailProperties
    <3>3. QED BY <3>2 DEF Items
  <2>4. Answered(x, m) = y BY <1>1 DEF Answered
  <2> HIDE DEF prev, items
  <2>5. y \in DriverRecord BY <2>2, <2>3 DEF DriverRecord
  <2>6. /\ y.place = x.place /\ y.passengers = x.passengers /\ y.status = x.status
        /\ y.sure = x.sure /\ y.sent = x.sent /\ y.items = items /\ y.updated
        /\ y.toBeRemoved = x.toBeRemoved
    BY DEF DriverRecord
  <2> HIDE DEF y
  <2>7. QED BY <1>1, <2>1, <2>2, <2>4, <2>5, <2>6
<1>2. CASE m.kind = "UNSUBSCRIBE_SUCCESSFUL"
  <2> DEFINE y == [x EXCEPT !.toBeRemoved = TRUE]
  <2>1. Answered(x, m) = y BY <1>2 DEF Answered
  <2>2. y \in DriverRecord BY DEF DriverRecord
  <2>3. /\ y.place = x.place /\ y.passengers = x.passengers /\ y.status = x.status
        /\ y.sure = x.sure /\ y.sent = x.sent /\ y.items = x.items /\ y.updated = x.updated
        /\ y.toBeRemoved
    BY DEF DriverRecord
  <2> HIDE DEF y
  <2>4. QED BY <1>2, <2>1, <2>2, <2>3
<1>3. CASE m.kind = "DELAY_SHIFT_END"
  <2> DEFINE y == [x EXCEPT !.waiting = FALSE]
  <2>1. Answered(x, m) = y BY <1>3 DEF Answered
  <2>2. y \in DriverRecord BY DEF DriverRecord
  <2>3. /\ y.place = x.place /\ y.passengers = x.passengers /\ y.status = x.status
        /\ y.sure = x.sure /\ y.sent = x.sent /\ y.items = x.items /\ y.updated = x.updated
        /\ y.toBeRemoved = x.toBeRemoved
    BY DEF DriverRecord
  <2> HIDE DEF y
  <2>4. QED BY <1>3, <2>1, <2>2, <2>3
<1>4. m.kind \in {"SCHEDULE_PROPOSITION", "UNSUBSCRIBE_SUCCESSFUL", "DELAY_SHIFT_END"}
  BY DEF Answers
<1>5. QED BY <1>1, <1>2, <1>3, <1>4

\* The state after a message was received.
LEMMA Receiving ==
  ASSUME Typed, NEW d \in Drivers, NEW i \in DOMAIN mail.out[d], Receive(d, i)
  PROVE  LET m == mail.out[d][i]
             y == IF drv[d].place = "deleted" THEN drv[d] ELSE Answered(drv[d], m) IN
         /\ Typed' /\ drv'[d] = y /\ \A e \in Drivers \ {d} : drv'[e] = drv[e]
         /\ mail'.out[d] = Rest(mail.out[d], i) /\ mail'.asks = mail.asks /\ mail'.in = mail.in
         /\ \A e \in Drivers \ {d} : mail'.out[e] = mail.out[e]
         /\ lost' = lost \cup (IF drv[d].place = "deleted" THEN Offered(<<m>>) ELSE {})
         /\ setting' = setting /\ now' = now /\ updated' = updated /\ posted' = posted
         /\ ctl' = ctl /\ asked' = asked /\ served' = served
<1> DEFINE m == mail.out[d][i]
           y == IF drv[d].place = "deleted" THEN drv[d] ELSE Answered(drv[d], m)
           s == Rest(mail.out[d], i)
<1>1. /\ mail' = WithOut(mail, d, s)
      /\ setting' = setting /\ now' = now /\ updated' = updated /\ posted' = posted
      /\ ctl' = ctl /\ asked' = asked /\ served' = served
      /\ drv[d].place = "deleted" => drv' = drv /\ lost' = lost \cup Offered(<<m>>)
      /\ drv[d].place # "deleted" =>
           drv' = [drv EXCEPT ![d] = Answered(drv[d], m)] /\ lost' = lost
  BY DEF Receive, WithOut, Answered
<1>2. /\ drv \in [Drivers -> DriverRecord] /\ mail \in Boxes /\ drv[d] \in DriverRecord
      /\ mail.out[d] \in Seq(Answers)
  BY DEF Typed, Boxes
<1>3. s \in Seq(Answers) /\ m \in Answers BY <1>2, OutRest
<1> HIDE DEF m, s
<1>4. y \in DriverRecord BY <1>2, <1>3, AnsweredIs
<1>5. drv' \in [Drivers -> DriverRecord] /\ drv'[d] = y
      /\ \A e \in Drivers \ {d} : drv'[e] = drv[e]
  BY <1>1, <1>2, <1>4
<1> HIDE DEF y
<1>6. /\ mail' \in Boxes /\ mail'.asks = mail.asks /\ mail'.in = mail.in
      /\ mail'.out[d] = s /\ \A e \in Drivers \ {d} : mail'.out[e] = mail.out[e]
  BY <1>1, <1>2, <1>3, WithOutIs
<1>7. Offered(<<m>>) \subseteq Requests
  <2>1. <<m>> \in Seq(Answers) BY <1>3
  <2>2. QED BY <2>1, OfferedIn
<1>8. lost' \subseteq Requests BY <1>1, <1>7 DEF Typed
<1>9. Typed' BY <1>1, <1>5, <1>6, <1>8 DEF Typed
<1>10. lost' = lost \cup (IF drv[d].place = "deleted" THEN Offered(<<m>>) ELSE {}) BY <1>1
<1>11. QED BY <1>1, <1>5, <1>6, <1>9, <1>10 DEF y, m, s

\* A driver receives a message.
LEMMA ReceiveStep ==
  ASSUME Typed, DriversGood, NEW d \in Drivers, NEW i \in DOMAIN mail.out[d], Receive(d, i)
  PROVE  Typed' /\ DriversGood'
<1> DEFINE p == setting.parks
           v == View(d)
           w == ViewOf(drv'[d], mail', posted', ctl', updated', d)
           x == drv[d]
           m == mail.out[d][i]
<1>1. /\ x \in DriverRecord /\ v \in Views
      /\ Good(p, v) /\ v.x = x /\ v.in = mail.in[d] /\ v.new = posted.in[d]
      /\ v.out = mail.out[d] /\ v.sent = posted.out[d]
      /\ v.known = (d \in DOMAIN ctl.copy) /\ v.free = (d \in ctl.available)
      /\ v.subscribed = (d \in ctl.subscribed) /\ v.updated = (d \in updated)
      /\ v.copy = IF d \in DOMAIN ctl.copy THEN ctl.copy[d] ELSE <<>>
  BY GoodView
<1>2. /\ w.x = drv'[d] /\ w.in = mail'.in[d] /\ w.new = posted'.in[d]
      /\ w.out = mail'.out[d] /\ w.sent = posted'.out[d]
      /\ w.known = (d \in DOMAIN ctl'.copy) /\ w.free = (d \in ctl'.available)
      /\ w.subscribed = (d \in ctl'.subscribed) /\ w.updated = (d \in updated')
      /\ w.copy = IF d \in DOMAIN ctl'.copy THEN ctl'.copy[d] ELSE <<>>
  BY ViewFields
<1>3. /\ Typed' /\ drv'[d] = (IF x.place = "deleted" THEN x ELSE Answered(x, m))
      /\ \A e \in Drivers \ {d} : drv'[e] = drv[e]
      /\ mail'.out[d] = Rest(mail.out[d], i) /\ mail'.asks = mail.asks /\ mail'.in = mail.in
      /\ \A e \in Drivers \ {d} : mail'.out[e] = mail.out[e]
      /\ setting' = setting /\ updated' = updated /\ posted' = posted /\ ctl' = ctl
  BY Receiving
<1>4. Loaded(p, v) /\ OneJob(v) BY <1>1 DEF Good
<1>5. mail.out[d] \in Seq(Answers) /\ m \in Answers /\ mail.out[d] # <<>>
  BY OutRest DEF Typed, Boxes
<1> DEFINE s == Rest(mail.out[d], i)
<1>6. /\ s \in Seq(Answers) /\ (Single(mail.out[d]) => Single(s))
      /\ (LetGo(s) => LetGo(mail.out[d])) /\ Offered(s) \subseteq Offered(mail.out[d])
      /\ m.kind # "SCHEDULE_PROPOSITION" => Offered(s) = Offered(mail.out[d])
      /\ m.kind = "SCHEDULE_PROPOSITION" /\ Single(mail.out[d]) =>
           Offered(s) = {} /\ Offered(mail.out[d]) = {m.request}
  BY <1>5, OutRest
<1>7. w \in Views
  <2>1. mail' \in Boxes /\ posted' \in Boxes /\ Books(ctl') BY <1>3 DEF Typed
  <2>2. drv'[d] \in DriverRecord BY <1>3 DEF Typed
  <2>3. QED BY <2>1, <2>2, ViewTyped
<1> HIDE DEF m, s, v, w, p
<1>8. x.place # "unloaded" /\ x.sent = <<>> /\ ~v.updated /\ v.new = <<>> /\ ~w.updated
  <2>1. x.place # "unloaded" BY <1>1, <1>4, <1>5 DEF Loaded
  <2>2. ~v.updated BY <1>1, <1>4, <1>5 DEF Loaded
  <2>3. v.new = <<>> /\ x.sent = <<>> BY <1>1, <1>4, <2>2 DEF Loaded
  <2>4. ~w.updated BY <1>1, <1>2, <1>3, <2>2
  <2>5. QED BY <2>1, <2>2, <2>3, <2>4
<1>9. w.in = v.in /\ w.new = v.new /\ w.sent = v.sent /\ w.out = s
      /\ w.known = v.known /\ w.free = v.free /\ w.subscribed = v.subscribed /\ w.copy = v.copy
      /\ w.updated = v.updated
  BY ONLY <1>1, <1>2, <1>3 DEF s
<1>10. OneOffer(v) BY <1>4 DEF OneJob
<1>11. ASSUME x.place = "deleted" \/ m.kind # "SCHEDULE_PROPOSITION" PROVE Good(p, w)
  <2> DEFINE y == Answered(x, m)
  <2>1. /\ y.place = x.place /\ y.passengers = x.passengers
        /\ y.status = x.status /\ y.sure = x.sure /\ y.sent = x.sent
        /\ m.kind # "SCHEDULE_PROPOSITION" =>
              /\ y.items = x.items /\ y.updated = x.updated
              /\ x.toBeRemoved => y.toBeRemoved
              /\ m.kind # "UNSUBSCRIBE_SUCCESSFUL" => y.toBeRemoved = x.toBeRemoved
    BY <1>1, <1>5, AnsweredIs
  <2> HIDE DEF y
  <2>2. /\ w.x.place = x.place /\ w.x.items = x.items /\ w.x.passengers = x.passengers
        /\ w.x.status = x.status /\ w.x.updated = x.updated /\ w.x.sure = x.sure
        /\ w.x.sent = x.sent /\ (x.toBeRemoved => w.x.toBeRemoved)
        /\ m.kind # "UNSUBSCRIBE_SUCCESSFUL" => w.x.toBeRemoved = x.toBeRemoved
    <3>1. CASE x.place = "deleted"
      <4>1. w.x = x BY ONLY <1>2, <1>3, <3>1
      <4>2. QED BY <4>1
    <3>2. CASE x.place # "deleted"
      <4>1. w.x = y BY <1>2, <1>3, <3>2 DEF y
      <4>2. QED BY <1>11, <2>1, <3>2, <4>1
    <3>3. QED BY <3>1, <3>2
  <2>3. Gone(w) => Gone(v)
    <3>1. LetGo(w.out) => LetGo(v.out) BY <1>1, <1>6, <1>9
    <3>2. CASE m.kind = "UNSUBSCRIBE_SUCCESSFUL"
      <4>1. LetGo(v.out) BY <1>1, <3>2 DEF LetGo, m
      <4>2. QED BY <4>1 DEF Gone
    <3>3. CASE m.kind # "UNSUBSCRIBE_SUCCESSFUL"
      <4>1. w.x.toBeRemoved = v.x.toBeRemoved /\ w.x.sure = v.x.sure /\ w.sent = v.sent
        BY <1>1, <1>9, <2>2, <3>3
      <4>2. QED BY <3>1, <4>1 DEF Gone
    <3>4. QED BY <3>2, <3>3
  <2>4. Less(v, w)
    <3>1. /\ v.x.place # "unloaded" /\ w.x.place \in {v.x.place, "deleted"}
          /\ w.x.items = v.x.items /\ w.x.passengers = v.x.passengers /\ w.x.status = v.x.status
          /\ w.x.updated = v.x.updated /\ w.x.sure = v.x.sure /\ w.x.sent = <<>>
          /\ v.x.toBeRemoved => w.x.toBeRemoved
      BY <1>1, <1>8, <2>2
    <3>2. /\ Single(v.out) => Single(w.out)
          /\ Offered(w.out) \subseteq Offered(v.out)
      BY <1>1, <1>6, <1>9
    <3>3. QED BY <1>8, <1>9, <2>3, <3>1, <3>2 DEF Less
  <2>5. QED BY <1>1, <1>7, <2>4, LessGood
<1>12. ASSUME x.place # "deleted", m.kind = "SCHEDULE_PROPOSITION" PROVE Good(p, w)
  <2> DEFINE y == Answered(x, m)
             r == m.request
  <2>1. /\ y.place = x.place /\ y.passengers = x.passengers
        /\ y.status = x.status /\ y.sure = x.sure /\ y.sent = x.sent
        /\ r \in Requests /\ y.items = Legs(p, r)
        /\ y.updated /\ y.toBeRemoved = x.toBeRemoved
      BY <1>1, <1>5, <1>12, AnsweredIs DEF p
  <2> HIDE DEF y, r
  <2>2. w.x = y BY <1>2, <1>3, <1>12 DEF y
  <2>3. Single(v.out) /\ Single(v.sent) /\ (Offered(v.out) = {} \/ Offered(v.sent) = {})
    BY <1>10 DEF OneOffer
  <2>4. Offered(w.out) = {} /\ Offered(v.out) = {r} /\ Single(w.out) /\ Offered(w.sent) = {}
    BY <1>1, <1>6, <1>9, <1>12, <2>3 DEF r
  <2>5. r \in Offers(v) /\ Offers(w) = {} BY <2>4 DEF Offers
  <2>6. OneOffer(w) BY <1>9, <2>3, <2>4 DEF OneOffer
  <2>7. LetGo(w.out) => LetGo(v.out) BY <1>1, <1>6, <1>9
  <2>8. Proposed(p, r, v, w)
    BY <1>1, <1>8, <1>9, <1>12, <2>1, <2>2, <2>5, <2>6, <2>7 DEF Proposed
  <2>9. QED BY <1>1, <1>7, <2>1, <2>8, ProposedGood
<1>13. Good(p, w) BY <1>11, <1>12
<1>14. Keeps(ctl, d, ctl') BY <1>3 DEF Keeps, Typed
<1>15. DriversGood' BY <1>3, <1>13, <1>14, OneDriver DEF w, p
<1>16. QED BY <1>3, <1>15

-----------------------------------------------------------------------------
(* The steps of the controller. *)

\* The controller with other books: the parts that the messages of a driver change.
LEMMA NewBooks ==
  ASSUME NEW c, Books(c), NEW d \in Drivers, NEW b, DOMAIN b = DOMAIN c,
         b.queue = c.queue, b.localTick = c.localTick,
         b.subscribed = c.subscribed \/ b.subscribed = c.subscribed \cup {d},
         b.available \in {c.available, c.available \cup {d}, c.available \ {d}},
         \/ b.copy = c.copy
         \/ /\ DOMAIN b.copy = DOMAIN c.copy \cup {d} /\ IsMap(b.copy)
            /\ b.copy[d] \in Seq(Items) /\ \A e \in DOMAIN c.copy \ {d} : b.copy[e] = c.copy[e],
         d \in b.available \/ d \in b.subscribed => d \in DOMAIN b.copy
  PROVE  Keeps(c, d, b)
<1>1. /\ c.available \subseteq DOMAIN c.copy /\ c.subscribed \subseteq DOMAIN c.copy
      /\ DOMAIN c.copy \subseteq Drivers /\ \A e \in DOMAIN c.copy : c.copy[e] \in Seq(Items)
      /\ IsMap(c.copy)
  BY DEF Books
<1>2. /\ \A e \in Drivers \ {d} : /\ e \in DOMAIN b.copy <=> e \in DOMAIN c.copy
                                  /\ e \in DOMAIN c.copy => b.copy[e] = c.copy[e]
      /\ DOMAIN b.copy \subseteq Drivers /\ \A e \in DOMAIN b.copy : b.copy[e] \in Seq(Items)
      /\ IsMap(b.copy)
  <2>1. CASE b.copy = c.copy BY <1>1, <2>1
  <2>2. CASE /\ DOMAIN b.copy = DOMAIN c.copy \cup {d}
             /\ IsMap(b.copy)
             /\ b.copy[d] \in Seq(Items) /\ \A e \in DOMAIN c.copy \ {d} : b.copy[e] = c.copy[e]
    BY <1>1, <2>2
  <2>3. QED BY <2>1, <2>2
<1>3. \A e \in Drivers \ {d} : /\ e \in b.available <=> e \in c.available
                               /\ e \in b.subscribed <=> e \in c.subscribed
  OBVIOUS
<1>4. b.available \subseteq DOMAIN b.copy /\ b.subscribed \subseteq DOMAIN b.copy
  <2>1. b.available \subseteq Drivers /\ b.subscribed \subseteq Drivers BY <1>1
  <2>2. QED BY <1>1, <1>2, <1>3, <2>1
<1>5. Books(b) BY <1>2, <1>4 DEF Books
<1>6. QED BY <1>2, <1>3, <1>5 DEF Keeps

\* The same for the empty schedule.
LEMMA WithoutCopyIs ==
  ASSUME NEW c, Books(c), NEW d \in Drivers
  PROVE  LET k == WithCopy(c, d, <<>>) IN
         /\ DOMAIN k = DOMAIN c.copy \cup {d} /\ IsMap(k)
         /\ k[d] = <<>> /\ \A e \in DOMAIN c.copy \ {d} : k[e] = c.copy[e]
BY DEF WithCopy, IsMap

\* What the controller knows of a driver after its message.
LEMMA HandledIs ==
  ASSUME NEW c, Books(c), NEW d \in Drivers, NEW m \in DriverMessages, NEW sure \in BOOLEAN
  PROVE  LET b == HandleMessage(c, d, m, sure)
             none == d \notin DOMAIN c.copy
             same == (d \in DOMAIN b.copy <=> d \in DOMAIN c.copy)
             kept == d \in DOMAIN c.copy => b.copy[d] = c.copy[d]
             as == d \in b.subscribed <=> d \in c.subscribed
             free == d \in b.available <=> d \in c.available
         IN
         /\ Keeps(c, d, b)
         /\ m = "SUBSCRIBE" /\ ~sure =>
              /\ d \in DOMAIN b.copy /\ d \in b.available /\ d \in b.subscribed
              /\ none => b.copy[d] = <<>>
         /\ m = "AVAILABLE" /\ ~sure =>
              d \in DOMAIN b.copy /\ d \in b.available /\ as /\ b.copy[d] = <<>>
         /\ m = "STATUS" /\ ~sure =>
              /\ same /\ free /\ as
              /\ d \in DOMAIN c.copy =>
                   b.copy[d] = IF c.copy[d] # <<>> THEN Tail(c.copy[d]) ELSE c.copy[d]
         /\ m \in {"SUBSCRIBE", "STATUS", "AVAILABLE"} /\ sure => b = c
         /\ m = "SHIFT_END" =>
              /\ ~none /\ c.copy[d] = <<>> => Unknown(b, d)
              /\ none \/ c.copy[d] # <<>> => same /\ kept /\ as /\ free
<1> DEFINE b == HandleMessage(c, d, m, sure)
<1>1. Keeps(c, d, c) BY DEF Keeps
<1>2. CASE sure /\ m \in {"SUBSCRIBE", "STATUS", "AVAILABLE"}
  <2>1. b = c BY <1>2 DEF HandleMessage
  <2> HIDE DEF b
  <2>2. QED BY <1>1, <1>2, <2>1 DEF b
<1>3. CASE m = "SUBSCRIBE" /\ ~sure
  <2> DEFINE k == IF d \in DOMAIN c.copy THEN c.copy ELSE WithCopy(c, d, <<>>)
  <2>1. b = [c EXCEPT !.subscribed = @ \cup {d}, !.available = @ \cup {d}, !.copy = k]
    BY <1>3 DEF HandleMessage, Subscribed
  <2>2. <<>> \in Seq(Items) BY NoLegs
  <2>3. \/ k = c.copy /\ d \in DOMAIN c.copy
        \/ /\ DOMAIN k = DOMAIN c.copy \cup {d} /\ IsMap(k) /\ k[d] = <<>>
           /\ \A e \in DOMAIN c.copy \ {d} : k[e] = c.copy[e]
    <3>1. CASE d \in DOMAIN c.copy BY <3>1
    <3>2. CASE d \notin DOMAIN c.copy
      <4>1. k = WithCopy(c, d, <<>>) BY <3>2
      <4> HIDE DEF k
      <4>2. QED BY <4>1, WithoutCopyIs
    <3>3. QED BY <3>1, <3>2
  <2> HIDE DEF k
  <2>4. /\ DOMAIN b = DOMAIN c /\ b.queue = c.queue /\ b.localTick = c.localTick
        /\ b.subscribed = c.subscribed \cup {d} /\ b.available = c.available \cup {d} /\ b.copy = k
    BY <2>1 DEF Books
  <2> HIDE DEF b
  <2>5. d \in DOMAIN b.copy BY <2>3, <2>4
  <2>6. Keeps(c, d, b) BY <2>2, <2>3, <2>4, <2>5, NewBooks
  <2>7. QED BY <1>3, <2>3, <2>4, <2>5, <2>6 DEF b
<1>4. CASE m = "AVAILABLE" /\ ~sure
  <2> DEFINE k == WithCopy(c, d, <<>>)
  <2>1. b = [c EXCEPT !.available = @ \cup {d}, !.copy = k]
    BY <1>4 DEF HandleMessage, driverAvailable
  <2>2. <<>> \in Seq(Items) BY NoLegs
  <2>3. /\ DOMAIN k = DOMAIN c.copy \cup {d} /\ IsMap(k) /\ k[d] = <<>>
        /\ \A e \in DOMAIN c.copy \ {d} : k[e] = c.copy[e]
    BY WithoutCopyIs
  <2> HIDE DEF k
  <2>4. /\ DOMAIN b = DOMAIN c /\ b.queue = c.queue /\ b.localTick = c.localTick
        /\ b.subscribed = c.subscribed /\ b.available = c.available \cup {d} /\ b.copy = k
    BY <2>1 DEF Books
  <2> HIDE DEF b
  <2>5. Keeps(c, d, b) BY <2>2, <2>3, <2>4, NewBooks
  <2>6. QED BY <1>4, <2>3, <2>4, <2>5 DEF b
<1>5. CASE m = "STATUS" /\ ~sure
  <2>1. b = onDriverScheduleStatus(c, d) BY <1>5 DEF HandleMessage
  <2>2. CASE d \in DOMAIN c.copy /\ c.copy[d] # <<>>
    <3> DEFINE t == Tail(c.copy[d])
               k == [c.copy EXCEPT ![d] = t]
    <3>1. t \in Seq(Items)
      <4>1. c.copy[d] \in Seq(Items) BY <2>2 DEF Books
      <4>2. QED BY ONLY <2>2, <4>1, HeadTailProperties
    <3>2. b = [c EXCEPT !.copy = k] BY <2>1, <2>2 DEF onDriverScheduleStatus
    <3> HIDE DEF t
    <3>3. IsMap(c.copy) BY DEF Books
    <3>4. /\ DOMAIN k = DOMAIN c.copy \cup {d} /\ IsMap(k) /\ k[d] = t
          /\ \A e \in DOMAIN c.copy \ {d} : k[e] = c.copy[e]
      BY <2>2, <3>3 DEF IsMap
    <3> HIDE DEF k
    <3>5. /\ DOMAIN b = DOMAIN c /\ b.queue = c.queue /\ b.localTick = c.localTick
          /\ b.subscribed = c.subscribed /\ b.available = c.available /\ b.copy = k
      BY <3>2 DEF Books
    <3> HIDE DEF b
    <3>6. Keeps(c, d, b) BY <2>2, <3>1, <3>4, <3>5, NewBooks
    <3>7. QED BY <1>5, <2>2, <3>4, <3>5, <3>6 DEF b, t
  <2>3. CASE ~(d \in DOMAIN c.copy /\ c.copy[d] # <<>>)
    <3>1. b = c BY <2>1, <2>3 DEF onDriverScheduleStatus
    <3> HIDE DEF b
    <3>2. QED BY <1>1, <1>5, <2>3, <3>1 DEF b
  <2>4. QED BY <2>2, <2>3
<1>6. CASE m = "SHIFT_END"
  <2>1. b = onDriverShiftEnd(c, d) BY <1>6 DEF HandleMessage
  <2>2. CASE d \notin DOMAIN c.copy
    <3>1. b = [c EXCEPT !.aborted = TRUE] BY <2>1, <2>2 DEF onDriverShiftEnd
    <3>2. /\ DOMAIN b = DOMAIN c /\ b.queue = c.queue /\ b.localTick = c.localTick
          /\ b.subscribed = c.subscribed /\ b.available = c.available /\ b.copy = c.copy
      BY <3>1 DEF Books
    <3> HIDE DEF b
    <3>3. Keeps(c, d, b) BY <3>2, NewBooks DEF Books
    <3>4. QED BY <1>6, <2>2, <3>2, <3>3 DEF b
  <2>3. CASE d \in DOMAIN c.copy /\ c.copy[d] = <<>>
    <3>1. b = unsubscribeDriver(c, d) BY <2>1, <2>3 DEF onDriverShiftEnd
    <3> HIDE DEF b
    <3>2. Keeps(c, d, b) /\ Unknown(b, d) BY <3>1, UnsubscribeIs
    <3>3. QED BY <1>6, <2>3, <3>2 DEF b
  <2>4. CASE d \in DOMAIN c.copy /\ c.copy[d] # <<>>
    <3>1. b = c BY <2>1, <2>4 DEF onDriverShiftEnd
    <3> HIDE DEF b
    <3>2. QED BY <1>1, <1>6, <2>4, <3>1 DEF b
  <2>5. QED BY <2>2, <2>3, <2>4
<1>7. m \in {"SUBSCRIBE", "STATUS", "AVAILABLE", "SHIFT_END"} BY DEF DriverMessages
<1>8. QED BY <1>2, <1>3, <1>4, <1>5, <1>6, <1>7

\* The state after a message was handled.
LEMMA Handling ==
  ASSUME Typed, NEW d \in Drivers, NEW i \in DOMAIN mail.in[d], Handle(d, i)
  PROVE  LET m == mail.in[d][i] IN
         /\ Typed' /\ m \in DriverMessages /\ i \in NextOf(mail.in[d])
         /\ \E sure \in BOOLEAN :
              /\ drv[d].place # "deleted" => sure = drv[d].sure
              /\ ctl' = HandleMessage(ctl, d, m, sure)
         /\ Keeps(ctl, d, ctl')
         /\ posted' = IF m = "SHIFT_END"
                      THEN WithOut(posted, d, posted.out[d] \o ShiftEndAnswer(ctl, d)) ELSE posted
         /\ posted'.asks = posted.asks /\ posted'.in = posted.in
         /\ \A e \in Drivers \ {d} : posted'.out[e] = posted.out[e]
         /\ mail'.in[d] = Rest(mail.in[d], i) /\ mail'.asks = mail.asks /\ mail'.out = mail.out
         /\ \A e \in Drivers \ {d} : mail'.in[e] = mail.in[e]
         /\ setting' = setting /\ now' = now /\ updated' = updated /\ drv' = drv
         /\ asked' = asked /\ served' = served /\ lost' = lost
<1> DEFINE m == mail.in[d][i]
           s == Rest(mail.in[d], i)
           t == posted.out[d] \o ShiftEndAnswer(ctl, d)
<1>1. /\ i \in NextOf(mail.in[d]) /\ mail' = WithIn(mail, d, s)
      /\ \E sure \in SureSeen(d) : ctl' = HandleMessage(ctl, d, m, sure)
      /\ posted' = IF m = "SHIFT_END" THEN WithOut(posted, d, t) ELSE posted
      /\ setting' = setting /\ now' = now /\ updated' = updated /\ drv' = drv
      /\ asked' = asked /\ served' = served /\ lost' = lost
  BY DEF Handle, WithIn, WithOut
<1>2. /\ mail \in Boxes /\ posted \in Boxes /\ mail.in[d] \in Seq(DriverMessages)
      /\ posted.out[d] \in Seq(Answers) /\ drv[d] \in DriverRecord /\ Books(ctl)
  BY DEF Typed, Boxes
<1>3. s \in Seq(DriverMessages) /\ m \in DriverMessages
  BY <1>2, RestIs, ElementOfSeq
<1>4. t \in Seq(Answers)
  <2>1. /\ [kind |-> "UNSUBSCRIBE_SUCCESSFUL"] \in Answers
        /\ [kind |-> "DELAY_SHIFT_END"] \in Answers
    BY DEF Answers
  <2>2. ShiftEndAnswer(ctl, d) \in Seq(Answers) BY <2>1 DEF ShiftEndAnswer
  <2>3. QED BY ONLY <1>2, <2>2, ConcatProperties
<1> HIDE DEF s, t
<1>5. PICK sure \in SureSeen(d) : ctl' = HandleMessage(ctl, d, m, sure) BY <1>1
<1>6. sure \in BOOLEAN /\ (drv[d].place # "deleted" => sure = drv[d].sure)
  BY <1>2, <1>5 DEF SureSeen, DriverRecord
<1> HIDE DEF m
<1>7. Keeps(ctl, d, ctl') BY <1>2, <1>3, <1>5, <1>6, HandledIs
<1>8. /\ mail' \in Boxes /\ mail'.asks = mail.asks /\ mail'.out = mail.out
      /\ mail'.in[d] = s /\ \A e \in Drivers \ {d} : mail'.in[e] = mail.in[e]
  BY <1>1, <1>2, <1>3, WithInIs
<1>9. /\ posted' \in Boxes /\ posted'.asks = posted.asks /\ posted'.in = posted.in
      /\ \A e \in Drivers \ {d} : posted'.out[e] = posted.out[e]
  BY <1>1, <1>2, <1>4, WithOutIs
<1>10. Typed' BY <1>1, <1>7, <1>8, <1>9 DEF Typed, Keeps
<1>11. \E sure1 \in BOOLEAN :
         /\ drv[d].place # "deleted" => sure1 = drv[d].sure
         /\ ctl' = HandleMessage(ctl, d, m, sure1)
  BY <1>5, <1>6
<1>12. QED BY <1>1, <1>3, <1>7, <1>8, <1>9, <1>10, <1>11 DEF m, s, t

\* When SHIFT_END is handled, what has a higher priority was handled before.
LEMMA LastTaken ==
  ASSUME NEW s, NEW i \in NextOf(s), s[i] = "SHIFT_END"
  PROVE  ~Has(s, "AVAILABLE")
<1> SUFFICES ASSUME NEW j \in DOMAIN s, s[j] = "AVAILABLE" PROVE FALSE BY DEF Has
<1>1. Priority(s[j]) = 8 /\ Priority(s[i]) = 5 BY DEF Priority
<1>2. Priority(s[j]) <= Priority(s[i]) BY DEF NextOf
<1>3. QED BY <1>1, <1>2

\* What the answer to SHIFT_END adds to what is posted.
LEMMA AnswerIs ==
  ASSUME NEW s \in Seq(Answers), NEW c, NEW d
  PROVE  LET t == s \o ShiftEndAnswer(c, d) IN
         /\ Offered(t) = Offered(s) /\ (Single(s) => Single(t))
         /\ ~(d \in DOMAIN c.copy /\ c.copy[d] = <<>>) => (LetGo(t) <=> LetGo(s))
<1> DEFINE t == s \o ShiftEndAnswer(c, d)
<1>1. CASE d \notin DOMAIN c.copy
  <2>1. ShiftEndAnswer(c, d) = <<>> BY <1>1 DEF ShiftEndAnswer
  <2>2. s \o <<>> = s BY ConcatEmptySeq
  <2>3. t = s BY <2>1, <2>2
  <2> HIDE DEF t
  <2>4. QED BY <1>1, <2>3 DEF t
<1>2. ASSUME NEW m \in Answers, m.kind # "SCHEDULE_PROPOSITION", t = Append(s, m),
             ~(d \in DOMAIN c.copy /\ c.copy[d] = <<>>) => m.kind # "UNSUBSCRIBE_SUCCESSFUL"
      PROVE  /\ Offered(t) = Offered(s) /\ (Single(s) => Single(t))
             /\ ~(d \in DOMAIN c.copy /\ c.copy[d] = <<>>) => (LetGo(t) <=> LetGo(s))
  <2> HIDE DEF t
  <2>1. QED BY <1>2, OutAppend
<1>3. CASE d \in DOMAIN c.copy /\ c.copy[d] = <<>>
  <2> DEFINE m == [kind |-> "UNSUBSCRIBE_SUCCESSFUL"]
  <2>1. m \in Answers /\ m.kind = "UNSUBSCRIBE_SUCCESSFUL" BY DEF Answers
  <2>2. ShiftEndAnswer(c, d) = <<m>> BY <1>3 DEF ShiftEndAnswer
  <2> HIDE DEF m
  <2>3. t = Append(s, m) BY <2>1, <2>2, OneMore
  <2> HIDE DEF t
  <2>4. QED BY <1>2, <1>3, <2>1, <2>3 DEF t
<1>4. CASE d \in DOMAIN c.copy /\ c.copy[d] # <<>>
  <2> DEFINE m == [kind |-> "DELAY_SHIFT_END"]
  <2>1. m \in Answers /\ m.kind = "DELAY_SHIFT_END" BY DEF Answers
  <2>2. ShiftEndAnswer(c, d) = <<m>> BY <1>4 DEF ShiftEndAnswer
  <2> HIDE DEF m
  <2>3. t = Append(s, m) BY <2>1, <2>2, OneMore
  <2> HIDE DEF t
  <2>4. QED BY <1>2, <1>4, <2>1, <2>3 DEF t
<1>5. QED BY <1>1, <1>3, <1>4

\* The controller handles a message of a driver.
LEMMA HandleStep ==
  ASSUME Typed, DriversGood, NEW d \in Drivers, NEW i \in DOMAIN mail.in[d], Handle(d, i)
  PROVE  Typed' /\ DriversGood'
<1> DEFINE p == setting.parks
           v == View(d)
           w == ViewOf(drv'[d], mail', posted', ctl', updated', d)
           x == drv[d]
           s == mail.in[d]
           m == s[i]
<1>1. /\ x \in DriverRecord /\ v \in Views
      /\ Good(p, v) /\ v.x = x /\ v.in = mail.in[d] /\ v.new = posted.in[d]
      /\ v.out = mail.out[d] /\ v.sent = posted.out[d]
      /\ v.known = (d \in DOMAIN ctl.copy) /\ v.free = (d \in ctl.available)
      /\ v.subscribed = (d \in ctl.subscribed) /\ v.updated = (d \in updated)
      /\ v.copy = IF d \in DOMAIN ctl.copy THEN ctl.copy[d] ELSE <<>>
  BY GoodView
<1>2. /\ w.x = drv'[d] /\ w.in = mail'.in[d] /\ w.new = posted'.in[d]
      /\ w.out = mail'.out[d] /\ w.sent = posted'.out[d]
      /\ w.known = (d \in DOMAIN ctl'.copy) /\ w.free = (d \in ctl'.available)
      /\ w.subscribed = (d \in ctl'.subscribed) /\ w.updated = (d \in updated')
      /\ w.copy = IF d \in DOMAIN ctl'.copy THEN ctl'.copy[d] ELSE <<>>
  BY ViewFields
<1>3. /\ Typed' /\ m \in DriverMessages /\ i \in NextOf(mail.in[d]) /\ Keeps(ctl, d, ctl')
      /\ posted' = IF m = "SHIFT_END"
                   THEN WithOut(posted, d, posted.out[d] \o ShiftEndAnswer(ctl, d)) ELSE posted
      /\ posted'.in = posted.in /\ \A e \in Drivers \ {d} : posted'.out[e] = posted.out[e]
      /\ mail'.in[d] = Rest(mail.in[d], i) /\ mail'.out = mail.out
      /\ \A e \in Drivers \ {d} : mail'.in[e] = mail.in[e]
      /\ setting' = setting /\ updated' = updated /\ drv' = drv
  BY Handling
<1>4. PICK sure \in BOOLEAN : /\ x.place # "deleted" => sure = x.sure
                              /\ ctl' = HandleMessage(ctl, d, m, sure)
  BY Handling
<1>5. /\ s \in Seq(DriverMessages) /\ posted.out[d] \in Seq(Answers)
      /\ Books(ctl) /\ posted \in Boxes
  BY DEF Typed, Boxes
<1>6. w \in Views
  <2>1. mail' \in Boxes /\ posted' \in Boxes /\ Books(ctl') BY <1>3 DEF Typed
  <2>2. drv'[d] \in DriverRecord BY <1>3 DEF Typed
  <2>3. QED BY <2>1, <2>2, ViewTyped
<1> DEFINE b == HandleMessage(ctl, d, m, sure)
<1>7. /\ m = "SUBSCRIBE" /\ ~sure =>
           /\ d \in DOMAIN b.copy /\ d \in b.available /\ d \in b.subscribed
           /\ d \notin DOMAIN ctl.copy => b.copy[d] = <<>>
      /\ m = "AVAILABLE" /\ ~sure =>
           /\ d \in DOMAIN b.copy /\ d \in b.available
           /\ (d \in b.subscribed <=> d \in ctl.subscribed)
           /\ b.copy[d] = <<>>
      /\ m = "STATUS" /\ ~sure =>
           /\ d \in DOMAIN b.copy <=> d \in DOMAIN ctl.copy
           /\ d \in b.subscribed <=> d \in ctl.subscribed
           /\ d \in b.available <=> d \in ctl.available
           /\ d \in DOMAIN ctl.copy =>
                b.copy[d] = IF ctl.copy[d] # <<>> THEN Tail(ctl.copy[d]) ELSE ctl.copy[d]
      /\ m \in {"SUBSCRIBE", "STATUS", "AVAILABLE"} /\ sure => b = ctl
      /\ m = "SHIFT_END" =>
           /\ d \in DOMAIN ctl.copy /\ ctl.copy[d] = <<>> => Unknown(b, d)
           /\ d \notin DOMAIN ctl.copy \/ ctl.copy[d] # <<>> =>
                /\ d \in DOMAIN b.copy <=> d \in DOMAIN ctl.copy
                /\ d \in DOMAIN ctl.copy => b.copy[d] = ctl.copy[d]
                /\ d \in b.subscribed <=> d \in ctl.subscribed
                /\ d \in b.available <=> d \in ctl.available
  BY <1>3, <1>5, HandledIs
<1>8. ctl' = b BY <1>4
<1> HIDE DEF b
<1>9. Taken(m, v, w)
  <2>1. Loaded(p, v) BY <1>1 DEF Good
  <2>2. x.place # "unloaded"
    <3>1. mail.in[d] # <<>> BY <1>5
    <3>2. QED BY <1>1, <2>1, <3>1 DEF Loaded
  <2>3. /\ \A n : Has(Rest(s, i), n) => Has(s, n)
        /\ \A n : Has(s, n) /\ s[i] # n => Has(Rest(s, i), n)
        /\ \A n : Once(s, n) => Once(Rest(s, i), n)
        /\ \A n : Once(s, n) /\ s[i] = n => ~Has(Rest(s, i), n)
    BY <1>5, RestHas
  <2>4. Has(s, m) BY DEF Has
  <2>5. v.in = s /\ w.in = Rest(s, i) BY <1>1, <1>2, <1>3
  <2>6. w.x = v.x /\ w.new = v.new /\ w.out = v.out /\ w.updated = v.updated /\ v.x = x
    BY <1>1, <1>2, <1>3
  <2> HIDE DEF m, s, x, v, w
  <2>7. QED BY <2>2, <2>3, <2>4, <2>5, <2>6 DEF Taken, m
<1>10. Loaded(p, v) /\ OneJob(v) /\ Ending(v) BY <1>1 DEF Good
<1> HIDE DEF v, w, m, p
<1>11. Good(p, w)
  <2>1. ASSUME w.known = v.known, w.copy = v.copy, w.subscribed = v.subscribed, w.free => v.free,
               Offered(w.sent) = Offered(v.sent), Single(v.sent) => Single(w.sent),
               LetGo(w.sent) => LetGo(v.sent),
               m # "STATUS" \/ x.place = "deleted" \/ ~v.known
        PROVE  Good(p, w)
    <3>1. /\ v.x.place # "unloaded" /\ w.x = v.x
          /\ \A n : (Has(w.in, n) => Has(v.in, n)) /\ (Once(v.in, n) => Once(w.in, n))
                    /\ (n # m /\ Has(v.in, n) => Has(w.in, n))
          /\ w.new = v.new /\ w.out = v.out /\ w.updated = v.updated
      BY <1>9 DEF Taken
    <3>2. /\ w.x.sent = <<>> /\ (w.updated => w.out = <<>>) /\ (~w.updated => w.new = <<>>)
      BY <1>10, <3>1 DEF Loaded
    <3>3. Gone(w) => Gone(v) BY <2>1, <3>1 DEF Gone
    <3>4. Has(v.in, "STATUS") /\ w.known /\ w.x.place # "deleted" => Has(w.in, "STATUS")
      BY <1>1, <2>1, <3>1
    <3>5. Less(v, w) BY <2>1, <3>1, <3>2, <3>3, <3>4 DEF Less
    <3>6. QED BY <1>1, <1>6, <3>5, LessGood
  <2>2. ASSUME d \in DOMAIN b.copy <=> d \in DOMAIN ctl.copy,
               d \in DOMAIN ctl.copy => b.copy[d] = ctl.copy[d],
               d \in b.subscribed <=> d \in ctl.subscribed
        PROVE  w.known = v.known /\ w.copy = v.copy /\ w.subscribed = v.subscribed
    BY <1>1, <1>2, <1>8, <2>2
  <2>3. m # "SHIFT_END" => w.sent = v.sent
    BY <1>1, <1>2, <1>3
  <2>4. ASSUME sure, m \in {"SUBSCRIBE", "STATUS", "AVAILABLE"} PROVE Good(p, w)
    <3>1. b = ctl BY <1>7, <2>4
    <3>2. w.known = v.known /\ w.copy = v.copy /\ w.subscribed = v.subscribed
      BY <2>2, <3>1
    <3>3. w.free => v.free BY <1>1, <1>2, <1>8, <3>1
    <3>4. ASSUME x.place # "deleted" PROVE ~v.known
      <4>1. x.sure BY ONLY <1>4, <2>4, <3>4
      <4>2. v.x.sure /\ v.x.place # "deleted" BY ONLY <1>1, <3>4, <4>1
      <4>3. QED BY <1>10, <4>2 DEF Loaded
    <3>5. w.sent = v.sent BY <2>3, <2>4
    <3>6. QED BY <2>1, <3>2, <3>3, <3>4, <3>5
  <2>5. ASSUME ~sure, m = "SUBSCRIBE" \/ m = "AVAILABLE" PROVE Good(p, w)
    <3>1. v.x.sure => v.x.place = "deleted" BY <1>1, <1>4, <2>5
    <3>2. w.known /\ w.free BY <1>2, <1>7, <1>8, <2>5
    <3>3. m = "SUBSCRIBE" => ~v.known
      <4>1. Has(v.in, m) BY <1>9 DEF Taken
      <4>2. QED BY <1>10, <4>1 DEF OneJob
    <3>4. w.copy = <<>> BY <1>1, <1>2, <1>7, <1>8, <2>5, <3>2, <3>3
    <3>5. m = "SUBSCRIBE" => w.subscribed BY <1>2, <1>7, <1>8, <2>5
    <3>6. m = "AVAILABLE" => w.subscribed = v.subscribed BY <1>1, <1>2, <1>7, <1>8, <2>5
    <3>7. w.sent = v.sent BY <2>3, <2>5
    <3>8. FreeAgain(v, w)
      BY <1>9, <2>5, <3>1, <3>2, <3>4, <3>5, <3>6, <3>7 DEF FreeAgain
    <3>9. QED BY <1>1, <1>6, <3>8, FreeAgainGood
  <2>6. ASSUME ~sure, m = "STATUS" PROVE Good(p, w)
    <3>1. w.known = v.known /\ w.free = v.free /\ w.subscribed = v.subscribed
      BY <1>1, <1>2, <1>7, <1>8, <2>6
    <3>2. w.copy = IF v.copy # <<>> THEN Tail(v.copy) ELSE v.copy
      BY <1>1, <1>2, <1>7, <1>8, <2>6
    <3>3. w.sent = v.sent BY <2>3, <2>6
    <3>4. StatusTaken(v, w) BY <1>9, <2>6, <3>1, <3>2, <3>3 DEF StatusTaken
    <3>5. QED BY <1>1, <1>6, <3>4, StatusGood
  <2>7. ASSUME m = "SHIFT_END" PROVE Good(p, w)
    <3> DEFINE t == posted.out[d] \o ShiftEndAnswer(ctl, d)
    <3>1. /\ Offered(t) = Offered(posted.out[d]) /\ (Single(posted.out[d]) => Single(t))
          /\ ~(d \in DOMAIN ctl.copy /\ ctl.copy[d] = <<>>) => (LetGo(t) <=> LetGo(posted.out[d]))
      BY <1>5, AnswerIs
    <3>2. t \in Seq(Answers)
      <4>1. /\ [kind |-> "UNSUBSCRIBE_SUCCESSFUL"] \in Answers
            /\ [kind |-> "DELAY_SHIFT_END"] \in Answers
        BY DEF Answers
      <4>2. ShiftEndAnswer(ctl, d) \in Seq(Answers) BY <4>1 DEF ShiftEndAnswer
      <4>3. QED BY ONLY <1>5, <4>2, ConcatProperties
    <3>3. posted' = WithOut(posted, d, t) BY <1>3, <2>7
    <3> HIDE DEF t
    <3>4. posted'.out[d] = t BY <1>5, <3>2, <3>3, WithOutIs
    <3>5. w.sent = t /\ v.sent = posted.out[d] BY <1>1, <1>2, <3>4
    <3>6. CASE d \in DOMAIN ctl.copy /\ ctl.copy[d] = <<>>
      <4>1. Unknown(b, d) BY <1>7, <2>7, <3>6
      <4>2. ~w.known /\ ~w.free /\ ~w.subscribed /\ w.copy = <<>>
        BY <1>2, <1>8, <4>1 DEF Unknown
      <4>3. v.known /\ v.copy = <<>> BY <1>1, <3>6
      <4>4. LetGone(v, w)
        <5>1. Taken("SHIFT_END", v, w) BY <1>9, <2>7
        <5>2. ~Has(v.in, "AVAILABLE") BY <1>1, <1>3, <2>7, LastTaken DEF m, s
        <5>3. Offered(w.sent) = Offered(v.sent) /\ (Single(v.sent) => Single(w.sent))
          BY <3>1, <3>5
        <5>4. QED BY <4>2, <4>3, <5>1, <5>2, <5>3 DEF LetGone
      <4>5. QED BY <1>1, <1>6, <4>4, LetGoneGood
    <3>7. CASE ~(d \in DOMAIN ctl.copy /\ ctl.copy[d] = <<>>)
      <4>1. w.known = v.known /\ w.copy = v.copy /\ w.subscribed = v.subscribed
        BY <1>7, <2>2, <2>7, <3>7
      <4>2. w.free => v.free BY <1>1, <1>2, <1>7, <1>8, <2>7, <3>7
      <4>3. Offered(w.sent) = Offered(v.sent) /\ (Single(v.sent) => Single(w.sent))
            /\ (LetGo(w.sent) => LetGo(v.sent))
        BY <3>1, <3>5, <3>7
      <4>4. QED BY <2>1, <2>7, <4>1, <4>2, <4>3
    <3>8. QED BY <3>6, <3>7
  <2>8. m \in {"SUBSCRIBE", "STATUS", "AVAILABLE", "SHIFT_END"}
    BY <1>3 DEF DriverMessages
  <2>9. QED BY <2>4, <2>5, <2>6, <2>7, <2>8
<1>12. DriversGood' BY <1>3, <1>11, OneDriver DEF w, p
<1>13. QED BY <1>3, <1>12

-----------------------------------------------------------------------------
(* The steps about no driver. *)

\* A step after which the controller and the drivers know of each other what they did.
LEMMA NoDriver ==
  ASSUME setting' = setting, DriversGood, drv' = drv,
         \A d \in Drivers :
           /\ d \in updated' <=> d \in updated
           /\ mail'.in[d] = mail.in[d] /\ mail'.out[d] = mail.out[d]
           /\ posted'.in[d] = posted.in[d] /\ posted'.out[d] = posted.out[d]
           /\ d \in DOMAIN ctl'.copy <=> d \in DOMAIN ctl.copy
           /\ d \in DOMAIN ctl.copy => ctl'.copy[d] = ctl.copy[d]
           /\ d \in ctl'.available <=> d \in ctl.available
           /\ d \in ctl'.subscribed <=> d \in ctl.subscribed
  PROVE  DriversGood'
<1>1. ASSUME NEW d \in Drivers
      PROVE  Good(setting.parks, ViewOf(drv'[d], mail', posted', ctl', updated', d))
  <2>1. ViewOf(drv[d], mail', posted', ctl', updated', d)
          = ViewOf(drv[d], mail, posted, ctl, updated, d)
    BY SameView
  <2>2. QED BY <2>1 DEF DriversGood, View
<1>2. QED BY <1>1 DEF DriversGood, View

\* A traveller asks for a trip.
LEMMA AskStep ==
  ASSUME Typed, DriversGood, NEW r \in Requests, Ask(r)
  PROVE  /\ Typed' /\ DriversGood'
         /\ mail' = mail /\ ctl' = ctl /\ drv' = drv /\ served' = served /\ lost' = lost
         /\ posted'.asks = posted.asks \cup {r} /\ posted'.out = posted.out /\ updated' = updated
<1>1. /\ mail' = mail /\ ctl' = ctl /\ drv' = drv /\ served' = served /\ lost' = lost
      /\ setting' = setting /\ now' = now /\ updated' = updated /\ asked' = asked \cup {r}
      /\ posted' = [posted EXCEPT !.asks = @ \cup {r}]
  BY DEF Ask
<1>2. posted \in Boxes BY DEF Typed
<1>3. /\ posted' \in Boxes /\ posted'.asks = posted.asks \cup {r} /\ posted'.in = posted.in
      /\ posted'.out = posted.out
  BY <1>1, <1>2 DEF Boxes
<1>4. Typed' BY <1>1, <1>3 DEF Typed
<1>5. DriversGood' BY <1>1, <1>3, NoDriver
<1>6. QED BY <1>1, <1>3, <1>4, <1>5

\* The controller queues a request.
LEMMA HandleRequestStep ==
  ASSUME Typed, DriversGood, NEW r \in Requests, HandleRequest(r)
  PROVE  /\ Typed' /\ DriversGood'
         /\ mail'.asks = mail.asks \ {r} /\ mail'.in = mail.in /\ mail'.out = mail.out
         /\ ctl'.queue = Append(ctl.queue, r) /\ posted' = posted /\ drv' = drv
         /\ served' = served /\ lost' = lost /\ updated' = updated
<1>1. /\ posted' = posted /\ drv' = drv /\ served' = served /\ lost' = lost
      /\ setting' = setting /\ now' = now /\ updated' = updated /\ asked' = asked
      /\ mail' = [mail EXCEPT !.asks = @ \ {r}]
      /\ ctl' = [ctl EXCEPT !.queue = Append(@, r)]
  BY DEF HandleRequest
<1>2. mail \in Boxes /\ Books(ctl) BY DEF Typed
<1>3. /\ mail' \in Boxes /\ mail'.asks = mail.asks \ {r} /\ mail'.in = mail.in
      /\ mail'.out = mail.out
  BY <1>1, <1>2 DEF Boxes
<1>4. /\ DOMAIN ctl' = DOMAIN ctl /\ ctl'.queue = Append(ctl.queue, r)
      /\ ctl'.localTick = ctl.localTick /\ ctl'.copy = ctl.copy
      /\ ctl'.available = ctl.available /\ ctl'.subscribed = ctl.subscribed
  BY <1>1, <1>2 DEF Books
<1>5. Append(ctl.queue, r) \in Seq(Requests)
  <2>1. ctl.queue \in Seq(Requests) BY <1>2 DEF Books
  <2>2. QED BY ONLY <2>1, AppendProperties, r \in Requests
<1>6. Books(ctl') BY <1>2, <1>4, <1>5 DEF Books
<1>7. Typed' BY <1>1, <1>3, <1>6 DEF Typed
<1>8. DriversGood' BY <1>1, <1>3, <1>4, NoDriver
<1>9. QED BY <1>1, <1>3, <1>4, <1>7, <1>8

\* The end of a tick.
LEMMA NextTickStep ==
  ASSUME Typed, DriversGood, InOrderOfUpdate, NextTick
  PROVE  /\ Typed' /\ DriversGood'
         /\ mail' = posted /\ posted' = NoMail /\ ctl' = ctl /\ drv' = drv /\ updated' = {}
         /\ served' = served /\ lost' = lost /\ asked' = asked /\ setting' = setting
         /\ mail.asks = {} /\ \A d \in Drivers : mail.out[d] = <<>>
<1>1. /\ mail' = posted /\ posted' = NoMail /\ ctl' = ctl /\ drv' = drv /\ updated' = {}
      /\ served' = served /\ lost' = lost /\ asked' = asked /\ setting' = setting
      /\ \A d \in Drivers : mail.out[d] = <<>>
      /\ now < EndTick /\ now' = now + 1
  BY DEF NextTick
<1>2. mail.asks = {} /\ \A d \in Drivers : mail.in[d] = <<>> BY DEF NextTick, InOrderOfUpdate
<1>3. now' \in 0 .. EndTick BY <1>1, ServiceAssumption DEF Typed
<1>4. posted' \in Boxes BY <1>1, NoMailIs
<1>5. Typed' BY <1>1, <1>3, <1>4 DEF Typed
<1>6. ASSUME NEW d \in Drivers
      PROVE  Good(setting.parks, ViewOf(drv'[d], mail', posted', ctl', updated', d))
  <2> DEFINE v == View(d)
             w == ViewOf(drv'[d], mail', posted', ctl', updated', d)
  <2>1. /\ v \in Views
        /\ Good(setting.parks, v)
        /\ v.x = drv[d] /\ v.in = mail.in[d] /\ v.new = posted.in[d]
        /\ v.out = mail.out[d] /\ v.sent = posted.out[d]
        /\ v.known = (d \in DOMAIN ctl.copy) /\ v.free = (d \in ctl.available)
        /\ v.subscribed = (d \in ctl.subscribed)
        /\ v.copy = IF d \in DOMAIN ctl.copy THEN ctl.copy[d] ELSE <<>>
    BY GoodView
  <2>2. /\ w.x = drv'[d] /\ w.in = mail'.in[d] /\ w.new = posted'.in[d]
        /\ w.out = mail'.out[d] /\ w.sent = posted'.out[d]
        /\ w.known = (d \in DOMAIN ctl'.copy) /\ w.free = (d \in ctl'.available)
        /\ w.subscribed = (d \in ctl'.subscribed) /\ w.updated = (d \in updated')
        /\ w.copy = IF d \in DOMAIN ctl'.copy THEN ctl'.copy[d] ELSE <<>>
    BY ViewFields
  <2>3. w \in Views
    <3>1. drv'[d] \in DriverRecord /\ mail' \in Boxes /\ posted' \in Boxes /\ Books(ctl')
      BY <1>5 DEF Typed
    <3>2. QED BY <3>1, ViewTyped
  <2> HIDE DEF v, w
  <2>4. posted'.in[d] = <<>> /\ posted'.out[d] = <<>> BY <1>1, NoMailIs
  <2>5. Ticks(v, w) BY <1>1, <1>2, <2>1, <2>2, <2>4 DEF Ticks
  <2>6. Good(setting.parks, w) BY <2>1, <2>3, <2>5, TicksGood
  <2>7. QED BY <2>6 DEF w
<1>7. DriversGood' BY <1>1, <1>6 DEF DriversGood, View
<1>8. QED BY <1>1, <1>2, <1>5, <1>7

-----------------------------------------------------------------------------
(* The schedules that the controller computes, one request after the other. *)

Start == [queue |-> <<>>, available |-> ctl.available, copy |-> ctl.copy, sent |-> posted.out]

Round(S, r) == UNION {Assignments(a, r) : a \in S}

Rounds(n, f) == f = [i \in 0 .. n |-> IF i = 0 THEN {Start} ELSE Round(f[i - 1], ctl.queue[i])]

\* The sets of schedules computed for the first requests, up to the m-th, exist.
LEMMA RoundsExist == ASSUME NEW m \in Nat PROVE \E f : Rounds(m, f)
<1> DEFINE T == {n \in Nat : \E f : Rounds(n, f)}
<1>1. 0 \in T
  <2>1. Rounds(0, [i \in {0} |-> {Start}]) BY DEF Rounds
  <2>2. QED BY <2>1
<1>2. ASSUME NEW n \in Nat, n \in T PROVE n + 1 \in T
  <2>1. PICK f : Rounds(n, f) BY <1>2
  <2> DEFINE g == [i \in 0 .. n + 1 |->
                     IF i \in 0 .. n THEN f[i] ELSE Round(f[i - 1], ctl.queue[i])]
  <2>2. ASSUME NEW i \in 0 .. n + 1
        PROVE  g[i] = IF i = 0 THEN {Start} ELSE Round(g[i - 1], ctl.queue[i])
    <3>1. CASE i = 0 BY <2>1, <3>1 DEF Rounds
    <3>2. CASE i \in 1 .. n
      <4>1. g[i] = f[i] /\ g[i - 1] = f[i - 1] BY <3>2
      <4>2. i \in 0 .. n BY <3>2
      <4>3. f[i] = IF i = 0 THEN {Start} ELSE Round(f[i - 1], ctl.queue[i])
        BY ONLY <2>1, <4>2 DEF Rounds
      <4>4. QED BY <4>1, <4>3
    <3>3. CASE i = n + 1
      <4>1. g[i - 1] = f[i - 1] BY <3>3
      <4>2. QED BY <3>3, <4>1
    <3>4. QED BY <3>1, <3>2, <3>3
  <2>3. Rounds(n + 1, g) BY <2>2 DEF Rounds
  <2>4. QED BY <2>3
<1>3. Nat \subseteq T
  <2> HIDE DEF T
  <2>1. QED BY <1>1, <1>2, Induction
<1>4. QED BY <1>3

\* computeSchedules is the last of them.
LEMMA SchedulesAre ==
  ASSUME ctl.queue \in Seq(Requests)
  PROVE  \E f : Rounds(Len(ctl.queue), f) /\ computeSchedules = f[Len(ctl.queue)]
<1> DEFINE F(f) == [n \in 0 .. Len(ctl.queue) |->
                     IF n = 0 THEN {Start}
                     ELSE UNION {Assignments(a, ctl.queue[n]) : a \in f[n - 1]}]
           g == CHOOSE f : f = F(f)
<1>1. \E f : f = F(f)
  <2>1. Len(ctl.queue) \in Nat BY LenProperties
  <2>2. PICK f : Rounds(Len(ctl.queue), f) BY <2>1, RoundsExist
  <2>3. f = F(f) BY ONLY <2>2 DEF Rounds, Round
  <2>4. QED BY <2>3
<1>2. g = F(g) BY <1>1
<1>3. computeSchedules = g[Len(ctl.queue)] BY DEF computeSchedules, Start
<1>4. QED BY <1>2, <1>3 DEF Rounds, Round

-----------------------------------------------------------------------------
(* What they do to a driver: nothing, or one trip is assigned to it. *)

Passed(a, d) ==
  /\ d \in a.available <=> d \in ctl.available
  /\ d \in DOMAIN ctl.copy => a.copy[d] = ctl.copy[d]
  /\ a.sent[d] = posted.out[d]

Chosen(a, d, r) ==
  /\ d \in ctl.available /\ d \notin a.available
  /\ a.copy[d] = Tail(Legs(setting.parks, r))
  /\ a.sent[d] = Append(posted.out[d], Proposition(r))

Computed(a) ==
  /\ DOMAIN a = {"queue", "available", "copy", "sent"}
  /\ a.queue \in Seq(Requests) /\ a.available \subseteq ctl.available
  /\ DOMAIN a.copy = DOMAIN ctl.copy /\ IsMap(a.copy)
  /\ DOMAIN a.sent = Drivers /\ IsMap(a.sent)
  /\ \A d \in Drivers : Passed(a, d) \/ \E r \in Requests : Chosen(a, d, r)

\* Nothing is computed yet.
LEMMA StartComputed == ASSUME Typed PROVE Computed(Start)
<1>1. Books(ctl) /\ posted \in Boxes BY DEF Typed
<1>2. IsMap(ctl.copy) BY <1>1 DEF Books
<1>3. DOMAIN posted.out = Drivers /\ IsMap(posted.out) BY <1>1 DEF Boxes, IsMap
<1>4. <<>> \in Seq(Requests) OBVIOUS
<1>5. QED BY <1>2, <1>3, <1>4 DEF Start, Computed, Passed

\* The copy of what is computed, with the schedule of one driver.
LEMMA AssignedCopyIs ==
  ASSUME NEW a, Computed(a), NEW d \in DOMAIN a.copy, NEW s
  PROVE  LET k == WithCopy(a, d, s) IN
         /\ DOMAIN k = DOMAIN a.copy /\ IsMap(k) /\ k[d] = s
         /\ \A e \in DOMAIN a.copy \ {d} : k[e] = a.copy[e]
BY DEF WithCopy, IsMap

\* What the assignment of a request changes.
LEMMA AssignIs ==
  ASSUME Typed, NEW a, Computed(a), NEW d \in a.available, NEW r \in Requests
  PROVE  LET b == assignSchedule(a, d, r) IN
         /\ d \in Drivers
         /\ DOMAIN b = DOMAIN a /\ b.queue = a.queue /\ b.available = a.available \ {d}
         /\ b.copy = WithCopy(a, d, Tail(Legs(setting.parks, r)))
         /\ DOMAIN b.sent = Drivers /\ IsMap(b.sent)
         /\ b.sent[d] = Append(a.sent[d], Proposition(r))
         /\ \A e \in Drivers \ {d} : b.sent[e] = a.sent[e]
<1> DEFINE k == WithCopy(a, d, Tail(Trip(r)))
           t == [a.sent EXCEPT ![d] = Append(@, Proposition(r))]
           b == assignSchedule(a, d, r)
<1>1. b = [a EXCEPT !.available = @ \ {d}, !.copy = k, !.sent = t]
  BY DEF assignSchedule, Proposition
<1>2. k = WithCopy(a, d, Tail(Legs(setting.parks, r))) BY TripIsLegs
<1>3. d \in Drivers BY DEF Computed, Typed, Books
<1>4. /\ DOMAIN t = Drivers /\ IsMap(t) /\ t[d] = Append(a.sent[d], Proposition(r))
      /\ \A e \in Drivers \ {d} : t[e] = a.sent[e]
  BY <1>3 DEF Computed, IsMap
<1> HIDE DEF k, t
<1>5. DOMAIN b = DOMAIN a /\ b.queue = a.queue /\ b.available = a.available \ {d}
      /\ b.copy = k /\ b.sent = t
  BY <1>1 DEF Computed
<1> HIDE DEF b
<1>6. QED BY <1>2, <1>3, <1>4, <1>5 DEF b

\* A request for which nobody is available stays in the queue.
LEMMA RequeueIs ==
  ASSUME NEW a, Computed(a), NEW r \in Requests
  PROVE  LET b == [a EXCEPT !.queue = Append(@, r)] IN
         /\ DOMAIN b = DOMAIN a /\ b.queue = Append(a.queue, r) /\ b.queue \in Seq(Requests)
         /\ b.available = a.available /\ b.copy = a.copy /\ b.sent = a.sent
<1>1. a.queue \in Seq(Requests) BY DEF Computed
<1>2. Append(a.queue, r) \in Seq(Requests) BY ONLY <1>1, AppendProperties, r \in Requests
<1>3. QED BY <1>2 DEF Computed

\* One more request: it goes to a driver that was passed so far, or back to the queue.
LEMMA RoundComputed ==
  ASSUME Typed, NEW a, Computed(a), NEW r \in Requests, NEW b \in Assignments(a, r)
  PROVE  /\ Computed(b)
         /\ \/ b.queue = Append(a.queue, r) /\ b.sent = a.sent
            \/ \E d \in ctl.available \cap Drivers :
                 /\ b.queue = a.queue /\ Passed(a, d)
                 /\ b.sent[d] = Append(posted.out[d], Proposition(r))
                 /\ \A e \in Drivers \ {d} : b.sent[e] = a.sent[e]
<1>1. CASE b = [a EXCEPT !.queue = Append(@, r)]
  <2>1. /\ DOMAIN b = DOMAIN a /\ b.queue = Append(a.queue, r) /\ b.queue \in Seq(Requests)
        /\ b.available = a.available /\ b.copy = a.copy /\ b.sent = a.sent
    BY <1>1, RequeueIs
  <2>2. QED BY <2>1 DEF Computed, Passed, Chosen
<1>2. ASSUME NEW d \in a.available, b = assignSchedule(a, d, r)
      PROVE  /\ Computed(b)
             /\ d \in ctl.available \cap Drivers
             /\ b.queue = a.queue /\ Passed(a, d)
             /\ b.sent[d] = Append(posted.out[d], Proposition(r))
             /\ \A e \in Drivers \ {d} : b.sent[e] = a.sent[e]
  <2> DEFINE s == Tail(Legs(setting.parks, r))
  <2>1. /\ d \in Drivers
        /\ DOMAIN b = DOMAIN a /\ b.queue = a.queue /\ b.available = a.available \ {d}
        /\ b.copy = WithCopy(a, d, s)
        /\ DOMAIN b.sent = Drivers /\ IsMap(b.sent)
        /\ b.sent[d] = Append(a.sent[d], Proposition(r))
        /\ \A e \in Drivers \ {d} : b.sent[e] = a.sent[e]
    BY <1>2, AssignIs
  <2>2. d \in ctl.available BY DEF Computed
  <2>3. Passed(a, d) BY <2>1 DEF Computed, Chosen
  <2>4. d \in DOMAIN a.copy BY <2>2 DEF Computed, Typed, Books
  <2>5. /\ DOMAIN b.copy = DOMAIN a.copy /\ IsMap(b.copy) /\ b.copy[d] = s
        /\ \A e \in DOMAIN a.copy \ {d} : b.copy[e] = a.copy[e]
    <3> HIDE DEF s
    <3>1. QED BY <2>1, <2>4, AssignedCopyIs
  <2>6. b.sent[d] = Append(posted.out[d], Proposition(r)) BY <2>1, <2>3 DEF Passed
  <2>7. Chosen(b, d, r) BY <2>1, <2>2, <2>5, <2>6 DEF Chosen
  <2>8. ASSUME NEW e \in Drivers \ {d}
        PROVE  Passed(b, e) \/ \E q \in Requests : Chosen(b, e, q)
    <3>1. /\ e \in b.available <=> e \in a.available
          /\ e \in DOMAIN ctl.copy => b.copy[e] = a.copy[e]
          /\ b.sent[e] = a.sent[e]
      BY <2>1, <2>5 DEF Computed
    <3>2. CASE Passed(a, e) BY <3>1, <3>2 DEF Passed
    <3>3. ASSUME NEW q \in Requests, Chosen(a, e, q) PROVE Chosen(b, e, q)
      <4>1. e \in DOMAIN ctl.copy BY <3>3 DEF Chosen, Typed, Books
      <4>2. QED BY <3>1, <3>3, <4>1 DEF Chosen
    <3>4. QED BY <3>2, <3>3 DEF Computed
  <2>9. Computed(b)
    <3>1. b.queue \in Seq(Requests) /\ b.available \subseteq ctl.available
          /\ DOMAIN b.copy = DOMAIN ctl.copy
          /\ DOMAIN b = {"queue", "available", "copy", "sent"}
      BY <2>1, <2>5 DEF Computed
    <3>2. QED BY <2>1, <2>5, <2>7, <2>8, <3>1 DEF Computed
  <2>10. QED BY <2>1, <2>2, <2>3, <2>6, <2>9
<1>3. b = [a EXCEPT !.queue = Append(@, r)]
      \/ \E d \in a.available : b = assignSchedule(a, d, r)
  BY DEF Assignments
<1>4. QED BY <1>1, <1>2, <1>3

-----------------------------------------------------------------------------
(* The way of a request. *)

\* A request stays where it is, or goes from one place to another.
Stays(s, t, r) ==
  \/ \A k, i : At(t, r, k, i) <=> At(s, r, k, i)
  \/ \E k, i, l, j :
       /\ At(s, r, k, i) /\ At(t, r, l, j)
       /\ \A m, n : At(t, r, m, n) => (m = l /\ n = j) \/ (At(s, r, m, n) /\ ~(m = k /\ n = i))

\* A request that is alone in its place is so where it goes.
LEMMA StaysAlone ==
  ASSUME NEW s, NEW t, NEW r, Stays(s, t, r)
  PROVE  (Alone(s, r) => Alone(t, r)) /\ (Nowhere(s, r) => Nowhere(t, r))
<1>1. CASE \A k, i : At(t, r, k, i) <=> At(s, r, k, i)
  BY ONLY <1>1 DEF Alone, Nowhere
<1>2. ASSUME NEW k, NEW i, NEW l, NEW j, At(s, r, k, i), At(t, r, l, j),
             \A m, n : At(t, r, m, n) => (m = l /\ n = j) \/ (At(s, r, m, n) /\ ~(m = k /\ n = i))
      PROVE  (Alone(s, r) => Alone(t, r)) /\ ~Nowhere(s, r)
  BY ONLY <1>2 DEF Alone, Nowhere
<1>3. QED BY <1>1, <1>2 DEF Stays

\* When every request stays or goes somewhere, each is still in one place.
LEMMA AllStay ==
  ASSUME NEW s, NEW t, Accounted(s), \A r \in Requests : Stays(s, t, r)
  PROVE  Accounted(t)
BY StaysAlone DEF Accounted

\* What two records of the places agree on.
Agree(s, t, F) ==
  /\ "asks" \in F => t.asks = s.asks
  /\ "posted" \in F => t.posted = s.posted
  /\ "rest" \in F => t.rest = s.rest
  /\ "queue" \in F => t.queue = s.queue
  /\ "offers" \in F => \A d \in Drivers : t.offers[d] = s.offers[d]
  /\ "orders" \in F => \A d \in Drivers : t.orders[d] = s.orders[d]
  /\ "served" \in F => t.served = s.served
  /\ "lost" \in F => t.lost = s.lost

Fields == {"asks", "posted", "rest", "queue", "offers", "orders", "served", "lost"}

\* The places of the kinds on which they agree are the same.
LEMMA AgreeAt ==
  ASSUME NEW s, NEW t, NEW F, Agree(s, t, F), NEW r
  PROVE  /\ \A i : \A k \in F : At(t, r, k, i) <=> At(s, r, k, i)
         /\ \A k, i : At(t, r, k, i) => k \in Fields
         /\ \A k, i : At(s, r, k, i) => k \in Fields
<1>1. \A k, i : At(t, r, k, i) => k \in Fields BY DEF At, Fields
<1>2. \A k, i : At(s, r, k, i) => k \in Fields BY DEF At, Fields
<1>3. ASSUME NEW k \in F, NEW i, k \in Fields PROVE At(t, r, k, i) <=> At(s, r, k, i)
  BY <1>3 DEF At, Fields, Agree
<1>4. QED BY <1>1, <1>2, <1>3

\* A queue with one more request.
LEMMA AppendedIs ==
  ASSUME NEW T, NEW s \in Seq(T), NEW q \in T
  PROVE  LET t == Append(s, q)
             n == Len(s) + 1 IN
         /\ DOMAIN t = DOMAIN s \cup {n} /\ n \notin DOMAIN s
         /\ t[n] = q /\ \A i \in DOMAIN s : t[i] = s[i]
<1>1. /\ Append(s, q) \in Seq(T) /\ Len(Append(s, q)) = Len(s) + 1
      /\ \A i \in 1 .. Len(s) : Append(s, q)[i] = s[i]
      /\ Append(s, q)[Len(s) + 1] = q
  BY ONLY s \in Seq(T), q \in T, AppendProperties
<1>2. DOMAIN s = 1 .. Len(s) /\ DOMAIN Append(s, q) = 1 .. Len(s) + 1 /\ Len(s) \in Nat
  BY <1>1, LenProperties
<1>3. QED BY <1>1, <1>2

\* The controller queues a request.
LEMMA Queueing ==
  ASSUME NEW s, NEW t, Agree(s, t, Fields \ {"asks", "queue"}), s.queue \in Seq(Requests),
         NEW q \in Requests, q \in s.asks, t.asks = s.asks \ {q}, t.queue = Append(s.queue, q),
         NEW r \in Requests
  PROVE  Stays(s, t, r)
<1>1. /\ \A i : \A k \in Fields \ {"asks", "queue"} : At(t, r, k, i) <=> At(s, r, k, i)
      /\ \A k, i : At(t, r, k, i) => k \in Fields
      /\ \A k, i : At(s, r, k, i) => k \in Fields
  BY AgreeAt
<1>2. /\ \A i : At(s, r, "asks", i) <=> i = None /\ r \in s.asks
      /\ \A i : At(t, r, "asks", i) <=> i = None /\ r \in t.asks
      /\ \A i : At(s, r, "queue", i) <=> i \in DOMAIN s.queue /\ s.queue[i] = r
      /\ \A i : At(t, r, "queue", i) <=> i \in DOMAIN t.queue /\ t.queue[i] = r
  BY DEF At
<1> DEFINE n == Len(s.queue) + 1
<1>3. /\ DOMAIN t.queue = DOMAIN s.queue \cup {n} /\ n \notin DOMAIN s.queue
      /\ t.queue[n] = q /\ \A i \in DOMAIN s.queue : t.queue[i] = s.queue[i]
  BY AppendedIs
<1> HIDE DEF n
<1>4. CASE r = q
  <2>1. At(s, r, "asks", None) /\ At(t, r, "queue", n) BY <1>2, <1>3, <1>4
  <2>2. ASSUME NEW k, NEW i, At(t, r, k, i)
        PROVE  (k = "queue" /\ i = n) \/ (At(s, r, k, i) /\ ~(k = "asks" /\ i = None))
    <3>1. k # "asks" BY <1>2, <1>4, <2>2
    <3>2. CASE k = "queue" BY <1>2, <1>3, <2>2, <3>2
    <3>3. CASE k # "queue" BY <1>1, <2>2, <3>1, <3>3
    <3>4. QED BY <3>2, <3>3
  <2>3. QED BY ONLY <2>1, <2>2 DEF Stays
<1>5. CASE r # q
  <2>1. \A i : At(t, r, "asks", i) <=> At(s, r, "asks", i) BY <1>2, <1>5
  <2>2. \A i : At(t, r, "queue", i) <=> At(s, r, "queue", i) BY <1>2, <1>3, <1>5
  <2>3. \A k, i : At(t, r, k, i) <=> At(s, r, k, i)
    <3>1. ASSUME NEW k, NEW i PROVE At(t, r, k, i) <=> At(s, r, k, i)
      <4>1. CASE k \in Fields \ {"asks", "queue"} BY <1>1, <4>1
      <4>2. CASE k = "asks" BY <2>1, <4>2
      <4>3. CASE k = "queue" BY <2>2, <4>3
      <4>4. CASE k \notin Fields BY <1>1, <4>4
      <4>5. QED BY <4>1, <4>2, <4>3, <4>4
    <3>2. QED BY <3>1
  <2>4. QED BY ONLY <2>3 DEF Stays
<1>6. QED BY <1>4, <1>5

\* The places of each kind.
LEMMA Kinds ==
  ASSUME NEW s, NEW r, NEW i
  PROVE  /\ At(s, r, "asks", i) <=> i = None /\ r \in s.asks
         /\ At(s, r, "posted", i) <=> i = None /\ r \in s.posted
         /\ At(s, r, "rest", i) <=> i \in DOMAIN s.rest /\ s.rest[i] = r
         /\ At(s, r, "queue", i) <=> i \in DOMAIN s.queue /\ s.queue[i] = r
         /\ At(s, r, "offers", i) <=> i \in Drivers /\ r \in s.offers[i]
         /\ At(s, r, "orders", i) <=> i \in Drivers /\ r \in s.orders[i]
         /\ At(s, r, "served", i) <=> i = None /\ r \in s.served
         /\ At(s, r, "lost", i) <=> i = None /\ r \in s.lost
BY DEF At

\* A request whose places of the kinds in G are the same stays.
LEMMA Unmoved ==
  ASSUME NEW s, NEW t, NEW G, Agree(s, t, Fields \ G), NEW r,
         \A i : \A k \in G : At(t, r, k, i) <=> At(s, r, k, i)
  PROVE  Stays(s, t, r)
<1>1. /\ \A i : \A k \in Fields \ G : At(t, r, k, i) <=> At(s, r, k, i)
      /\ \A k, i : At(t, r, k, i) => k \in Fields
      /\ \A k, i : At(s, r, k, i) => k \in Fields
  BY AgreeAt
<1>2. \A k, i : At(t, r, k, i) <=> At(s, r, k, i)
  <2>1. ASSUME NEW k, NEW i PROVE At(t, r, k, i) <=> At(s, r, k, i)
    <3>1. CASE k \in G BY <3>1
    <3>2. CASE k \notin G BY <1>1, <3>2
    <3>3. QED BY <3>1, <3>2
  <2>2. QED BY <2>1
<1>3. QED BY ONLY <1>2 DEF Stays

\* One that goes from a place to another, of the kinds in G.
Goes(s, t, G, r, k, i, l, j) ==
  /\ At(s, r, k, i) /\ At(t, r, l, j)
  /\ \A n : \A m \in G :
       At(t, r, m, n) => (m = l /\ n = j) \/ (At(s, r, m, n) /\ ~(m = k /\ n = i))

\* It has gone from one place to the other.
LEMMA Moving ==
  ASSUME NEW s, NEW t, NEW G, Agree(s, t, Fields \ G), NEW r,
         NEW k \in G, NEW i, NEW l \in G, NEW j,
         Goes(s, t, G, r, k, i, l, j)
  PROVE  Stays(s, t, r)
<1>1. /\ \A n : \A m \in Fields \ G : At(t, r, m, n) <=> At(s, r, m, n)
      /\ \A m, n : At(t, r, m, n) => m \in Fields
  BY AgreeAt
<1>2. ASSUME NEW m, NEW n, At(t, r, m, n)
      PROVE  (m = l /\ n = j) \/ (At(s, r, m, n) /\ ~(m = k /\ n = i))
  <2>1. CASE m \in G BY <1>2, <2>1 DEF Goes
  <2>2. CASE m \notin G BY <1>1, <1>2, <2>2
  <2>3. QED BY <2>1, <2>2
<1>3. At(s, r, k, i) /\ At(t, r, l, j) BY DEF Goes
<1>4. QED BY ONLY <1>2, <1>3 DEF Stays

\* What travellers posted is to be handled from here on.
LEMMA Distributing ==
  ASSUME NEW s, NEW t, Agree(s, t, Fields \ {"asks", "posted"}),
         s.asks = {}, t.asks = s.posted, t.posted = {}, NEW r
  PROVE  Stays(s, t, r)
<1> DEFINE G == {"asks", "posted"}
<1>1. /\ \A i : At(s, r, "asks", i) <=> i = None /\ r \in s.asks
      /\ \A i : At(t, r, "asks", i) <=> i = None /\ r \in t.asks
      /\ \A i : At(s, r, "posted", i) <=> i = None /\ r \in s.posted
      /\ \A i : At(t, r, "posted", i) <=> i = None /\ r \in t.posted
  BY Kinds
<1>2. CASE r \in s.posted
  <2>1. At(s, r, "posted", None) /\ At(t, r, "asks", None) BY <1>1, <1>2
  <2>2. \A n : \A m \in G : At(t, r, m, n) => (m = "asks" /\ n = None)
    BY <1>1
  <2>3. Goes(s, t, G, r, "posted", None, "asks", None) BY <2>1, <2>2 DEF Goes
  <2>4. QED BY <2>3, Moving
<1>3. CASE r \notin s.posted
  <2>1. \A i : \A k \in G : At(t, r, k, i) <=> At(s, r, k, i) BY <1>1, <1>3
  <2>2. QED BY <2>1, Unmoved
<1>4. QED BY <1>2, <1>3

\* A driver receives a proposal: the request is in its schedule, or lost with it.
LEMMA Taking ==
  ASSUME NEW s, NEW t, Agree(s, t, Fields \ {"offers", "orders", "lost"}), NEW d \in Drivers, NEW q,
         s.offers[d] = {q}, t.offers[d] = {}, \A e \in Drivers \ {d} : t.offers[e] = s.offers[e],
         \/ t.orders[d] = {q} /\ s.orders[d] = {} /\ t.lost = s.lost
         \/ t.orders[d] = s.orders[d] /\ t.lost = s.lost \cup {q},
         \A e \in Drivers \ {d} : t.orders[e] = s.orders[e], NEW r
  PROVE  Stays(s, t, r)
<1> DEFINE G == {"offers", "orders", "lost"}
<1>1. /\ \A i : At(s, r, "offers", i) <=> i \in Drivers /\ r \in s.offers[i]
      /\ \A i : At(t, r, "offers", i) <=> i \in Drivers /\ r \in t.offers[i]
      /\ \A i : At(s, r, "orders", i) <=> i \in Drivers /\ r \in s.orders[i]
      /\ \A i : At(t, r, "orders", i) <=> i \in Drivers /\ r \in t.orders[i]
      /\ \A i : At(s, r, "lost", i) <=> i = None /\ r \in s.lost
      /\ \A i : At(t, r, "lost", i) <=> i = None /\ r \in t.lost
  BY Kinds
<1>2. CASE r # q
  <2>1. \A i : At(t, r, "offers", i) <=> At(s, r, "offers", i) BY <1>1, <1>2
  <2>2. \A i : At(t, r, "orders", i) <=> At(s, r, "orders", i) BY <1>1, <1>2
  <2>3. \A i : At(t, r, "lost", i) <=> At(s, r, "lost", i) BY <1>1, <1>2
  <2>4. \A i : \A k \in G : At(t, r, k, i) <=> At(s, r, k, i) BY <2>1, <2>2, <2>3
  <2>5. QED BY <2>4, Unmoved
<1>3. CASE r = q /\ t.orders[d] = {q} /\ s.orders[d] = {} /\ t.lost = s.lost
  <2>1. At(s, r, "offers", d) /\ At(t, r, "orders", d) BY <1>1, <1>3
  <2>2. \A n : At(t, r, "offers", n) => At(s, r, "offers", n) /\ n # d BY <1>1, <1>3
  <2>3. \A n : At(t, r, "orders", n) => n = d \/ At(s, r, "orders", n) BY <1>1, <1>3
  <2>4. \A n : At(t, r, "lost", n) => At(s, r, "lost", n) BY <1>1, <1>3
  <2>5. \A n : \A m \in G : At(t, r, m, n) =>
          (m = "orders" /\ n = d) \/ (At(s, r, m, n) /\ ~(m = "offers" /\ n = d))
    BY <2>2, <2>3, <2>4
  <2>6. Goes(s, t, G, r, "offers", d, "orders", d) BY <2>1, <2>5 DEF Goes
  <2>7. QED BY <2>6, Moving
<1>4. CASE r = q /\ t.orders[d] = s.orders[d] /\ t.lost = s.lost \cup {q}
  <2>1. At(s, r, "offers", d) /\ At(t, r, "lost", None) BY <1>1, <1>4
  <2>2. \A n : At(t, r, "offers", n) => At(s, r, "offers", n) /\ n # d BY <1>1, <1>4
  <2>3. \A n : At(t, r, "orders", n) => At(s, r, "orders", n) BY <1>1, <1>4
  <2>4. \A n : At(t, r, "lost", n) => n = None BY <1>1
  <2>5. \A n : \A m \in G : At(t, r, m, n) =>
          (m = "lost" /\ n = None) \/ (At(s, r, m, n) /\ ~(m = "offers" /\ n = d))
    BY <2>2, <2>3, <2>4
  <2>6. Goes(s, t, G, r, "offers", d, "lost", None) BY <2>1, <2>5 DEF Goes
  <2>7. QED BY <2>6, Moving
<1>5. QED BY <1>2, <1>3, <1>4

\* A driver drops requests off, or they are lost as it is deleted.
LEMMA Driving ==
  ASSUME NEW s, NEW t, Agree(s, t, Fields \ {"orders", "served", "lost"}), NEW d \in Drivers,
         NEW A, NEW B, t.served = s.served \cup A, t.lost = s.lost \cup B, A \cap B = {},
         A \cap t.orders[d] = {}, B \cap t.orders[d] = {}, s.orders[d] = A \cup B \cup t.orders[d],
         \A e \in Drivers \ {d} : t.orders[e] = s.orders[e], NEW r
  PROVE  Stays(s, t, r)
<1> DEFINE G == {"orders", "served", "lost"}
<1>1. /\ \A i : At(s, r, "orders", i) <=> i \in Drivers /\ r \in s.orders[i]
      /\ \A i : At(t, r, "orders", i) <=> i \in Drivers /\ r \in t.orders[i]
      /\ \A i : At(s, r, "served", i) <=> i = None /\ r \in s.served
      /\ \A i : At(t, r, "served", i) <=> i = None /\ r \in t.served
      /\ \A i : At(s, r, "lost", i) <=> i = None /\ r \in s.lost
      /\ \A i : At(t, r, "lost", i) <=> i = None /\ r \in t.lost
  BY Kinds
<1>2. CASE r \notin A \cup B
  <2>1. \A i : At(t, r, "orders", i) <=> At(s, r, "orders", i) BY <1>1, <1>2
  <2>2. \A i : At(t, r, "served", i) <=> At(s, r, "served", i) BY <1>1, <1>2
  <2>3. \A i : At(t, r, "lost", i) <=> At(s, r, "lost", i) BY <1>1, <1>2
  <2>4. \A i : \A k \in G : At(t, r, k, i) <=> At(s, r, k, i) BY <2>1, <2>2, <2>3
  <2>5. Agree(s, t, Fields \ G) OBVIOUS
  <2> HIDE DEF G
  <2>6. QED BY ONLY <2>4, <2>5, Unmoved
<1>3. ASSUME r \in A \cup B
      PROVE  /\ At(s, r, "orders", d)
             /\ \A n : At(t, r, "orders", n) => At(s, r, "orders", n) /\ n # d
  BY <1>1, <1>3
<1>4. CASE r \in A
  <2>1. At(t, r, "served", None) BY <1>1, <1>4
  <2>2. \A n : At(t, r, "served", n) => n = None BY <1>1
  <2>3. \A n : At(t, r, "lost", n) => At(s, r, "lost", n) BY <1>1, <1>4
  <2>4. \A n : \A m \in G : At(t, r, m, n) =>
          (m = "served" /\ n = None) \/ (At(s, r, m, n) /\ ~(m = "orders" /\ n = d))
    BY <1>3, <1>4, <2>2, <2>3
  <2>5. Goes(s, t, G, r, "orders", d, "served", None) BY <1>3, <1>4, <2>1, <2>4 DEF Goes
  <2>6. QED BY <2>5, Moving
<1>5. CASE r \in B
  <2>1. At(t, r, "lost", None) BY <1>1, <1>5
  <2>2. \A n : At(t, r, "lost", n) => n = None BY <1>1
  <2>3. \A n : At(t, r, "served", n) => At(s, r, "served", n) BY <1>1, <1>5
  <2>4. \A n : \A m \in G : At(t, r, m, n) =>
          (m = "lost" /\ n = None) \/ (At(s, r, m, n) /\ ~(m = "orders" /\ n = d))
    BY <1>3, <1>5, <2>2, <2>3
  <2>5. Goes(s, t, G, r, "orders", d, "lost", None) BY <1>3, <1>5, <2>1, <2>4 DEF Goes
  <2>6. QED BY <2>5, Moving
<1>6. QED BY <1>2, <1>4, <1>5

\* The controller begins: what is in its queue is taken out of it.
LEMMA TakingOut ==
  ASSUME NEW s, NEW t, Agree(s, t, Fields \ {"rest", "queue"}), Accounted(s),
         DOMAIN s.rest = {}, t.queue = <<>>, DOMAIN t.rest = DOMAIN s.queue,
         \A i \in DOMAIN s.queue : t.rest[i] = s.queue[i]
  PROVE  Accounted(t)
<1> SUFFICES ASSUME NEW r \in Requests
             PROVE  (Alone(s, r) => Alone(t, r)) /\ (Nowhere(s, r) => Nowhere(t, r))
  BY DEF Accounted
<1>1. /\ \A i : At(s, r, "rest", i) <=> i \in DOMAIN s.rest /\ s.rest[i] = r
      /\ \A i : At(t, r, "rest", i) <=> i \in DOMAIN t.rest /\ t.rest[i] = r
      /\ \A i : At(s, r, "queue", i) <=> i \in DOMAIN s.queue /\ s.queue[i] = r
      /\ \A i : At(t, r, "queue", i) <=> i \in DOMAIN t.queue /\ t.queue[i] = r
  BY Kinds
<1>2. /\ \A i : \A k \in Fields \ {"rest", "queue"} : At(t, r, k, i) <=> At(s, r, k, i)
      /\ \A k, i : At(t, r, k, i) => k \in Fields
      /\ \A k, i : At(s, r, k, i) => k \in Fields
  BY AgreeAt
<1>3. (\A i : ~At(s, r, "rest", i)) /\ (\A i : ~At(t, r, "queue", i)) BY <1>1
<1>4. \A i : At(t, r, "rest", i) <=> At(s, r, "queue", i) BY <1>1
<1>5. ASSUME NEW k, NEW i, At(t, r, k, i)
      PROVE  \/ k = "rest" /\ At(s, r, "queue", i)
             \/ k # "rest" /\ k # "queue" /\ At(s, r, k, i)
  BY <1>2, <1>3, <1>4, <1>5
<1>6. ASSUME Alone(s, r) PROVE Alone(t, r)
  <2>1. PICK k, i : At(s, r, k, i) /\ \A l, j : At(s, r, l, j) => l = k /\ j = i
    BY <1>6 DEF Alone
  <2>2. CASE k = "queue"
    <3>1. At(t, r, "rest", i) BY <1>4, <2>1, <2>2
    <3>2. \A l, j : At(t, r, l, j) => l = "rest" /\ j = i BY <1>5, <2>1, <2>2
    <3>3. QED BY <3>1, <3>2 DEF Alone
  <2>3. CASE k # "queue"
    <3>1. k # "rest" BY <1>3, <2>1
    <3>2. At(t, r, k, i) BY <1>2, <2>1, <2>3, <3>1
    <3>3. \A l, j : At(t, r, l, j) => l = k /\ j = i BY <1>5, <2>1, <2>3
    <3>4. QED BY <3>2, <3>3 DEF Alone
  <2>4. QED BY <2>2, <2>3
<1>7. ASSUME Nowhere(s, r) PROVE Nowhere(t, r)
  BY <1>5, <1>7 DEF Nowhere
<1>8. QED BY <1>6, <1>7

\* The first request of the rest goes back to the queue.
LEMMA PuttingBack ==
  ASSUME NEW s, NEW t, Agree(s, t, Fields \ {"rest", "queue"}), s.queue \in Seq(Requests),
         NEW n \in DOMAIN s.rest, NEW q \in Requests, s.rest[n] = q,
         DOMAIN t.rest = DOMAIN s.rest \ {n}, \A i \in DOMAIN t.rest : t.rest[i] = s.rest[i],
         t.queue = Append(s.queue, q), NEW r
  PROVE  Stays(s, t, r)
<1> DEFINE G == {"rest", "queue"}
           c == Len(s.queue) + 1
<1>1. /\ \A i : At(s, r, "rest", i) <=> i \in DOMAIN s.rest /\ s.rest[i] = r
      /\ \A i : At(t, r, "rest", i) <=> i \in DOMAIN t.rest /\ t.rest[i] = r
      /\ \A i : At(s, r, "queue", i) <=> i \in DOMAIN s.queue /\ s.queue[i] = r
      /\ \A i : At(t, r, "queue", i) <=> i \in DOMAIN t.queue /\ t.queue[i] = r
  BY Kinds
<1>2. /\ DOMAIN t.queue = DOMAIN s.queue \cup {c} /\ c \notin DOMAIN s.queue
      /\ t.queue[c] = q /\ \A i \in DOMAIN s.queue : t.queue[i] = s.queue[i]
  BY AppendedIs
<1> HIDE DEF c
<1>3. CASE r = q
  <2>1. At(s, r, "rest", n) /\ At(t, r, "queue", c) BY <1>1, <1>2, <1>3
  <2>2. \A i : At(t, r, "rest", i) => At(s, r, "rest", i) /\ i # n BY <1>1, <1>3
  <2>3. \A i : At(t, r, "queue", i) => i = c \/ At(s, r, "queue", i) BY <1>1, <1>2, <1>3
  <2>4. \A i : \A m \in G :
          At(t, r, m, i) => (m = "queue" /\ i = c) \/ (At(s, r, m, i) /\ ~(m = "rest" /\ i = n))
    BY <2>2, <2>3
  <2>5. Goes(s, t, G, r, "rest", n, "queue", c) BY <2>1, <2>4 DEF Goes
  <2>6. QED BY <2>5, Moving
<1>4. CASE r # q
  <2>1. \A i : At(t, r, "rest", i) <=> At(s, r, "rest", i) BY <1>1, <1>4
  <2>2. \A i : At(t, r, "queue", i) <=> At(s, r, "queue", i) BY <1>1, <1>2, <1>4
  <2>3. \A i : \A k \in G : At(t, r, k, i) <=> At(s, r, k, i) BY <2>1, <2>2
  <2>4. Agree(s, t, Fields \ G) OBVIOUS
  <2> HIDE DEF G
  <2>5. QED BY ONLY <2>3, <2>4, Unmoved
<1>5. QED BY <1>3, <1>4

\* It is proposed to a driver without a trip.
LEMMA Proposing ==
  ASSUME NEW s, NEW t, Agree(s, t, Fields \ {"rest", "offers"}),
         NEW n \in DOMAIN s.rest, NEW q, s.rest[n] = q,
         DOMAIN t.rest = DOMAIN s.rest \ {n}, \A i \in DOMAIN t.rest : t.rest[i] = s.rest[i],
         NEW d \in Drivers, s.offers[d] = {}, t.offers[d] = {q},
         \A e \in Drivers \ {d} : t.offers[e] = s.offers[e], NEW r
  PROVE  Stays(s, t, r)
<1> DEFINE G == {"rest", "offers"}
<1>1. /\ \A i : At(s, r, "rest", i) <=> i \in DOMAIN s.rest /\ s.rest[i] = r
      /\ \A i : At(t, r, "rest", i) <=> i \in DOMAIN t.rest /\ t.rest[i] = r
      /\ \A i : At(s, r, "offers", i) <=> i \in Drivers /\ r \in s.offers[i]
      /\ \A i : At(t, r, "offers", i) <=> i \in Drivers /\ r \in t.offers[i]
  BY Kinds
<1>2. CASE r = q
  <2>1. At(s, r, "rest", n) /\ At(t, r, "offers", d) BY <1>1, <1>2
  <2>2. \A i : At(t, r, "rest", i) => At(s, r, "rest", i) /\ i # n BY <1>1, <1>2
  <2>3. \A i : At(t, r, "offers", i) => i = d \/ At(s, r, "offers", i) BY <1>1, <1>2
  <2>4. \A i : \A m \in G :
          At(t, r, m, i) => (m = "offers" /\ i = d) \/ (At(s, r, m, i) /\ ~(m = "rest" /\ i = n))
    BY <2>2, <2>3
  <2>5. Goes(s, t, G, r, "rest", n, "offers", d) BY <2>1, <2>4 DEF Goes
  <2>6. QED BY <2>5, Moving
<1>3. CASE r # q
  <2>1. \A i : At(t, r, "rest", i) <=> At(s, r, "rest", i) BY <1>1, <1>3
  <2>2. \A i : At(t, r, "offers", i) <=> At(s, r, "offers", i) BY <1>1, <1>3
  <2>3. \A i : \A k \in G : At(t, r, k, i) <=> At(s, r, k, i) BY <2>1, <2>2
  <2>4. Agree(s, t, Fields \ G) OBVIOUS
  <2> HIDE DEF G
  <2>5. QED BY ONLY <2>3, <2>4, Unmoved
<1>4. QED BY <1>2, <1>3

-----------------------------------------------------------------------------
(* Where the requests are while schedules are computed, and after each step. *)

\* The fields of the record of places.
LEMMA WhereFields ==
  ASSUME NEW m, NEW n, NEW queue, NEW x, NEW done, NEW gone
  PROVE  LET s == WhereOf(m, n, queue, x, done, gone) IN
         /\ s.asks = m.asks /\ s.posted = n.asks /\ DOMAIN s.rest = {} /\ s.queue = queue
         /\ \A d \in Drivers : s.offers[d] = Offered(m.out[d]) \cup Offered(n.out[d])
         /\ \A d \in Drivers :
              s.orders[d] = IF x[d].place = "deleted" THEN {} ELSE Ordered(x[d].items)
         /\ s.served = done /\ s.lost = gone
         /\ s.rest = [i \in {} |-> None]
BY DEF WhereOf

Interim(a, n) ==
  [asks |-> mail.asks, posted |-> posted.asks,
   rest |-> [i \in n + 1 .. Len(ctl.queue) |-> ctl.queue[i]], queue |-> a.queue,
   offers |-> [d \in Drivers |-> Offered(mail.out[d]) \cup Offered(a.sent[d])],
   orders |-> [d \in Drivers |-> IF drv[d].place = "deleted" THEN {} ELSE Ordered(drv[d].items)],
   served |-> served, lost |-> lost]

\* They, while schedules are computed.
LEMMA InterimFields ==
  ASSUME NEW a, NEW n
  PROVE  LET s == Interim(a, n) IN
         /\ s.asks = mail.asks /\ s.posted = posted.asks /\ s.queue = a.queue
         /\ DOMAIN s.rest = n + 1 .. Len(ctl.queue)
         /\ \A i \in n + 1 .. Len(ctl.queue) : s.rest[i] = ctl.queue[i]
         /\ \A d \in Drivers : s.offers[d] = Offered(mail.out[d]) \cup Offered(a.sent[d])
         /\ \A d \in Drivers :
              s.orders[d] = IF drv[d].place = "deleted" THEN {} ELSE Ordered(drv[d].items)
         /\ s.served = served /\ s.lost = lost
BY DEF Interim

\* Nothing has moved before the first request.
LEMMA InterimStarts ==
  ASSUME Typed, InHand PROVE Accounted(Interim(Start, 0))
<1> DEFINE s == Where
           t == Interim(Start, 0)
<1>1. /\ s.asks = mail.asks /\ s.posted = posted.asks /\ DOMAIN s.rest = {} /\ s.queue = ctl.queue
      /\ \A d \in Drivers : s.offers[d] = Offered(mail.out[d]) \cup Offered(posted.out[d])
      /\ \A d \in Drivers :
           s.orders[d] = IF drv[d].place = "deleted" THEN {} ELSE Ordered(drv[d].items)
      /\ s.served = served /\ s.lost = lost
  BY WhereFields DEF Where
<1>2. /\ t.asks = mail.asks /\ t.posted = posted.asks /\ t.queue = Start.queue
      /\ DOMAIN t.rest = 0 + 1 .. Len(ctl.queue)
      /\ \A i \in 0 + 1 .. Len(ctl.queue) : t.rest[i] = ctl.queue[i]
      /\ \A d \in Drivers : t.offers[d] = Offered(mail.out[d]) \cup Offered(Start.sent[d])
      /\ \A d \in Drivers :
           t.orders[d] = IF drv[d].place = "deleted" THEN {} ELSE Ordered(drv[d].items)
      /\ t.served = served /\ t.lost = lost
  BY InterimFields
<1>3. Start.queue = <<>> /\ Start.sent = posted.out BY DEF Start
<1>4. DOMAIN ctl.queue = 1 .. Len(ctl.queue) BY LenProperties DEF Typed, Books
<1>5. Accounted(s) BY DEF InHand
<1> HIDE DEF s, t
<1>6. Agree(s, t, Fields \ {"rest", "queue"}) BY <1>1, <1>2, <1>3 DEF Agree
<1>7. t.queue = <<>> /\ DOMAIN t.rest = DOMAIN s.queue
      /\ \A i \in DOMAIN s.queue : t.rest[i] = s.queue[i]
  BY <1>1, <1>2, <1>3, <1>4
<1>8. Accounted(t) BY <1>1, <1>5, <1>6, <1>7, TakingOut
<1>9. QED BY <1>8 DEF t

\* A driver that is free has no offer.
LEMMA FreeHasNone ==
  ASSUME Typed, DriversGood, NEW d \in ctl.available
  PROVE  d \in Drivers /\ Offered(mail.out[d]) = {} /\ Offered(posted.out[d]) = {}
<1>1. d \in Drivers BY DEF Typed, Books
<1>2. /\ Good(setting.parks, View(d))
      /\ View(d).out = mail.out[d] /\ View(d).sent = posted.out[d]
      /\ View(d).free = (d \in ctl.available)
  BY <1>1, GoodView
<1>3. Awake(View(d)) BY <1>2 DEF Awake
<1>4. Offers(View(d)) = {} BY <1>2, <1>3, AwakeFacts
<1>5. QED BY <1>1, <1>2, <1>4 DEF Offers

\* The schedule for one more request: it goes to a driver, or back to the queue.
LEMMA InterimGoesOn ==
  ASSUME Typed, DriversGood, NEW a, Computed(a), NEW n \in Nat, n + 1 <= Len(ctl.queue),
         Accounted(Interim(a, n)), NEW b \in Assignments(a, ctl.queue[n + 1])
  PROVE  Computed(b) /\ Accounted(Interim(b, n + 1))
<1> DEFINE s == Interim(a, n)
           t == Interim(b, n + 1)
           q == ctl.queue[n + 1]
<1>1. ctl.queue \in Seq(Requests) /\ Len(ctl.queue) \in Nat BY LenProperties DEF Typed, Books
<1>2. n + 1 \in 1 .. Len(ctl.queue) BY <1>1
<1>3. q \in Requests BY <1>1, <1>2, ElementOfSeq
<1>4. /\ Computed(b)
      /\ \/ b.queue = Append(a.queue, q) /\ b.sent = a.sent
         \/ \E d \in ctl.available \cap Drivers :
              /\ b.queue = a.queue /\ Passed(a, d)
              /\ b.sent[d] = Append(posted.out[d], Proposition(q))
              /\ \A e \in Drivers \ {d} : b.sent[e] = a.sent[e]
  BY <1>3, RoundComputed
<1>5. /\ s.asks = mail.asks /\ s.posted = posted.asks /\ s.queue = a.queue
      /\ DOMAIN s.rest = n + 1 .. Len(ctl.queue)
      /\ \A i \in n + 1 .. Len(ctl.queue) : s.rest[i] = ctl.queue[i]
      /\ \A d \in Drivers : s.offers[d] = Offered(mail.out[d]) \cup Offered(a.sent[d])
      /\ \A d \in Drivers :
           s.orders[d] = IF drv[d].place = "deleted" THEN {} ELSE Ordered(drv[d].items)
      /\ s.served = served /\ s.lost = lost
  BY InterimFields
<1>6. /\ t.asks = mail.asks /\ t.posted = posted.asks /\ t.queue = b.queue
      /\ DOMAIN t.rest = (n + 1) + 1 .. Len(ctl.queue)
      /\ \A i \in (n + 1) + 1 .. Len(ctl.queue) : t.rest[i] = ctl.queue[i]
      /\ \A d \in Drivers : t.offers[d] = Offered(mail.out[d]) \cup Offered(b.sent[d])
      /\ \A d \in Drivers :
           t.orders[d] = IF drv[d].place = "deleted" THEN {} ELSE Ordered(drv[d].items)
      /\ t.served = served /\ t.lost = lost
  BY InterimFields
<1>7. Accounted(s) OBVIOUS
<1> HIDE DEF s, t
<1>8. n + 1 \in DOMAIN s.rest /\ s.rest[n + 1] = q BY <1>1, <1>2, <1>5
<1> HIDE DEF q
<1>9. /\ DOMAIN t.rest = DOMAIN s.rest \ {n + 1}
      /\ \A i \in DOMAIN t.rest : t.rest[i] = s.rest[i]
  <2>1. (n + 1) + 1 .. Len(ctl.queue) = (n + 1 .. Len(ctl.queue)) \ {n + 1} BY <1>1
  <2>2. QED BY <1>5, <1>6, <2>1
<1>10. ASSUME b.queue = Append(a.queue, q), b.sent = a.sent PROVE Accounted(t)
  <2>1. Agree(s, t, Fields \ {"rest", "queue"}) BY <1>5, <1>6, <1>10 DEF Agree
  <2>2. s.queue \in Seq(Requests) BY <1>5 DEF Computed
  <2>3. t.queue = Append(s.queue, q) BY <1>5, <1>6, <1>10
  <2>4. \A r \in Requests : Stays(s, t, r)
    BY <1>3, <1>8, <1>9, <2>1, <2>2, <2>3, PuttingBack
  <2>5. QED BY <1>7, <2>4, AllStay
<1>11. ASSUME NEW d \in ctl.available \cap Drivers, b.queue = a.queue, Passed(a, d),
              b.sent[d] = Append(posted.out[d], Proposition(q)),
              \A e \in Drivers \ {d} : b.sent[e] = a.sent[e]
       PROVE  Accounted(t)
  <2>1. Agree(s, t, Fields \ {"rest", "offers"}) BY <1>5, <1>6, <1>11 DEF Agree
  <2>2. Offered(mail.out[d]) = {} /\ Offered(posted.out[d]) = {} BY FreeHasNone
  <2>3. a.sent[d] = posted.out[d] BY <1>11 DEF Passed
  <2>4. s.offers[d] = {} BY <1>5, <2>2, <2>3
  <2>5. Offered(b.sent[d]) = {q}
    <3>1. posted.out[d] \in Seq(Answers) BY DEF Typed, Boxes
    <3>2. Proposition(q) \in Answers BY <1>3 DEF Proposition, Answers
    <3>3. Proposition(q).kind = "SCHEDULE_PROPOSITION" /\ Proposition(q).request = q
      BY DEF Proposition
    <3>4. QED BY <1>11, <2>2, <3>1, <3>2, <3>3, OutAppend
  <2>6. t.offers[d] = {q} BY <1>6, <2>2, <2>5
  <2>7. ASSUME NEW e \in Drivers \ {d} PROVE t.offers[e] = s.offers[e]
    <3>1. s.offers[e] = Offered(mail.out[e]) \cup Offered(a.sent[e]) BY ONLY <1>5, <2>7
    <3>2. t.offers[e] = Offered(mail.out[e]) \cup Offered(b.sent[e]) BY ONLY <1>6, <2>7
    <3>3. b.sent[e] = a.sent[e] BY ONLY <1>11, <2>7
    <3>4. QED BY ONLY <3>1, <3>2, <3>3
  <2>8. \A r \in Requests : Stays(s, t, r)
    BY <1>8, <1>9, <2>1, <2>4, <2>6, <2>7, Proposing
  <2>9. QED BY <1>7, <2>8, AllStay
<1>12. Accounted(t) BY <1>4, <1>10, <1>11
<1>13. QED BY <1>4, <1>12 DEF t

\* Whatever schedules are computed, each request is in one place.
LEMMA AllComputed ==
  ASSUME Typed, DriversGood, InHand, NEW a \in computeSchedules
  PROVE  Computed(a) /\ Accounted(Interim(a, Len(ctl.queue)))
<1>1. ctl.queue \in Seq(Requests) /\ Len(ctl.queue) \in Nat BY LenProperties DEF Typed, Books
<1>2. PICK f : Rounds(Len(ctl.queue), f) /\ computeSchedules = f[Len(ctl.queue)]
  BY <1>1, SchedulesAre
<1>3. \A i \in 0 .. Len(ctl.queue) : f[i] = IF i = 0 THEN {Start} ELSE Round(f[i - 1], ctl.queue[i])
  BY ONLY <1>2 DEF Rounds
<1> DEFINE T == {n \in Nat : n <= Len(ctl.queue) =>
                   \A b \in f[n] : Computed(b) /\ Accounted(Interim(b, n))}
<1>4. 0 \in T
  <2>1. f[0] = {Start} BY <1>1, <1>3
  <2>2. QED BY <2>1, StartComputed, InterimStarts
<1>5. ASSUME NEW n \in Nat, n \in T PROVE n + 1 \in T
  <2>1. ASSUME n + 1 <= Len(ctl.queue), NEW c \in f[n + 1]
        PROVE  Computed(c) /\ Accounted(Interim(c, n + 1))
    <3>1. n + 1 \in 0 .. Len(ctl.queue) /\ n + 1 # 0 /\ (n + 1) - 1 = n /\ n <= Len(ctl.queue)
      BY <1>1, <2>1
    <3>2. f[n + 1] = Round(f[n], ctl.queue[n + 1]) BY ONLY <1>3, <3>1
    <3>3. \A b \in f[n] : Computed(b) /\ Accounted(Interim(b, n)) BY <1>5, <3>1
    <3>4. PICK b \in f[n] : c \in Assignments(b, ctl.queue[n + 1])
      BY <2>1, <3>2 DEF Round
    <3>5. QED BY <2>1, <3>3, <3>4, InterimGoesOn
  <2>2. QED BY <2>1
<1>6. Nat \subseteq T
  <2> HIDE DEF T
  <2>1. QED BY <1>4, <1>5, Induction
<1>7. QED BY <1>1, <1>2, <1>6

-----------------------------------------------------------------------------
(* The controller's own update. *)

\* The state after schedules were computed.
LEMMA Computing ==
  ASSUME Typed, NEW a, Computed(a),
         ctl' = [ctl EXCEPT !.localTick = 0, !.queue = a.queue, !.available = a.available,
                            !.copy = a.copy],
         posted' = [posted EXCEPT !.out = a.sent]
  PROVE  /\ Books(ctl') /\ posted' \in Boxes
         /\ ctl'.queue = a.queue /\ ctl'.available = a.available /\ ctl'.copy = a.copy
         /\ ctl'.subscribed = ctl.subscribed
         /\ posted'.asks = posted.asks /\ posted'.in = posted.in /\ posted'.out = a.sent
<1>1. Books(ctl) /\ posted \in Boxes BY DEF Typed
<1>2. /\ DOMAIN ctl' = DOMAIN ctl /\ ctl'.localTick = 0 /\ ctl'.queue = a.queue
      /\ ctl'.available = a.available /\ ctl'.copy = a.copy /\ ctl'.subscribed = ctl.subscribed
  BY <1>1 DEF Books
<1>3. posted'.asks = posted.asks /\ posted'.in = posted.in /\ posted'.out = a.sent
  BY <1>1 DEF Boxes
<1>4. ASSUME NEW d \in DOMAIN ctl.copy PROVE a.copy[d] \in Seq(Items)
  <2>1. d \in Drivers /\ ctl.copy[d] \in Seq(Items) BY <1>1 DEF Books
  <2>2. CASE Passed(a, d) BY <2>1, <2>2 DEF Passed
  <2>3. ASSUME NEW r \in Requests, Chosen(a, d, r) PROVE a.copy[d] \in Seq(Items)
    <3>1. Tail(Legs(setting.parks, r)) \in Seq(Items) BY <1>1, LegsFacts
    <3>2. QED BY <2>3, <3>1 DEF Chosen
  <2>4. QED BY <2>1, <2>2, <2>3 DEF Computed
<1>5. ASSUME NEW d \in Drivers PROVE a.sent[d] \in Seq(Answers)
  <2>1. posted.out[d] \in Seq(Answers) BY <1>1 DEF Boxes
  <2>2. CASE Passed(a, d) BY <2>1, <2>2 DEF Passed
  <2>3. ASSUME NEW r \in Requests, Chosen(a, d, r) PROVE a.sent[d] \in Seq(Answers)
    <3>1. Proposition(r) \in Answers BY DEF Proposition, Answers
    <3>2. Append(posted.out[d], Proposition(r)) \in Seq(Answers)
      BY ONLY <2>1, <3>1, AppendProperties
    <3>3. QED BY <2>3, <3>2 DEF Chosen
  <2>4. QED BY <2>2, <2>3 DEF Computed
<1>6. 0 \in 0 .. Period BY ServiceAssumption
<1>7. Books(ctl') BY <1>1, <1>2, <1>4, <1>6 DEF Books, Computed
<1>8. a.sent \in [Drivers -> Seq(Answers)] BY <1>5 DEF Computed, IsMap
<1>9. posted' \in Boxes BY <1>1, <1>8 DEF Boxes
<1>10. QED BY <1>2, <1>3, <1>7, <1>9

\* A driver after schedules were computed.
LEMMA ComputedGood ==
  ASSUME Typed, DriversGood, NEW a, Computed(a), NEW d \in Drivers, mail.in[d] = <<>>,
         Books(ctl'), posted' \in Boxes, updated' = updated \cup {Controller}, drv' = drv,
         mail' = mail, ctl'.available = a.available, ctl'.copy = a.copy,
         ctl'.subscribed = ctl.subscribed, posted'.in = posted.in, posted'.out = a.sent
  PROVE  Good(setting.parks, ViewOf(drv'[d], mail', posted', ctl', updated', d))
<1> DEFINE p == setting.parks
           v == View(d)
           w == ViewOf(drv'[d], mail', posted', ctl', updated', d)
<1>1. /\ drv[d] \in DriverRecord /\ v \in Views
      /\ Good(p, v) /\ v.x = drv[d] /\ v.in = mail.in[d] /\ v.new = posted.in[d]
      /\ v.out = mail.out[d] /\ v.sent = posted.out[d]
      /\ v.known = (d \in DOMAIN ctl.copy) /\ v.free = (d \in ctl.available)
      /\ v.subscribed = (d \in ctl.subscribed) /\ v.updated = (d \in updated)
      /\ v.copy = IF d \in DOMAIN ctl.copy THEN ctl.copy[d] ELSE <<>>
  BY GoodView
<1>2. /\ w.x = drv'[d] /\ w.in = mail'.in[d] /\ w.new = posted'.in[d]
      /\ w.out = mail'.out[d] /\ w.sent = posted'.out[d]
      /\ w.known = (d \in DOMAIN ctl'.copy) /\ w.free = (d \in ctl'.available)
      /\ w.subscribed = (d \in ctl'.subscribed) /\ w.updated = (d \in updated')
      /\ w.copy = IF d \in DOMAIN ctl'.copy THEN ctl'.copy[d] ELSE <<>>
  BY ViewFields
<1>3. DOMAIN a.copy = DOMAIN ctl.copy BY DEF Computed
<1>4. d \in updated' <=> d \in updated BY ServiceAssumption
<1>5. CASE Passed(a, d)
  <2>1. w = v
    <3>1. /\ d \in DOMAIN ctl'.copy <=> d \in DOMAIN ctl.copy
          /\ d \in DOMAIN ctl.copy => ctl'.copy[d] = ctl.copy[d]
          /\ d \in ctl'.available <=> d \in ctl.available
          /\ posted'.out[d] = posted.out[d]
      BY <1>3, <1>5 DEF Passed
    <3>2. ViewOf(drv[d], mail', posted', ctl', updated', d)
            = ViewOf(drv[d], mail, posted, ctl, updated, d)
      BY <1>4, <3>1, SameView
    <3>3. QED BY <3>2 DEF View
  <2> HIDE DEF v, w
  <2>2. QED BY <1>1, <2>1 DEF w
<1>6. ASSUME NEW r \in Requests, Chosen(a, d, r) PROVE Good(p, w)
  <2>1. /\ d \in ctl.available /\ d \notin a.available
        /\ a.copy[d] = Tail(Legs(p, r)) /\ a.sent[d] = Append(posted.out[d], Proposition(r))
    BY <1>6 DEF Chosen
  <2>2. d \in DOMAIN ctl.copy BY <2>1 DEF Typed, Books
  <2>3. w \in Views
    <3>1. drv'[d] \in DriverRecord /\ mail' \in Boxes BY DEF Typed
    <3>2. QED BY <3>1, ViewTyped
  <2> HIDE DEF v, w, p
  <2>4. w.sent = Append(v.sent, Proposition(r)) /\ w.copy = Tail(Legs(p, r)) /\ ~w.free /\ v.free
        /\ w.known = v.known
    BY <1>1, <1>2, <1>3, <2>1, <2>2
  <2>5. /\ v.in = <<>> /\ w.x = v.x /\ w.in = v.in /\ w.new = v.new /\ w.out = v.out
        /\ w.updated = v.updated /\ w.subscribed = v.subscribed
    BY <1>1, <1>2, <1>4
  <2>6. Assigned(p, r, v, w) BY <2>4, <2>5 DEF Assigned
  <2>7. QED BY <1>1, <2>3, <2>6, AssignedGood
<1>7. QED BY <1>5, <1>6 DEF Computed

\* The controller's own update.
LEMMA ControllerTickStep ==
  ASSUME Typed, DriversGood, InHand, ControllerTick
  PROVE  Typed' /\ DriversGood' /\ InHand'
<1>1. /\ mail' = mail /\ setting' = setting /\ now' = now /\ drv' = drv /\ asked' = asked
      /\ served' = served /\ lost' = lost /\ updated' = updated \cup {Controller}
      /\ mail.asks = {} /\ \A d \in Drivers : mail.in[d] = <<>>
  BY DEF ControllerTick
<1>2. CASE ctl.localTick = Period
  <2>1. PICK a \in computeSchedules :
          /\ ctl' = [ctl EXCEPT !.localTick = 0, !.queue = a.queue, !.available = a.available,
                                !.copy = a.copy]
          /\ posted' = [posted EXCEPT !.out = a.sent]
    BY <1>2 DEF ControllerTick
  <2>2. Computed(a) /\ Accounted(Interim(a, Len(ctl.queue))) BY AllComputed
  <2>3. /\ Books(ctl') /\ posted' \in Boxes
        /\ ctl'.queue = a.queue /\ ctl'.available = a.available /\ ctl'.copy = a.copy
        /\ ctl'.subscribed = ctl.subscribed
        /\ posted'.asks = posted.asks /\ posted'.in = posted.in /\ posted'.out = a.sent
    BY <2>1, <2>2, Computing
  <2>4. Typed' BY <1>1, <2>3 DEF Typed
  <2>5. \A d \in Drivers :
          Good(setting.parks, ViewOf(drv'[d], mail', posted', ctl', updated', d))
    BY <1>1, <2>2, <2>3, ComputedGood
  <2>6. DriversGood' BY <1>1, <2>5 DEF DriversGood, View
  <2> DEFINE s == Interim(a, Len(ctl.queue))
             t == WhereOf(mail', posted', ctl'.queue, drv', served', lost')
  <2>7. /\ s.asks = mail.asks /\ s.posted = posted.asks /\ s.queue = a.queue
        /\ DOMAIN s.rest = Len(ctl.queue) + 1 .. Len(ctl.queue)
        /\ \A d \in Drivers : s.offers[d] = Offered(mail.out[d]) \cup Offered(a.sent[d])
        /\ \A d \in Drivers :
             s.orders[d] = IF drv[d].place = "deleted" THEN {} ELSE Ordered(drv[d].items)
        /\ s.served = served /\ s.lost = lost
    BY InterimFields
  <2>8. /\ t.asks = mail'.asks /\ t.posted = posted'.asks /\ DOMAIN t.rest = {}
        /\ t.queue = ctl'.queue
        /\ \A d \in Drivers : t.offers[d] = Offered(mail'.out[d]) \cup Offered(posted'.out[d])
        /\ \A d \in Drivers :
             t.orders[d] = IF drv'[d].place = "deleted" THEN {} ELSE Ordered(drv'[d].items)
        /\ t.served = served' /\ t.lost = lost'
    BY WhereFields
  <2> HIDE DEF s, t
  <2>9. Agree(s, t, Fields \ {"rest"}) BY <1>1, <2>3, <2>7, <2>8 DEF Agree
  <2>10. DOMAIN s.rest = {}
    <3>1. Len(ctl.queue) \in Nat BY LenProperties DEF Typed, Books
    <3>2. QED BY <2>7, <3>1
  <2>11. ASSUME NEW r \in Requests PROVE Stays(s, t, r)
    <3>1. \A i : (At(s, r, "rest", i) <=> i \in DOMAIN s.rest /\ s.rest[i] = r)
                 /\ (At(t, r, "rest", i) <=> i \in DOMAIN t.rest /\ t.rest[i] = r)
      BY Kinds
    <3>2. \A i : At(t, r, "rest", i) <=> At(s, r, "rest", i) BY <2>8, <2>10, <3>1
    <3> DEFINE G == {"rest"}
    <3>3. \A i : \A k \in G : At(t, r, k, i) <=> At(s, r, k, i) BY <3>2
    <3>4. Agree(s, t, Fields \ G) BY <2>9
    <3> HIDE DEF G
    <3>5. QED BY ONLY <3>3, <3>4, Unmoved
  <2>12. Accounted(t) BY <2>2, <2>11, AllStay DEF s
  <2>13. InHand' BY <1>1, <2>12 DEF InHand, Where, Accounted, t
  <2>14. QED BY <2>4, <2>6, <2>13
<1>3. CASE ctl.localTick # Period
  <2>1. ctl' = [ctl EXCEPT !.localTick = @ + 1] /\ posted' = posted
    BY <1>3 DEF ControllerTick
  <2>2. Books(ctl) BY DEF Typed
  <2>3. /\ DOMAIN ctl' = DOMAIN ctl /\ ctl'.localTick = ctl.localTick + 1 /\ ctl'.queue = ctl.queue
        /\ ctl'.available = ctl.available /\ ctl'.copy = ctl.copy
        /\ ctl'.subscribed = ctl.subscribed
    BY <2>1, <2>2 DEF Books
  <2>4. ctl'.localTick \in 0 .. Period BY <1>3, <2>2, <2>3, ServiceAssumption DEF Books
  <2>5. Books(ctl') BY <2>2, <2>3, <2>4 DEF Books
  <2>6. Typed' BY <1>1, <2>1, <2>5 DEF Typed
  <2>7. \A d \in Drivers : d \in updated' <=> d \in updated BY <1>1, ServiceAssumption
  <2>8. DriversGood' BY <1>1, <2>1, <2>3, <2>7, NoDriver
  <2>9. InHand' BY <1>1, <2>1, <2>3 DEF InHand, Where, Accounted
  <2>10. QED BY <2>6, <2>8, <2>9
<1>4. QED BY <1>2, <1>3

-----------------------------------------------------------------------------
(* The requests, in the other steps. *)

\* The record of places of a state and of the next.
LEMMA WhereBoth ==
  LET s == Where
      t == WhereOf(mail', posted', ctl'.queue, drv', served', lost') IN
  /\ s.asks = mail.asks /\ s.posted = posted.asks /\ s.queue = ctl.queue
  /\ s.served = served /\ s.lost = lost /\ s.rest = t.rest
  /\ t.asks = mail'.asks /\ t.posted = posted'.asks /\ t.queue = ctl'.queue
  /\ t.served = served' /\ t.lost = lost'
  /\ \A d \in Drivers :
       /\ s.offers[d] = Offered(mail.out[d]) \cup Offered(posted.out[d])
       /\ t.offers[d] = Offered(mail'.out[d]) \cup Offered(posted'.out[d])
       /\ s.orders[d] = IF drv[d].place = "deleted" THEN {} ELSE Ordered(drv[d].items)
       /\ t.orders[d] = IF drv'[d].place = "deleted" THEN {} ELSE Ordered(drv'[d].items)
<1> DEFINE s == Where
           t == WhereOf(mail', posted', ctl'.queue, drv', served', lost')
<1>1. /\ s.asks = mail.asks /\ s.posted = posted.asks /\ s.queue = ctl.queue
      /\ \A d \in Drivers : s.offers[d] = Offered(mail.out[d]) \cup Offered(posted.out[d])
      /\ \A d \in Drivers :
           s.orders[d] = IF drv[d].place = "deleted" THEN {} ELSE Ordered(drv[d].items)
      /\ s.served = served /\ s.lost = lost /\ s.rest = [i \in {} |-> None]
  BY WhereFields DEF Where
<1>2. /\ t.asks = mail'.asks /\ t.posted = posted'.asks /\ t.queue = ctl'.queue
      /\ \A d \in Drivers : t.offers[d] = Offered(mail'.out[d]) \cup Offered(posted'.out[d])
      /\ \A d \in Drivers :
           t.orders[d] = IF drv'[d].place = "deleted" THEN {} ELSE Ordered(drv'[d].items)
      /\ t.served = served' /\ t.lost = lost' /\ t.rest = [i \in {} |-> None]
  BY WhereFields
<1> HIDE DEF s, t
<1>3. s.rest = t.rest BY <1>1, <1>2
<1>4. QED BY <1>1, <1>2, <1>3 DEF s, t

\* With the same requests asked, what is accounted for stays so.
LEMMA InHandNext ==
  ASSUME InHand, asked' = asked,
         NEW t, t = WhereOf(mail', posted', ctl'.queue, drv', served', lost'),
         \A r \in Requests : Stays(Where, t, r)
  PROVE  InHand'
<1>1. Accounted(t) BY AllStay DEF InHand
<1>2. QED BY <1>1 DEF InHand, Where, Accounted

\* A traveller asks: the request comes to the messages that were posted.
LEMMA AskInHand ==
  ASSUME InHand, NEW r \in Requests, r \notin asked, asked' = asked \cup {r},
         mail' = mail, ctl' = ctl, drv' = drv, served' = served, lost' = lost,
         posted'.asks = posted.asks \cup {r}, posted'.out = posted.out
  PROVE  InHand'
<1> DEFINE s == Where
           t == WhereOf(mail', posted', ctl'.queue, drv', served', lost')
<1>1. /\ s.asks = mail.asks /\ s.posted = posted.asks /\ s.queue = ctl.queue
      /\ s.served = served /\ s.lost = lost /\ s.rest = t.rest
      /\ t.asks = mail'.asks /\ t.posted = posted'.asks /\ t.queue = ctl'.queue
      /\ t.served = served' /\ t.lost = lost'
      /\ \A e \in Drivers :
           /\ s.offers[e] = Offered(mail.out[e]) \cup Offered(posted.out[e])
           /\ t.offers[e] = Offered(mail'.out[e]) \cup Offered(posted'.out[e])
           /\ s.orders[e] = IF drv[e].place = "deleted" THEN {} ELSE Ordered(drv[e].items)
           /\ t.orders[e] = IF drv'[e].place = "deleted" THEN {} ELSE Ordered(drv'[e].items)
  BY WhereBoth
<1> HIDE DEF s, t
<1>2. Agree(s, t, Fields \ {"posted"}) BY <1>1 DEF Agree
<1>3. t.posted = s.posted \cup {r} BY <1>1
<1>4. \A q, i : /\ At(s, q, "posted", i) <=> i = None /\ q \in s.posted
                /\ At(t, q, "posted", i) <=> i = None /\ q \in t.posted
  BY Kinds
<1>5. ASSUME NEW q \in Requests, q # r PROVE Stays(s, t, q)
  <2> DEFINE G == {"posted"}
  <2>1. \A i : \A k \in G : At(t, q, k, i) <=> At(s, q, k, i) BY <1>3, <1>4, <1>5
  <2>2. Agree(s, t, Fields \ G) BY <1>2
  <2> HIDE DEF G
  <2>3. QED BY ONLY <2>1, <2>2, Unmoved
<1>6. Nowhere(s, r) BY DEF InHand, Accounted, s
<1>7. Alone(t, r)
  <2>1. At(t, r, "posted", None) BY <1>3, <1>4
  <2>2. ASSUME NEW k, NEW i, At(t, r, k, i) PROVE k = "posted" /\ i = None
    <3>1. CASE k = "posted" BY <1>4, <2>2, <3>1
    <3>2. CASE k # "posted"
      <4>1. k \in Fields \ {"posted"} BY <1>2, <2>2, <3>2, AgreeAt
      <4>2. At(s, r, k, i) BY <1>2, <2>2, <4>1, AgreeAt
      <4>3. QED BY <1>6, <4>2 DEF Nowhere
    <3>3. QED BY <3>1, <3>2
  <2>3. QED BY <2>1, <2>2 DEF Alone
<1>8. ASSUME NEW q \in Requests
      PROVE  IF q \in asked' THEN Alone(t, q) ELSE Nowhere(t, q)
  <2>1. CASE q = r BY <1>7, <2>1
  <2>2. CASE q # r
    <3>1. IF q \in asked THEN Alone(s, q) ELSE Nowhere(s, q) BY DEF InHand, Accounted, s
    <3>2. (Alone(s, q) => Alone(t, q)) /\ (Nowhere(s, q) => Nowhere(t, q))
      BY <1>5, <2>2, StaysAlone
    <3>3. q \in asked' <=> q \in asked BY <2>2
    <3>4. QED BY <3>1, <3>2, <3>3
  <2>3. QED BY <2>1, <2>2
<1>9. QED BY <1>8 DEF InHand, Where, Accounted, t

\* The controller handles a request.
LEMMA HandleRequestInHand ==
  ASSUME Typed, InHand, NEW q \in Requests, q \in mail.asks, asked' = asked,
         mail'.asks = mail.asks \ {q}, mail'.out = mail.out, ctl'.queue = Append(ctl.queue, q),
         posted' = posted, drv' = drv, served' = served, lost' = lost
  PROVE  InHand'
<1> DEFINE s == Where
           t == WhereOf(mail', posted', ctl'.queue, drv', served', lost')
<1>1. /\ s.asks = mail.asks /\ s.posted = posted.asks /\ s.queue = ctl.queue
      /\ s.served = served /\ s.lost = lost /\ s.rest = t.rest
      /\ t.asks = mail'.asks /\ t.posted = posted'.asks /\ t.queue = ctl'.queue
      /\ t.served = served' /\ t.lost = lost'
      /\ \A e \in Drivers :
           /\ s.offers[e] = Offered(mail.out[e]) \cup Offered(posted.out[e])
           /\ t.offers[e] = Offered(mail'.out[e]) \cup Offered(posted'.out[e])
           /\ s.orders[e] = IF drv[e].place = "deleted" THEN {} ELSE Ordered(drv[e].items)
           /\ t.orders[e] = IF drv'[e].place = "deleted" THEN {} ELSE Ordered(drv'[e].items)
  BY WhereBoth
<1> HIDE DEF s, t
<1>2. Agree(s, t, Fields \ {"asks", "queue"}) BY <1>1 DEF Agree
<1>3. s.asks = mail.asks /\ t.asks = mail'.asks /\ s.queue = ctl.queue /\ t.queue = ctl'.queue
  BY <1>1
<1>4. ctl.queue \in Seq(Requests) BY DEF Typed, Books
<1>5. \A r \in Requests : Stays(s, t, r) BY <1>2, <1>3, <1>4, Queueing
<1>6. QED BY <1>5, InHandNext DEF s, t

\* What was posted is distributed.
LEMMA NextTickInHand ==
  ASSUME InHand, asked' = asked, mail' = posted, posted' = NoMail, ctl' = ctl, drv' = drv,
         served' = served, lost' = lost, mail.asks = {}, \A d \in Drivers : mail.out[d] = <<>>
  PROVE  InHand'
<1> DEFINE s == Where
           t == WhereOf(mail', posted', ctl'.queue, drv', served', lost')
<1>1. ASSUME NEW d \in Drivers
      PROVE  Offered(mail'.out[d]) \cup Offered(posted'.out[d])
               = Offered(mail.out[d]) \cup Offered(posted.out[d])
  <2>1. posted'.out[d] = <<>> /\ mail.out[d] = <<>> /\ mail'.out[d] = posted.out[d] BY DEF NoMail
  <2>2. Offered(<<>>) = {} BY DEF Offered
  <2>3. QED BY <2>1, <2>2
<1>2. /\ s.asks = mail.asks /\ s.posted = posted.asks /\ s.queue = ctl.queue
      /\ s.served = served /\ s.lost = lost /\ s.rest = t.rest
      /\ t.asks = mail'.asks /\ t.posted = posted'.asks /\ t.queue = ctl'.queue
      /\ t.served = served' /\ t.lost = lost'
      /\ \A e \in Drivers :
           /\ s.offers[e] = Offered(mail.out[e]) \cup Offered(posted.out[e])
           /\ t.offers[e] = Offered(mail'.out[e]) \cup Offered(posted'.out[e])
           /\ s.orders[e] = IF drv[e].place = "deleted" THEN {} ELSE Ordered(drv[e].items)
           /\ t.orders[e] = IF drv'[e].place = "deleted" THEN {} ELSE Ordered(drv'[e].items)
  BY WhereBoth
<1> HIDE DEF s, t
<1>3. Agree(s, t, Fields \ {"asks", "posted"})
  <2>1. ASSUME NEW e \in Drivers PROVE t.offers[e] = s.offers[e] /\ t.orders[e] = s.orders[e]
    <3>1. t.offers[e] = s.offers[e] BY <1>1, <1>2
    <3>2. drv' = drv OBVIOUS
    <3>3. t.orders[e] = s.orders[e] BY ONLY <1>2, <2>1, <3>2
    <3>4. QED BY <3>1, <3>3
  <2>2. ctl'.queue = ctl.queue OBVIOUS
  <2>3. /\ t.rest = s.rest /\ t.queue = s.queue /\ t.served = s.served /\ t.lost = s.lost
    BY <1>2, <2>2
  <2>4. QED BY ONLY <2>1, <2>3 DEF Agree
<1>4. s.asks = {} /\ t.asks = s.posted /\ t.posted = {}
  <2>1. posted'.asks = {} BY DEF NoMail
  <2>2. s.asks = mail.asks /\ t.asks = mail'.asks /\ s.posted = posted.asks /\ t.posted = posted'.asks
    BY ONLY <1>2
  <2>3. QED BY <2>1, <2>2
<1>5. \A r \in Requests : Stays(s, t, r) BY <1>3, <1>4, Distributing
<1>6. QED BY <1>5, InHandNext DEF s, t

\* A driver is loaded, or updated.
LEMMA DrivesInHand ==
  ASSUME InHand, NEW d \in Drivers, Drives(d)
  PROVE  InHand'
<1> DEFINE s == Where
           t == WhereOf(mail', posted', ctl'.queue, drv', served', lost')
           A == Ordered(drv[d].items) \ Ordered(drv'[d].items)
           B == IF drv'[d].place = "deleted" THEN Ordered(drv'[d].items) ELSE {}
<1>1. /\ s.asks = mail.asks /\ s.posted = posted.asks /\ s.queue = ctl.queue
      /\ s.served = served /\ s.lost = lost /\ s.rest = t.rest
      /\ t.asks = mail'.asks /\ t.posted = posted'.asks /\ t.queue = ctl'.queue
      /\ t.served = served' /\ t.lost = lost'
      /\ \A e \in Drivers :
           /\ s.offers[e] = Offered(mail.out[e]) \cup Offered(posted.out[e])
           /\ t.offers[e] = Offered(mail'.out[e]) \cup Offered(posted'.out[e])
           /\ s.orders[e] = IF drv[e].place = "deleted" THEN {} ELSE Ordered(drv[e].items)
           /\ t.orders[e] = IF drv'[e].place = "deleted" THEN {} ELSE Ordered(drv'[e].items)
  BY WhereBoth
<1> HIDE DEF s, t
<1>2. Agree(s, t, Fields \ {"orders", "served", "lost"}) BY <1>1 DEF Agree, Drives
<1>3. t.served = s.served \cup A /\ t.lost = s.lost \cup B BY <1>1 DEF Drives
<1>4. \A e \in Drivers \ {d} : t.orders[e] = s.orders[e] BY <1>1 DEF Drives
<1>5. A \cap B = {} /\ A \cap t.orders[d] = {} /\ B \cap t.orders[d] = {}
  BY <1>1 DEF Drives
<1>6. s.orders[d] = A \cup B \cup t.orders[d] BY <1>1 DEF Drives
<1> HIDE DEF A, B
<1>7. \A r \in Requests : Stays(s, t, r) BY <1>2, <1>3, <1>4, <1>5, <1>6, Driving
<1>8. asked' = asked BY DEF Drives
<1>9. QED BY <1>7, <1>8, InHandNext DEF s, t

\* A driver answers or not: no proposal is added or taken away.
LEMMA HandleInHand ==
  ASSUME InHand, asked' = asked, drv' = drv, served' = served, lost' = lost,
         mail'.asks = mail.asks, mail'.out = mail.out, posted'.asks = posted.asks,
         ctl'.queue = ctl.queue, \A e \in Drivers : Offered(posted'.out[e]) = Offered(posted.out[e])
  PROVE  InHand'
<1> DEFINE s == Where
           t == WhereOf(mail', posted', ctl'.queue, drv', served', lost')
<1>1. /\ s.asks = mail.asks /\ s.posted = posted.asks /\ s.queue = ctl.queue
      /\ s.served = served /\ s.lost = lost /\ s.rest = t.rest
      /\ t.asks = mail'.asks /\ t.posted = posted'.asks /\ t.queue = ctl'.queue
      /\ t.served = served' /\ t.lost = lost'
      /\ \A e \in Drivers :
           /\ s.offers[e] = Offered(mail.out[e]) \cup Offered(posted.out[e])
           /\ t.offers[e] = Offered(mail'.out[e]) \cup Offered(posted'.out[e])
           /\ s.orders[e] = IF drv[e].place = "deleted" THEN {} ELSE Ordered(drv[e].items)
           /\ t.orders[e] = IF drv'[e].place = "deleted" THEN {} ELSE Ordered(drv'[e].items)
  BY WhereBoth
<1> HIDE DEF s, t
<1>2. Agree(s, t, Fields \ {}) BY <1>1 DEF Agree
<1>3. \A r \in Requests : Stays(s, t, r)
  <2> DEFINE G == {}
  <2>1. Agree(s, t, Fields \ G) /\ \A r, i : \A k \in G : At(t, r, k, i) <=> At(s, r, k, i)
    BY <1>2
  <2> HIDE DEF G
  <2>2. QED BY <2>1, Unmoved
<1>4. QED BY <1>3, InHandNext DEF s, t

\* A driver receives a message: a proposal goes from its messages to its schedule, or
\* is lost if it was deleted.
LEMMA ReceiveInHand ==
  ASSUME Typed, DriversGood, InHand, NEW d \in Drivers, NEW i \in DOMAIN mail.out[d], Receive(d, i)
  PROVE  InHand'
<1> DEFINE s == Where
           t == WhereOf(mail', posted', ctl'.queue, drv', served', lost')
           m == mail.out[d][i]
           v == View(d)
<1>1. /\ s.asks = mail.asks /\ s.posted = posted.asks /\ s.queue = ctl.queue
      /\ s.served = served /\ s.lost = lost /\ s.rest = t.rest
      /\ t.asks = mail'.asks /\ t.posted = posted'.asks /\ t.queue = ctl'.queue
      /\ t.served = served' /\ t.lost = lost'
      /\ \A e \in Drivers :
           /\ s.offers[e] = Offered(mail.out[e]) \cup Offered(posted.out[e])
           /\ t.offers[e] = Offered(mail'.out[e]) \cup Offered(posted'.out[e])
           /\ s.orders[e] = IF drv[e].place = "deleted" THEN {} ELSE Ordered(drv[e].items)
           /\ t.orders[e] = IF drv'[e].place = "deleted" THEN {} ELSE Ordered(drv'[e].items)
  BY WhereBoth
<1> HIDE DEF s, t
<1>2. LET y == IF drv[d].place = "deleted" THEN drv[d] ELSE Answered(drv[d], m) IN
      /\ drv'[d] = y /\ \A e \in Drivers \ {d} : drv'[e] = drv[e]
      /\ mail'.out[d] = Rest(mail.out[d], i) /\ mail'.asks = mail.asks /\ mail'.in = mail.in
      /\ \A e \in Drivers \ {d} : mail'.out[e] = mail.out[e]
      /\ lost' = lost \cup (IF drv[d].place = "deleted" THEN Offered(<<m>>) ELSE {})
      /\ posted' = posted /\ ctl' = ctl /\ asked' = asked /\ served' = served
  BY Receiving
<1>3. /\ Good(setting.parks, v) /\ v.x = drv[d]
      /\ v.out = mail.out[d] /\ v.sent = posted.out[d] /\ drv[d] \in DriverRecord
  BY GoodView
<1> HIDE DEF v
<1>4. OneJob(v) BY <1>3 DEF Good
<1>5. mail.out[d] \in Seq(Answers) /\ m \in Answers
  <2>1. mail.out[d] \in Seq(Answers) BY DEF Typed, Boxes
  <2>2. QED BY <2>1, OutRest
<1>6. Single(mail.out[d]) BY <1>3, <1>4 DEF OneJob, OneOffer
<1>7. /\ m.kind # "SCHEDULE_PROPOSITION" =>
           Offered(Rest(mail.out[d], i)) = Offered(mail.out[d]) /\ Offered(<<m>>) = {}
      /\ m.kind = "SCHEDULE_PROPOSITION" =>
           /\ Offered(Rest(mail.out[d], i)) = {} /\ Offered(mail.out[d]) = {m.request}
           /\ Offered(<<m>>) = {m.request}
  <2>1. /\ m.kind # "SCHEDULE_PROPOSITION" => Offered(Rest(mail.out[d], i)) = Offered(mail.out[d])
        /\ m.kind = "SCHEDULE_PROPOSITION" =>
             Offered(Rest(mail.out[d], i)) = {} /\ Offered(mail.out[d]) = {m.request}
    BY <1>5, <1>6, OutRest
  <2>2. Offered(<<m>>) = IF m.kind = "SCHEDULE_PROPOSITION" THEN {m.request} ELSE {}
    BY DEF Offered
  <2>3. QED BY <2>1, <2>2
<1>8. /\ Answered(drv[d], m).place = drv[d].place
      /\ m.kind = "SCHEDULE_PROPOSITION" =>
           /\ m.request \in Requests
           /\ Answered(drv[d], m).items = Legs(setting.parks, m.request)
      /\ m.kind # "SCHEDULE_PROPOSITION" => Answered(drv[d], m).items = drv[d].items
  BY <1>3, <1>5, AnsweredIs
<1> HIDE DEF m
<1>9. \A e \in Drivers \ {d} : t.orders[e] = s.orders[e] /\ t.offers[e] = s.offers[e]
  <2> SUFFICES ASSUME NEW e \in Drivers \ {d}
               PROVE  t.orders[e] = s.orders[e] /\ t.offers[e] = s.offers[e]
    OBVIOUS
  <2>1. drv'[e] = drv[e] /\ mail'.out[e] = mail.out[e] /\ posted' = posted BY <1>2
  <2>2. /\ s.offers[e] = Offered(mail.out[e]) \cup Offered(posted.out[e])
        /\ t.offers[e] = Offered(mail'.out[e]) \cup Offered(posted'.out[e])
        /\ s.orders[e] = IF drv[e].place = "deleted" THEN {} ELSE Ordered(drv[e].items)
        /\ t.orders[e] = IF drv'[e].place = "deleted" THEN {} ELSE Ordered(drv'[e].items)
    BY <1>1
  <2>3. QED BY ONLY <2>1, <2>2
<1>10. CASE m.kind # "SCHEDULE_PROPOSITION"
  <2>1. t.offers[d] = s.offers[d]
    <3>1. mail'.out[d] = Rest(mail.out[d], i) /\ posted' = posted BY <1>2
    <3>2. /\ s.offers[d] = Offered(mail.out[d]) \cup Offered(posted.out[d])
          /\ t.offers[d] = Offered(mail'.out[d]) \cup Offered(posted'.out[d])
      BY <1>1
    <3>3. Offered(Rest(mail.out[d], i)) = Offered(mail.out[d]) BY ONLY <1>7, <1>10
    <3>4. QED BY ONLY <3>1, <3>2, <3>3
  <2>2. t.orders[d] = s.orders[d]
    <3>1. drv'[d].place = drv[d].place /\ drv'[d].items = drv[d].items BY <1>2, <1>8, <1>10
    <3>2. QED BY <1>1, <3>1
  <2>3. lost' = lost BY <1>2, <1>7, <1>10
  <2>4. Agree(s, t, Fields \ {}) BY <1>1, <1>2, <1>9, <2>1, <2>2, <2>3 DEF Agree
  <2>5. \A r \in Requests : Stays(s, t, r)
    <3> DEFINE G == {}
    <3>1. Agree(s, t, Fields \ G) /\ \A r, j : \A k \in G : At(t, r, k, j) <=> At(s, r, k, j)
      BY <2>4
    <3> HIDE DEF G
    <3>2. QED BY <3>1, Unmoved
  <2>6. QED BY <1>2, <2>5, InHandNext DEF s, t
<1>11. CASE m.kind = "SCHEDULE_PROPOSITION"
  <2>1. Agree(s, t, Fields \ {"offers", "orders", "lost"}) BY <1>1, <1>2 DEF Agree
  <2>2. Offered(posted.out[d]) = {} BY <1>3, <1>4, <1>7, <1>11 DEF OneJob, OneOffer
  <2>3. Ordered(drv[d].items) = {}
    <3>1. Offers(v) # {} BY <1>3, <1>7, <1>11 DEF Offers
    <3>2. ~Job(v) BY <1>4, <3>1 DEF OneJob
    <3>3. QED BY <1>3, <3>2 DEF Job
  <2>4. s.offers[d] = {m.request} /\ t.offers[d] = {} BY <1>1, <1>2, <1>7, <1>11, <2>2
  <2>5. s.orders[d] = {} BY <1>1, <2>3
  <2>6. CASE drv[d].place = "deleted"
    <3>1. t.orders[d] = s.orders[d] BY <1>1, <1>2, <2>5, <2>6
    <3>2. t.lost = s.lost \cup {m.request} BY <1>1, <1>2, <1>7, <1>11, <2>6
    <3>3. \A r \in Requests : Stays(s, t, r) BY <1>9, <2>1, <2>4, <3>1, <3>2, Taking
    <3>4. QED BY <1>2, <3>3, InHandNext DEF s, t
  <2>7. CASE drv[d].place # "deleted"
    <3>1. drv'[d].place # "deleted" /\ drv'[d].items = Legs(setting.parks, m.request)
      BY <1>2, <1>8, <1>11, <2>7
    <3>2. t.orders[d] = {m.request} BY <1>1, <1>3, <1>8, <1>11, <3>1, LegsFacts
    <3>3. t.lost = s.lost BY <1>1, <1>2, <2>7
    <3>4. \A r \in Requests : Stays(s, t, r) BY <1>9, <2>1, <2>4, <2>5, <3>2, <3>3, Taking
    <3>5. QED BY <1>2, <3>4, InHandNext DEF s, t
  <2>8. QED BY <2>6, <2>7
<1>12. QED BY <1>10, <1>11

\* The answer to a driver proposes nothing.
LEMMA HandledOffers ==
  ASSUME Typed, NEW d \in Drivers, NEW i \in DOMAIN mail.in[d], Handle(d, i)
  PROVE  \A e \in Drivers : Offered(posted'.out[e]) = Offered(posted.out[e])
<1>1. /\ posted' = IF mail.in[d][i] = "SHIFT_END"
                   THEN WithOut(posted, d, posted.out[d] \o ShiftEndAnswer(ctl, d)) ELSE posted
      /\ \A e \in Drivers \ {d} : posted'.out[e] = posted.out[e]
  BY Handling
<1>2. Offered(posted'.out[d]) = Offered(posted.out[d])
  <2>1. posted \in Boxes /\ posted.out[d] \in Seq(Answers) BY DEF Typed, Boxes
  <2>2. CASE mail.in[d][i] = "SHIFT_END"
    <3> DEFINE t == posted.out[d] \o ShiftEndAnswer(ctl, d)
    <3>1. Offered(t) = Offered(posted.out[d]) BY <2>1, AnswerIs
    <3>2. posted' = WithOut(posted, d, t) BY <1>1, <2>2
    <3> HIDE DEF t
    <3>3. posted'.out[d] = t BY <2>1, <3>2 DEF WithOut, Boxes
    <3>4. QED BY <3>1, <3>3
  <2>3. CASE mail.in[d][i] # "SHIFT_END" BY <1>1, <2>3
  <2>4. QED BY <2>2, <2>3
<1>3. ASSUME NEW e \in Drivers PROVE Offered(posted'.out[e]) = Offered(posted.out[e])
  <2>1. CASE e = d BY <1>2, <2>1
  <2>2. CASE e # d BY <1>1, <2>2
  <2>3. QED BY <2>1, <2>2
<1>4. QED BY <1>3

-----------------------------------------------------------------------------
(* The invariant is inductive. *)

\* Before it is loaded, a driver is unknown and has said nothing.
LEMMA UnloadedGood ==
  ASSUME NEW p, NEW v, v.x = Unloaded,
         v.in = <<>>, v.new = <<>>, v.out = <<>>, v.sent = <<>>,
         ~v.known, v.copy = <<>>, ~v.free, ~v.subscribed, ~v.updated
  PROVE  Good(p, v)
<1>1. /\ v.x.items = <<>> /\ v.x.passengers = {} /\ v.x.place = "unloaded" /\ v.x.sent = <<>>
      /\ ~v.x.sure /\ ~v.x.toBeRemoved
  BY DEF Unloaded
<1>2. ~Job(v) BY <1>1, NoLegs DEF Job
<1>3. Offered(<<>>) = {} /\ Single(<<>>) /\ ~LetGo(<<>>) BY DEF Offered, Single, LetGo
<1>4. Offers(v) = {} /\ OneOffer(v) BY <1>3 DEF Offers, OneOffer
<1>5. \A m : ~Has(<<>>, m) BY DEF Has
<1>6. ~Wakes(v.in) /\ ~Wakes(v.new) /\ ~Awake(v) BY <1>5 DEF Wakes, Awake
<1>7. Once(<<>>, "SUBSCRIBE") BY DEF Once
<1>8. Loaded(p, v) BY <1>1 DEF Loaded, Shape
<1>9. OneJob(v) BY <1>2, <1>4, <1>5, <1>6, <1>7 DEF OneJob
<1>10. Copied(p, v) BY DEF Copied
<1>11. ~Gone(v) BY <1>1, <1>3 DEF Gone
<1>12. Ending(v) BY <1>2, <1>4, <1>5, <1>6, <1>7, <1>11 DEF Ending
<1>13. QED BY <1>8, <1>9, <1>10, <1>12 DEF Good

\* The invariant holds at the start.
LEMMA OnCallInit == Init => OnCallInv
<1> SUFFICES ASSUME Init PROVE OnCallInv OBVIOUS
<1>1. NoMail \in Boxes /\ NoMail.asks = {}
      /\ \A d \in Drivers : NoMail.in[d] = <<>> /\ NoMail.out[d] = <<>>
  <2>1. <<>> \in Seq(DriverMessages) /\ <<>> \in Seq(Answers) OBVIOUS
  <2>2. QED BY <2>1 DEF NoMail, Boxes
<1>2. /\ setting \in [parks : SUBSET (Drivers \cup Requests), lost : BOOLEAN] /\ setting \in Settings
      /\ now \in 0 .. EndTick /\ updated = {} /\ mail = NoMail /\ posted = NoMail
      /\ asked = {} /\ served = {} /\ lost = {}
  BY ServiceAssumption DEF Init
<1>3. /\ ctl.queue = <<>> /\ ctl.subscribed = {} /\ ctl.available = {}
      /\ DOMAIN ctl.copy = {} /\ Books(ctl)
  <2> DEFINE f == [d \in {} |-> <<>>]
  <2>1. /\ DOMAIN ctl = {"queue", "subscribed", "available", "copy", "localTick", "aborted"}
        /\ ctl.queue = <<>> /\ ctl.subscribed = {} /\ ctl.available = {} /\ ctl.copy = f
        /\ ctl.localTick = 0
    BY DEF Init
  <2>2. DOMAIN f = {} /\ IsMap(f) BY DEF IsMap
  <2> HIDE DEF f
  <2>3. <<>> \in Seq(Requests) /\ 0 \in 0 .. Period BY ServiceAssumption
  <2>4. QED BY <2>1, <2>2, <2>3 DEF Books
<1>4. drv \in [Drivers -> DriverRecord] /\ \A d \in Drivers : drv[d] = Unloaded
  <2>1. Unloaded \in DriverRecord
    <3>1. <<>> \in Seq(Items) /\ <<>> \in Seq(DriverMessages) /\ {} \in SUBSET Requests OBVIOUS
    <3>2. QED BY <3>1 DEF Unloaded, DriverRecord
  <2>2. drv = [d \in Drivers |-> Unloaded] BY DEF Init, Unloaded
  <2>3. QED BY <2>1, <2>2
<1>5. Typed BY <1>1, <1>2, <1>3, <1>4 DEF Typed
<1>6. DriversGood
  <2>1. ASSUME NEW d \in Drivers PROVE Good(setting.parks, View(d))
    <3> DEFINE v == View(d)
    <3>1. /\ v.x = drv[d] /\ v.in = mail.in[d] /\ v.new = posted.in[d]
          /\ v.out = mail.out[d] /\ v.sent = posted.out[d]
          /\ v.known = (d \in DOMAIN ctl.copy) /\ v.free = (d \in ctl.available)
          /\ v.subscribed = (d \in ctl.subscribed) /\ v.updated = (d \in updated)
          /\ v.copy = IF d \in DOMAIN ctl.copy THEN ctl.copy[d] ELSE <<>>
      BY ViewFields DEF View
    <3> HIDE DEF v
    <3>2. /\ v.x = Unloaded /\ v.in = <<>> /\ v.new = <<>> /\ v.out = <<>> /\ v.sent = <<>>
          /\ ~v.known /\ v.copy = <<>> /\ ~v.free /\ ~v.subscribed /\ ~v.updated
      BY <1>1, <1>2, <1>3, <1>4, <3>1
    <3>3. QED BY <3>2, UnloadedGood DEF v
  <2>2. QED BY <2>1 DEF DriversGood
<1>7. InOrderOfUpdate BY <1>2 DEF InOrderOfUpdate
<1>8. InHand
  <2> DEFINE s == Where
  <2>1. /\ s.asks = mail.asks /\ s.posted = posted.asks /\ DOMAIN s.rest = {} /\ s.queue = ctl.queue
        /\ \A d \in Drivers : s.offers[d] = Offered(mail.out[d]) \cup Offered(posted.out[d])
        /\ \A d \in Drivers :
             s.orders[d] = IF drv[d].place = "deleted" THEN {} ELSE Ordered(drv[d].items)
        /\ s.served = served /\ s.lost = lost
    BY WhereFields DEF Where
  <2> HIDE DEF s
  <2>2. Offered(<<>>) = {} /\ Ordered(<<>>) = {} BY NoLegs DEF Offered
  <2>3. Unloaded.items = <<>> BY DEF Unloaded
  <2>4. /\ s.asks = {} /\ s.posted = {} /\ DOMAIN s.queue = {} /\ s.served = {} /\ s.lost = {}
        /\ \A d \in Drivers : s.offers[d] = {} /\ s.orders[d] = {}
    BY <1>1, <1>2, <1>3, <1>4, <2>1, <2>2, <2>3
  <2>5. \A r \in Requests : Nowhere(s, r) BY <2>1, <2>4 DEF Nowhere, At
  <2>6. QED BY <1>2, <2>5 DEF InHand, Accounted, s
<1>9. QED BY <1>5, <1>6, <1>7, <1>8 DEF OnCallInv

\* One step for each action.
LEMMA OnCallStep == OnCallInv /\ [Next]_vars => OnCallInv'
<1> SUFFICES ASSUME OnCallInv, [Next]_vars PROVE OnCallInv' OBVIOUS
<1>1. Typed /\ DriversGood /\ InOrderOfUpdate /\ InHand BY DEF OnCallInv
<1>2. mail.asks \subseteq Requests BY <1>1 DEF Typed, Boxes
<1>3. CASE NextTick
  <2>1. /\ Typed' /\ DriversGood'
        /\ mail' = posted /\ posted' = NoMail /\ ctl' = ctl /\ drv' = drv /\ updated' = {}
        /\ served' = served /\ lost' = lost /\ asked' = asked
        /\ mail.asks = {} /\ \A d \in Drivers : mail.out[d] = <<>>
    BY <1>1, <1>3, NextTickStep
  <2>2. InHand' BY <1>1, <2>1, NextTickInHand
  <2>3. InOrderOfUpdate' BY <2>1 DEF InOrderOfUpdate
  <2>4. QED BY <2>1, <2>2, <2>3 DEF OnCallInv
<1>4. CASE ControllerTick
  <2>1. Typed' /\ DriversGood' /\ InHand' BY <1>1, <1>4, ControllerTickStep
  <2>2. InOrderOfUpdate' BY <1>4 DEF InOrderOfUpdate, ControllerTick
  <2>3. QED BY <2>1, <2>2 DEF OnCallInv
<1>5. ASSUME NEW r \in Requests, Ask(r) PROVE OnCallInv'
  <2>1. /\ Typed' /\ DriversGood'
        /\ mail' = mail /\ ctl' = ctl /\ drv' = drv /\ served' = served /\ lost' = lost
        /\ posted'.asks = posted.asks \cup {r} /\ posted'.out = posted.out /\ updated' = updated
    BY <1>1, <1>5, AskStep
  <2>2. r \notin asked /\ asked' = asked \cup {r} BY <1>5 DEF Ask
  <2>3. InHand' BY <1>1, <2>1, <2>2, AskInHand
  <2>4. InOrderOfUpdate' BY <1>1, <2>1 DEF InOrderOfUpdate
  <2>5. QED BY <2>1, <2>3, <2>4 DEF OnCallInv
<1>6. ASSUME NEW r \in Requests, HandleRequest(r) PROVE OnCallInv'
  <2>1. /\ Typed' /\ DriversGood'
        /\ mail'.asks = mail.asks \ {r} /\ mail'.in = mail.in /\ mail'.out = mail.out
        /\ ctl'.queue = Append(ctl.queue, r) /\ posted' = posted /\ drv' = drv
        /\ served' = served /\ lost' = lost /\ updated' = updated
    BY <1>1, <1>6, HandleRequestStep
  <2>2. r \in mail.asks /\ asked' = asked BY <1>6 DEF HandleRequest
  <2>3. InHand' BY <1>1, <2>1, <2>2, HandleRequestInHand
  <2>4. InOrderOfUpdate' BY <1>1, <2>1, <2>2 DEF InOrderOfUpdate
  <2>5. QED BY <2>1, <2>3, <2>4 DEF OnCallInv
<1>7. ASSUME NEW d \in Drivers, Load(d) \/ Update(d) PROVE OnCallInv'
  <2>1. Typed' /\ DriversGood' /\ Drives(d) BY <1>1, <1>7, LoadStep, UpdateStep
  <2>2. InHand' BY <1>1, <2>1, DrivesInHand
  <2>3. mail' = mail /\ (Controller \in updated' => Controller \in updated)
    BY <2>1, ServiceAssumption DEF Drives
  <2>4. InOrderOfUpdate' BY <1>1, <2>3 DEF InOrderOfUpdate
  <2>5. QED BY <2>1, <2>2, <2>4 DEF OnCallInv
<1>8. ASSUME NEW d \in Drivers, NEW i \in DOMAIN mail.out[d], Receive(d, i) PROVE OnCallInv'
  <2>1. Typed' /\ DriversGood' BY <1>1, <1>8, ReceiveStep
  <2>2. InHand' BY <1>1, <1>8, ReceiveInHand
  <2>3. mail'.asks = mail.asks /\ mail'.in = mail.in /\ updated' = updated
    BY <1>1, <1>8, Receiving
  <2>4. InOrderOfUpdate' BY <1>1, <2>3 DEF InOrderOfUpdate
  <2>5. QED BY <2>1, <2>2, <2>4 DEF OnCallInv
<1>9. ASSUME NEW d \in Drivers, NEW i \in DOMAIN mail.in[d], Handle(d, i) PROVE OnCallInv'
  <2>1. Typed' /\ DriversGood' BY <1>1, <1>9, HandleStep
  <2>2. /\ Keeps(ctl, d, ctl') /\ posted'.asks = posted.asks
        /\ mail'.asks = mail.asks /\ mail'.out = mail.out /\ updated' = updated /\ drv' = drv
        /\ asked' = asked /\ served' = served /\ lost' = lost
    BY <1>1, <1>9, Handling
  <2>3. ctl'.queue = ctl.queue BY <2>2 DEF Keeps
  <2>4. \A e \in Drivers : Offered(posted'.out[e]) = Offered(posted.out[e])
    BY <1>1, <1>9, HandledOffers
  <2>5. InHand' BY <1>1, <2>2, <2>3, <2>4, HandleInHand
  <2>6. Controller \notin updated
    <3>1. mail.in[d] # <<>> BY <1>9
    <3>2. QED BY <1>1, <3>1 DEF InOrderOfUpdate
  <2>7. InOrderOfUpdate' BY <2>2, <2>6 DEF InOrderOfUpdate
  <2>8. QED BY <2>1, <2>5, <2>7 DEF OnCallInv
<1>10. CASE UNCHANGED vars
  BY <1>1, <1>10 DEF vars, OnCallInv, Typed, DriversGood, View, InOrderOfUpdate, InHand, Where,
                     Accounted
<1>11. QED BY <1>3, <1>4, <1>5, <1>6, <1>7, <1>8, <1>9, <1>10 DEF Next

\* Always, everything has its type, every driver and what the controller knows of it are good,
\* and every request that was asked for is in one place.
THEOREM OnCallInvariant == Spec => []OnCallInv
BY OnCallInit, OnCallStep, PTL DEF Spec

-----------------------------------------------------------------------------
(* The properties. *)

\* The parts of the invariant give the type invariant of the runs,
LEMMA OnCallTypeOK == OnCallInv => TypeOK
<1> SUFFICES ASSUME OnCallInv PROVE TypeOK OBVIOUS
<1>1. Typed /\ DriversGood /\ InHand BY DEF OnCallInv
<1>2. /\ setting \in Settings /\ now \in 0 .. EndTick /\ updated \subseteq Drivers \cup {Controller}
      /\ Books(ctl) /\ drv \in [Drivers -> DriverRecord] /\ asked \subseteq Requests
      /\ served \subseteq Requests /\ lost \subseteq Requests
  BY <1>1 DEF Typed
<1>3. ASSUME NEW m \in {mail, posted}
      PROVE  /\ m.asks \subseteq Requests
             /\ \A d \in Drivers :
                  /\ \A i \in DOMAIN m.in[d] :
                       m.in[d][i] \in {"SUBSCRIBE", "STATUS", "AVAILABLE", "SHIFT_END"}
                  /\ Offered(m.out[d]) \subseteq Requests
  <2>1. m \in Boxes BY <1>1 DEF Typed
  <2>2. ASSUME NEW d \in Drivers
        PROVE  /\ \A i \in DOMAIN m.in[d] : m.in[d][i] \in DriverMessages
               /\ Offered(m.out[d]) \subseteq Requests
    <3>1. m.in[d] \in Seq(DriverMessages) /\ m.out[d] \in Seq(Answers) BY <2>1 DEF Boxes
    <3>2. \A i \in DOMAIN m.in[d] : m.in[d][i] \in DriverMessages
      BY <3>1, LenProperties, ElementOfSeq
    <3>3. QED BY <3>1, <3>2, OfferedIn
  <2>3. m.asks \subseteq Requests BY <2>1 DEF Boxes
  <2>4. \A d \in Drivers : \A i \in DOMAIN m.in[d] :
          m.in[d][i] \in {"SUBSCRIBE", "STATUS", "AVAILABLE", "SHIFT_END"}
    BY <2>2 DEF DriverMessages
  <2>5. QED BY ONLY <2>2, <2>3, <2>4
<1>4. /\ \A i \in DOMAIN ctl.queue : ctl.queue[i] \in Requests
      /\ ctl.available \subseteq DOMAIN ctl.copy /\ ctl.subscribed \subseteq DOMAIN ctl.copy
      /\ ctl.localTick \in 0 .. Period
  <2>1. ctl.queue \in Seq(Requests) BY <1>2 DEF Books
  <2>2. \A i \in DOMAIN ctl.queue : ctl.queue[i] \in Requests BY <2>1, LenProperties, ElementOfSeq
  <2>3. QED BY <1>2, <2>2 DEF Books
<1>5. ASSUME NEW d \in Drivers
      PROVE  /\ drv[d].status \in {"DRIVE_START", "CRUISING", "DRIVE_ON_CALL",
                                   "DRIVE_WITH_PASSENGER", "DRIVE_TO_PARKING", "PARKED"}
             /\ drv[d].place \in {"unloaded", "road", "parking", "nowhere", "deleted"}
             /\ drv[d].prev \in {None, "CRUISE", "PICKUP", "DROPOFF", "PARK"}
             /\ Ordered(drv[d].items) \subseteq Requests /\ drv[d].passengers \subseteq Requests
             /\ drv[d].sent = <<>>
             /\ drv[d].place = "unloaded" => d \notin DOMAIN ctl.copy
  <2>1. /\ drv[d] \in DriverRecord /\ Good(setting.parks, View(d))
        /\ View(d).x = drv[d] /\ View(d).known = (d \in DOMAIN ctl.copy)
    BY <1>1, GoodView
  <2>2. Loaded(setting.parks, View(d)) BY <2>1 DEF Good
  <2>3. drv[d].sent = <<>> /\ (drv[d].place = "unloaded" => d \notin DOMAIN ctl.copy)
    BY <2>1, <2>2 DEF Loaded
  <2>4. Ordered(drv[d].items) \subseteq Requests BY <2>1, OrderedIn DEF DriverRecord
  <2>5. QED BY <2>1, <2>3, <2>4 DEF DriverRecord
<1>6. ASSUME NEW r \in served \cup lost PROVE r \in asked
  <2>1. At(Where, r, "served", None) \/ At(Where, r, "lost", None)
    BY <1>6, WhereFields DEF At, Where
  <2>2. ~Nowhere(Where, r) BY <2>1 DEF Nowhere
  <2>3. QED BY <1>1, <1>2, <2>2 DEF InHand, Accounted
<1>7. QED BY <1>2, <1>3, <1>4, <1>5, <1>6 DEF TypeOK

\* a driver that is not busy when it has neither a trip nor an offer of one,
LEMMA OnCallBusy ==
  ASSUME OnCallInv, NEW d \in Drivers, ~Job(View(d)), Offers(View(d)) = {}
  PROVE  ~Busy(d)
<1>1. Typed /\ DriversGood BY DEF OnCallInv
<1>2. /\ Good(setting.parks, View(d))
      /\ View(d).x = drv[d] /\ View(d).out = mail.out[d] /\ View(d).sent = posted.out[d]
  BY <1>1, GoodView
<1>3. Shape(setting.parks, drv[d]) BY <1>2 DEF Good, Loaded
<1>4. Ordered(drv[d].items) = {} BY <1>2 DEF Job
<1>5. drv[d].passengers = {} BY <1>2, <1>3, <1>4, JobShape
<1>6. Offered(mail.out[d]) = {} /\ Offered(posted.out[d]) = {} BY <1>2 DEF Offers
<1>7. QED BY <1>4, <1>5, <1>6 DEF Busy

\* hence who is available is not busy,
LEMMA OnCallFree == OnCallInv => FreeWhenAvailable
<1> SUFFICES ASSUME OnCallInv, NEW d \in ctl.available PROVE ~Busy(d)
  BY DEF FreeWhenAvailable
<1>1. Typed /\ DriversGood BY DEF OnCallInv
<1>2. d \in Drivers BY <1>1 DEF Typed, Books
<1>3. Good(setting.parks, View(d)) /\ View(d).free = (d \in ctl.available)
  BY <1>1, <1>2, GoodView
<1>4. OneJob(View(d)) /\ Awake(View(d)) BY <1>3 DEF Good, Awake
<1>5. ~Job(View(d)) /\ Offers(View(d)) = {} BY <1>4 DEF OneJob
<1>6. QED BY <1>2, <1>5, OnCallBusy

\* who ends has no trip,
LEMMA OnCallIdle == OnCallInv => IdleAtTheEnd
<1> SUFFICES ASSUME OnCallInv, NEW d \in Drivers, Dismissed(d)
             PROVE  ~Busy(d) /\ d \notin DOMAIN ctl.copy
  BY DEF IdleAtTheEnd
<1>1. Typed /\ DriversGood BY DEF OnCallInv
<1>2. /\ Good(setting.parks, View(d)) /\ View(d).x = drv[d]
      /\ View(d).out = mail.out[d] /\ View(d).sent = posted.out[d]
      /\ View(d).known = (d \in DOMAIN ctl.copy)
  BY <1>1, GoodView
<1>3. Gone(View(d)) BY <1>2 DEF Dismissed, Gone, LetGo
<1>4. Ending(View(d)) BY <1>2 DEF Good
<1>5. ~Job(View(d)) /\ Offers(View(d)) = {} /\ ~View(d).known BY <1>3, <1>4 DEF Ending
<1>6. QED BY <1>2, <1>5, OnCallBusy

\* the books of the controller agree,
LEMMA OnCallBooks == OnCallInv => BooksAgree
<1> SUFFICES ASSUME OnCallInv, NEW d \in Drivers, ~Deleted(d)
             PROVE  /\ d \in ctl.subscribed <=> d \in DOMAIN ctl.copy
                    /\ d \in ctl.available => ctl.copy[d] = <<>>
  BY DEF BooksAgree
<1>1. Typed /\ DriversGood BY DEF OnCallInv
<1>2. /\ Good(setting.parks, View(d)) /\ View(d).x = drv[d]
      /\ View(d).known = (d \in DOMAIN ctl.copy) /\ View(d).free = (d \in ctl.available)
      /\ View(d).subscribed = (d \in ctl.subscribed)
      /\ View(d).copy = IF d \in DOMAIN ctl.copy THEN ctl.copy[d] ELSE <<>>
  BY <1>1, GoodView
<1>3. /\ Ending(View(d)) /\ Copied(setting.parks, View(d))
  BY <1>2 DEF Good
<1>4. View(d).known <=> View(d).subscribed BY <1>2, <1>3 DEF Ending, Deleted
<1>5. ctl.available \subseteq DOMAIN ctl.copy BY <1>1 DEF Typed, Books
<1>6. d \in ctl.available => ctl.copy[d] = <<>> BY <1>2, <1>3, <1>5 DEF Copied
<1>7. QED BY <1>2, <1>4, <1>6

\* How many status messages there are, when there is at most one.
LEMMA StatusesAre ==
  ASSUME NEW s
  PROVE  /\ ~Has(s, "STATUS") => Statuses(s) = 0
         /\ Has(s, "STATUS") /\ Once(s, "STATUS") => Statuses(s) = 1
<1> DEFINE S == {i \in DOMAIN s : s[i] = "STATUS"}
<1>1. ASSUME ~Has(s, "STATUS") PROVE Cardinality(S) = 0
  <2>1. S = {} BY <1>1 DEF Has
  <2>2. QED BY <2>1, FS_EmptySet
<1>2. ASSUME Has(s, "STATUS"), Once(s, "STATUS") PROVE Cardinality(S) = 1
  <2>1. PICK i \in DOMAIN s : s[i] = "STATUS" BY <1>2 DEF Has
  <2>2. S = {i} BY <1>2, <2>1 DEF Once
  <2>3. QED BY <2>2, FS_Singleton
<1>3. QED BY <1>1, <1>2 DEF Statuses

\* and the copy of a schedule is the rest of it.
LEMMA OnCallCopy == OnCallInv => CopyIsRest
<1> SUFFICES ASSUME OnCallInv, NEW d \in DOMAIN ctl.copy, ~Deleted(d), Ordered(drv[d].items) # {}
             PROVE  SubSeq(ctl.copy[d], Ahead(d) + 1, Len(ctl.copy[d])) = Tail(drv[d].items)
  BY DEF CopyIsRest
<1> DEFINE p == setting.parks
           v == View(d)
           c == ctl.copy[d]
<1>1. Typed /\ DriversGood BY DEF OnCallInv
<1>2. d \in Drivers /\ c \in Seq(Items) BY <1>1 DEF Typed, Books
<1>3. /\ Good(p, v) /\ v.x = drv[d] /\ v.in = mail.in[d]
      /\ v.new = posted.in[d] /\ v.known /\ v.copy = c
  BY <1>1, <1>2, GoodView
<1> HIDE DEF p, v
<1>4. Shape(p, drv[d]) /\ Copied(p, v) BY <1>3 DEF Good, Loaded
<1>5. PICK r \in Requests : drv[d].items = Legs(p, r) \/ drv[d].items = Tail(Legs(p, r))
  <2>1. Ordered(drv[d].items) # {} => \E r \in Requests :
          /\ Ordered(drv[d].items) = {r}
          /\ drv[d].items = Legs(p, r) \/ drv[d].items = Tail(Legs(p, r))
    BY <1>3, <1>4, JobShape
  <2>2. QED BY ONLY <2>1, Ordered(drv[d].items) # {}
<1>6. drv[d].place # "deleted" BY DEF Deleted
<1>7. /\ drv[d].items = Legs(p, r) =>
           c = Tail(Legs(p, r)) /\ ~Has(mail.in[d], "STATUS") /\ ~Has(posted.in[d], "STATUS")
      /\ drv[d].items = Tail(Legs(p, r)) =>
           \/ c = Tail(Legs(p, r)) /\ Once(mail.in[d], "STATUS") /\ Once(posted.in[d], "STATUS")
              /\ (Has(mail.in[d], "STATUS") <=> ~Has(posted.in[d], "STATUS"))
           \/ c = Tail(Tail(Legs(p, r)))
              /\ ~Has(mail.in[d], "STATUS") /\ ~Has(posted.in[d], "STATUS")
  BY <1>3, <1>4, <1>6 DEF Copied
<1> HIDE DEF c
<1>8. ASSUME ~Has(mail.in[d], "STATUS"), ~Has(posted.in[d], "STATUS"), c = Tail(drv[d].items)
      PROVE  SubSeq(c, Ahead(d) + 1, Len(c)) = Tail(drv[d].items)
  <2>1. Statuses(mail.in[d]) = 0 /\ Statuses(posted.in[d]) = 0 BY <1>8, StatusesAre
  <2>2. Ahead(d) + 1 = 1 BY <2>1 DEF Ahead
  <2>3. SubSeq(c, 1, Len(c)) = c BY <1>2, SubSeqFull
  <2>4. QED BY <1>8, <2>2, <2>3
<1>9. ASSUME Once(mail.in[d], "STATUS"), Once(posted.in[d], "STATUS"),
             Has(mail.in[d], "STATUS") <=> ~Has(posted.in[d], "STATUS"),
             c = drv[d].items, c # <<>>
      PROVE  SubSeq(c, Ahead(d) + 1, Len(c)) = Tail(drv[d].items)
  <2>1. \/ Statuses(mail.in[d]) = 0 /\ Statuses(posted.in[d]) = 1
        \/ Statuses(mail.in[d]) = 1 /\ Statuses(posted.in[d]) = 0
    BY <1>9, StatusesAre
  <2>2. Ahead(d) + 1 = 2 BY <2>1 DEF Ahead
  <2>3. SubSeq(c, 2, Len(c)) = Tail(c) BY <1>2, <1>9, TailIsSubSeq
  <2>4. QED BY <1>9, <2>2, <2>3
<1>10. Tail(Legs(p, r)) # <<>> BY <1>3, LegsFacts
<1>11. SubSeq(c, Ahead(d) + 1, Len(c)) = Tail(drv[d].items)
  <2>1. CASE drv[d].items = Legs(p, r) BY <1>7, <1>8, <2>1
  <2>2. CASE drv[d].items = Tail(Legs(p, r)) BY <1>7, <1>8, <1>9, <1>10, <2>2
  <2>3. QED BY <1>5, <2>1, <2>2
<1>12. QED BY <1>11 DEF c

\* The hands of a request are the marks of its places.
Mark(k, i) ==
  CASE k = "asks"   -> <<"asked", 1>>
    [] k = "posted" -> <<"asked", 2>>
    [] k = "queue"  -> <<"queue", i>>
    [] k = "offers" -> <<"proposed", i>>
    [] k = "orders" -> <<"ordered", i>>
    [] k = "served" -> <<"over", 1>>
    [] k = "lost"   -> <<"over", 2>>

\* The hands that a request is in, which the run counts, are its places.
LEMMA HandsAre ==
  ASSUME NEW r, NEW h
  PROVE  h \in Hands(r) <=> \E k, i : At(Where, r, k, i) /\ h = Mark(k, i)
<1> DEFINE A == {<<"asked", i>> : i \in {i \in 1 .. 2 : r \in <<mail, posted>>[i].asks}}
           Q == {<<"queue", i>> : i \in {i \in DOMAIN ctl.queue : ctl.queue[i] = r}}
           P == {<<"proposed", d>> : d \in {d \in Drivers :
                                       r \in Offered(mail.out[d]) \cup Offered(posted.out[d])}}
           O == {<<"ordered", d>> : d \in {d \in Drivers :
                                       ~Deleted(d) /\ r \in Ordered(drv[d].items)}}
           E == {<<"over", i>> : i \in {i \in 1 .. 2 : r \in <<served, lost>>[i]}}
           w == Where
<1>1. Hands(r) = A \cup Q \cup P \cup O \cup E BY DEF Hands
<1>2. /\ w.asks = mail.asks /\ w.posted = posted.asks /\ DOMAIN w.rest = {} /\ w.queue = ctl.queue
      /\ \A d \in Drivers : w.offers[d] = Offered(mail.out[d]) \cup Offered(posted.out[d])
      /\ \A d \in Drivers :
           w.orders[d] = IF drv[d].place = "deleted" THEN {} ELSE Ordered(drv[d].items)
      /\ w.served = served /\ w.lost = lost
  BY WhereFields DEF Where
<1> HIDE DEF w
<1>3. \A i : /\ At(w, r, "asks", i) <=> i = None /\ r \in w.asks
             /\ At(w, r, "posted", i) <=> i = None /\ r \in w.posted
             /\ At(w, r, "rest", i) <=> i \in DOMAIN w.rest /\ w.rest[i] = r
             /\ At(w, r, "queue", i) <=> i \in DOMAIN w.queue /\ w.queue[i] = r
             /\ At(w, r, "offers", i) <=> i \in Drivers /\ r \in w.offers[i]
             /\ At(w, r, "orders", i) <=> i \in Drivers /\ r \in w.orders[i]
             /\ At(w, r, "served", i) <=> i = None /\ r \in w.served
             /\ At(w, r, "lost", i) <=> i = None /\ r \in w.lost
  BY Kinds
<1>4. \A k, i : At(w, r, k, i) => k \in Fields BY DEF At, Fields
<1>5. h \in A <=> \/ r \in mail.asks /\ h = <<"asked", 1>>
                  \/ r \in posted.asks /\ h = <<"asked", 2>>
  <2>1. \A i : i \in 1 .. 2 <=> i = 1 \/ i = 2 OBVIOUS
  <2>2. <<mail, posted>>[1] = mail /\ <<mail, posted>>[2] = posted OBVIOUS
  <2>3. QED BY <2>1, <2>2
<1>6. h \in Q <=> \E i \in DOMAIN ctl.queue : ctl.queue[i] = r /\ h = <<"queue", i>>
  OBVIOUS
<1>7. h \in P <=> \E d \in Drivers : r \in Offered(mail.out[d]) \cup Offered(posted.out[d])
                                     /\ h = <<"proposed", d>>
  OBVIOUS
<1>8. h \in O <=> \E d \in Drivers : ~Deleted(d) /\ r \in Ordered(drv[d].items)
                                     /\ h = <<"ordered", d>>
  OBVIOUS
<1>9. h \in E <=> (r \in served /\ h = <<"over", 1>>) \/ (r \in lost /\ h = <<"over", 2>>)
  <2>1. \A i : i \in 1 .. 2 <=> i = 1 \/ i = 2 OBVIOUS
  <2>2. <<served, lost>>[1] = served /\ <<served, lost>>[2] = lost OBVIOUS
  <2>3. QED BY <2>1, <2>2
<1> HIDE DEF A, Q, P, O, E
<1>10. \A i : /\ Mark("asks", i) = <<"asked", 1>> /\ Mark("posted", i) = <<"asked", 2>>
              /\ Mark("queue", i) = <<"queue", i>> /\ Mark("offers", i) = <<"proposed", i>>
              /\ Mark("orders", i) = <<"ordered", i>>
              /\ Mark("served", i) = <<"over", 1>> /\ Mark("lost", i) = <<"over", 2>>
  BY DEF Mark
<1>11. h \in A <=> \E k \in {"asks", "posted"} : \E i : At(w, r, k, i) /\ h = Mark(k, i)
  BY ONLY <1>2, <1>3, <1>5, <1>10
<1>12. h \in Q <=> \E i : At(w, r, "queue", i) /\ h = Mark("queue", i)
  BY ONLY <1>2, <1>3, <1>6, <1>10
<1>13. h \in P <=> \E i : At(w, r, "offers", i) /\ h = Mark("offers", i)
  BY ONLY <1>2, <1>3, <1>7, <1>10
<1>14. h \in O <=> \E i : At(w, r, "orders", i) /\ h = Mark("orders", i)
  <2>1. \A d \in Drivers : r \in w.orders[d] <=> ~Deleted(d) /\ r \in Ordered(drv[d].items)
    BY <1>2 DEF Deleted
  <2>2. QED BY ONLY <1>3, <1>8, <1>10, <2>1
<1>15. h \in E <=> \E k \in {"served", "lost"} : \E i : At(w, r, k, i) /\ h = Mark(k, i)
  <2>1. (\E i : At(w, r, "served", i) /\ h = Mark("served", i)) <=> r \in served /\ h = <<"over", 1>>
    BY ONLY <1>2, <1>3, <1>10
  <2>2. (\E i : At(w, r, "lost", i) /\ h = Mark("lost", i)) <=> r \in lost /\ h = <<"over", 2>>
    BY ONLY <1>2, <1>3, <1>10
  <2>3. QED BY ONLY <1>9, <2>1, <2>2
<1>16. \A i : ~At(w, r, "rest", i) BY <1>2, <1>3
<1>17. (\E k, i : At(w, r, k, i) /\ h = Mark(k, i)) <=> h \in A \cup Q \cup P \cup O \cup E
  <2>1. ASSUME NEW k, NEW i, At(w, r, k, i), h = Mark(k, i)
        PROVE  h \in A \cup Q \cup P \cup O \cup E
    <3>1. k \in Fields /\ k # "rest" BY <1>4, <1>16, <2>1
    <3>2. QED BY ONLY <1>11, <1>12, <1>13, <1>14, <1>15, <2>1, <3>1 DEF Fields
  <2>2. h \in A \cup Q \cup P \cup O \cup E => \E k, i : At(w, r, k, i) /\ h = Mark(k, i)
    BY ONLY <1>11, <1>12, <1>13, <1>14, <1>15
  <2>3. QED BY <2>1, <2>2
<1>18. QED BY <1>1, <1>17 DEF w

\* A request in one place is in one hand.
LEMMA OnCallHands == OnCallInv => OneHand
<1> SUFFICES ASSUME OnCallInv, NEW r \in asked PROVE Cardinality(Hands(r)) = 1
  BY DEF OneHand
<1>1. r \in Requests /\ Alone(Where, r)
  BY DEF OnCallInv, Typed, InHand, Accounted
<1>2. PICK k, i : At(Where, r, k, i) /\ \A l, j : At(Where, r, l, j) => l = k /\ j = i
  BY <1>1 DEF Alone
<1>3. \A h : h \in Hands(r) <=> h = Mark(k, i) BY ONLY <1>2, HandsAre
<1>4. Hands(r) = {Mark(k, i)} BY <1>3
<1>5. QED BY <1>4, FS_Singleton

-----------------------------------------------------------------------------
(* The life of a request. *)

Unasked == [is |-> "unasked", by |-> None]

\* What a place is in the life of a request.
Stage(p, x, r, k, i) ==
  CASE k \in {"asks", "posted"} -> [is |-> "sent", by |-> None]
    [] k = "queue"  -> [is |-> "queued", by |-> None]
    [] k = "offers" -> [is |-> "proposed", by |-> i]
    [] k = "orders" -> [is |-> IF x[i].items = Legs(p, r) THEN "awaited" ELSE "aboard", by |-> i]
    [] k = "served" -> [is |-> "done", by |-> None]
    [] k = "lost"   -> [is |-> "lost", by |-> None]

Lives ==
  \A r \in Requests :
    /\ r \notin asked => TripOf(r) = Unasked
    /\ \A k, i : At(Where, r, k, i) => TripOf(r) = Stage(setting.parks, drv, r, k, i)

\* Who is aboard a driver with a trip, and whom it is still to pick up.
LEMMA Carries ==
  ASSUME NEW p, NEW x, Shape(p, x), NEW r \in Requests, r \in Ordered(x.items)
  PROVE  \/ x.items = Legs(p, r) /\ r \in PickUps(x.items) /\ r \notin x.passengers
         \/ x.items = Tail(Legs(p, r)) /\ r \notin PickUps(x.items) /\ r \in x.passengers
            /\ x.items # Legs(p, r)
<1>1. Ordered(x.items) # {} OBVIOUS
<1>2. x.items \notin {<<>>, <<Cruising>>, <<Parking>>} BY <1>1, NoLegs
<1>3. ASSUME NEW q \in Requests, x.items = Legs(p, q), x.passengers = {}
      PROVE  x.items = Legs(p, r) /\ r \in PickUps(x.items) /\ r \notin x.passengers
  <2>1. q = r BY <1>3, LegsFacts
  <2>2. x.items # <<>> /\ x.items[1] = [kind |-> "PICKUP", request |-> r]
    BY <1>3, <2>1, LegsAre
  <2>3. 1 \in DOMAIN x.items BY <1>3, <2>1, LegsAre
  <2>4. r \in PickUps(x.items) BY <2>2, <2>3 DEF PickUps
  <2>5. QED BY <1>3, <2>1, <2>4
<1>4. ASSUME NEW q \in Requests, x.items = Tail(Legs(p, q)), x.passengers = {q}
      PROVE  /\ x.items = Tail(Legs(p, r)) /\ r \notin PickUps(x.items) /\ r \in x.passengers
             /\ x.items # Legs(p, r)
  <2>1. q = r BY <1>4, LegsFacts
  <2> DEFINE off == [kind |-> "DROPOFF", request |-> r]
  <2>2. x.items = IF r \in p THEN <<off, Parking>> ELSE <<off>> BY <1>4, <2>1, LegsAre
  <2>3. off.kind # "PICKUP" /\ Parking.kind # "PICKUP" BY DEF Parking
  <2> HIDE DEF off
  <2>4. PickUps(<<off, Parking>>) = {} /\ PickUps(<<off>>) = {} BY <2>3 DEF PickUps
  <2>5. x.items # Legs(p, r) BY <1>4, <2>1, LegsDiffer
  <2>6. QED BY <1>4, <2>1, <2>2, <2>4, <2>5
<1>5. QED BY <1>2, <1>3, <1>4 DEF Shape

\* Every request is at a stage of its life that goes with the place where it is.
LEMMA OnCallLives == OnCallInv => Lives
<1> SUFFICES ASSUME OnCallInv, NEW r \in Requests
             PROVE  /\ r \notin asked => TripOf(r) = Unasked
                    /\ \A k, i : At(Where, r, k, i) =>
                         TripOf(r) = Stage(setting.parks, drv, r, k, i)
  BY DEF Lives
<1>1. Typed /\ DriversGood /\ InHand BY DEF OnCallInv
<1> DEFINE w == Where
           there == {d \in Drivers : ~Deleted(d) /\ r \in Ordered(drv[d].items)}
           proposed == {d \in Drivers : r \in Offered(mail.out[d]) \cup Offered(posted.out[d])}
           awaited == {d \in there : r \in PickUps(drv[d].items) \ drv[d].passengers}
           aboard == {d \in there : r \in drv[d].passengers \ PickUps(drv[d].items)}
           queued == \E j \in DOMAIN ctl.queue : ctl.queue[j] = r
<1>2. /\ w.asks = mail.asks /\ w.posted = posted.asks /\ DOMAIN w.rest = {}
      /\ w.queue = ctl.queue
      /\ \A d \in Drivers : w.offers[d] = Offered(mail.out[d]) \cup Offered(posted.out[d])
      /\ \A d \in Drivers :
           w.orders[d] = IF drv[d].place = "deleted" THEN {} ELSE Ordered(drv[d].items)
      /\ w.served = served /\ w.lost = lost
  BY WhereFields DEF Where
<1> HIDE DEF w
<1>3. \A j : /\ At(w, r, "asks", j) <=> j = None /\ r \in mail.asks
             /\ At(w, r, "posted", j) <=> j = None /\ r \in posted.asks
             /\ ~At(w, r, "rest", j)
             /\ At(w, r, "queue", j) <=> j \in DOMAIN ctl.queue /\ ctl.queue[j] = r
             /\ At(w, r, "offers", j) <=> j \in proposed
             /\ At(w, r, "orders", j) <=> j \in there
             /\ At(w, r, "served", j) <=> j = None /\ r \in served
             /\ At(w, r, "lost", j) <=> j = None /\ r \in lost
  <2>1. \A j : /\ At(w, r, "asks", j) <=> j = None /\ r \in w.asks
               /\ At(w, r, "posted", j) <=> j = None /\ r \in w.posted
               /\ At(w, r, "rest", j) <=> j \in DOMAIN w.rest /\ w.rest[j] = r
               /\ At(w, r, "queue", j) <=> j \in DOMAIN w.queue /\ w.queue[j] = r
               /\ At(w, r, "offers", j) <=> j \in Drivers /\ r \in w.offers[j]
               /\ At(w, r, "orders", j) <=> j \in Drivers /\ r \in w.orders[j]
               /\ At(w, r, "served", j) <=> j = None /\ r \in w.served
               /\ At(w, r, "lost", j) <=> j = None /\ r \in w.lost
    BY Kinds
  <2>2. \A j : j \in proposed <=> j \in Drivers /\ r \in w.offers[j] BY <1>2
  <2>3. \A j : j \in there <=> j \in Drivers /\ r \in w.orders[j] BY <1>2 DEF Deleted
  <2> HIDE DEF proposed, there
  <2>4. QED BY ONLY <1>2, <2>1, <2>2, <2>3
<1>4. TripOf(r) = CASE r \notin asked -> [is |-> "unasked", by |-> None]
                   [] r \in served -> [is |-> "done", by |-> None]
                   [] r \in lost -> [is |-> "lost", by |-> None]
                   [] r \in mail.asks \cup posted.asks -> [is |-> "sent", by |-> None]
                   [] queued -> [is |-> "queued", by |-> None]
                   [] proposed # {} -> [is |-> "proposed", by |-> CHOOSE d \in proposed : TRUE]
                   [] awaited # {} -> [is |-> "awaited", by |-> CHOOSE d \in awaited : TRUE]
                   [] aboard # {} -> [is |-> "aboard", by |-> CHOOSE d \in aboard : TRUE]
                   [] OTHER -> [is |-> "forgotten", by |-> None]
  BY DEF TripOf
<1> HIDE DEF queued
<1>5. r \notin asked => TripOf(r) = Unasked
  <2> SUFFICES ASSUME r \notin asked PROVE TripOf(r) = Unasked OBVIOUS
  <2>1. \A l, j : ~At(w, r, l, j) BY <1>1 DEF InHand, Accounted, Nowhere, w
  <2> HIDE DEF there, proposed, awaited, aboard
  <2>2. r \notin served /\ r \notin lost /\ r \notin mail.asks \cup posted.asks
    BY ONLY <1>3, <2>1
  <2>3. ~queued BY <1>3, <2>1 DEF queued
  <2>4. proposed = {} /\ there = {}
    <3>1. \A j : j \notin proposed /\ j \notin there BY ONLY <1>3, <2>1
    <3>2. QED BY <3>1
  <2>5. awaited = {} /\ aboard = {} BY <2>4 DEF awaited, aboard
  <2>6. QED BY <1>4, <2>2, <2>3, <2>4, <2>5 DEF Unasked
<1>6. ASSUME NEW k, NEW i, At(Where, r, k, i)
      PROVE  TripOf(r) = Stage(setting.parks, drv, r, k, i)
  <2>1. r \in asked /\ At(w, r, k, i) /\ \A l, j : At(w, r, l, j) => l = k /\ j = i
    <3> USE DEF w
    <3>1. ~Nowhere(w, r) BY <1>6 DEF Nowhere
    <3>2. r \in asked /\ Alone(w, r) BY <1>1, <3>1 DEF InHand, Accounted
    <3>3. QED BY <1>6, <3>2 DEF Alone
  <2>2. k \in Fields BY <2>1 DEF At, Fields
  <2>3. k = "orders" =>
          /\ there = {i} /\ i \in Drivers
          /\ awaited = IF drv[i].items = Legs(setting.parks, r) THEN {i} ELSE {}
          /\ aboard = IF drv[i].items = Legs(setting.parks, r) THEN {} ELSE {i}
    <3> SUFFICES ASSUME k = "orders"
                 PROVE  /\ there = {i} /\ i \in Drivers
                        /\ awaited = IF drv[i].items = Legs(setting.parks, r) THEN {i} ELSE {}
                        /\ aboard = IF drv[i].items = Legs(setting.parks, r) THEN {} ELSE {i}
      OBVIOUS
    <3>1. there = {i} BY <2>1, <1>3
    <3>2. i \in Drivers /\ r \in Ordered(drv[i].items) BY <3>1
    <3>3. Shape(setting.parks, drv[i])
      BY <1>1, <3>2, GoodView DEF Good, Loaded
    <3>4. \/ /\ drv[i].items = Legs(setting.parks, r)
             /\ r \in PickUps(drv[i].items) /\ r \notin drv[i].passengers
          \/ /\ r \notin PickUps(drv[i].items) /\ r \in drv[i].passengers
             /\ drv[i].items # Legs(setting.parks, r)
      BY <3>2, <3>3, Carries
    <3>5. QED BY <3>1, <3>2, <3>4
  <2>4. k = "offers" => proposed = {i} BY <2>1, <1>3
  <2>5. /\ r \in served <=> k = "served"
        /\ r \in lost <=> k = "lost"
        /\ r \in mail.asks \cup posted.asks <=> k \in {"asks", "posted"}
        /\ queued <=> k = "queue"
        /\ proposed # {} <=> k = "offers"
        /\ there # {} <=> k = "orders"
    <3> HIDE DEF proposed, there
    <3>1. (r \in served => k = "served") /\ (r \in lost => k = "lost")
          /\ (r \in mail.asks \cup posted.asks => k \in {"asks", "posted"})
      BY <2>1, <1>3
    <3>2. (proposed # {} => k = "offers") /\ (there # {} => k = "orders")
      BY <2>1, <1>3
    <3>3. queued => k = "queue" BY <2>1, <1>3 DEF queued
    <3>4. k = "lost" => r \in lost BY <2>1, <1>3
    <3>5. k = "served" => r \in served BY <2>1, <1>3
    <3>6. k \in {"asks", "posted"} => r \in mail.asks \cup posted.asks BY <2>1, <1>3
    <3>7. k = "queue" => queued BY <2>1, <1>3 DEF queued
    <3>8. k = "offers" => proposed # {} BY <2>1, <1>3
    <3>9. k = "orders" => there # {} BY <2>1, <1>3
    <3>10. QED BY <3>1, <3>2, <3>3, <3>4, <3>5, <3>6, <3>7, <3>8, <3>9
  <2>6. (CHOOSE d \in {i} : TRUE) = i OBVIOUS
  <2>7. there = {} => awaited = {} /\ aboard = {} OBVIOUS
  <2> HIDE DEF there, proposed, awaited, aboard, queued
  <2>8. QED
    BY <2>1, <1>3, <2>2, <1>4, <2>3, <2>4, <2>5, <2>6, <2>7 DEF Stage, Fields
<1>7. QED BY <1>5, <1>6

-----------------------------------------------------------------------------
(* The requests live as TripLife.tla says. *)

\* A step of the life of a request, or none.
Moves(c, e) ==
  \/ e = c
  \/ Life!Send(c, e) \/ Life!Queue(c, e) \/ Life!Propose(c, e) \/ Life!Accept(c, e)
  \/ Life!PickUp(c, e) \/ Life!DropOff(c, e) \/ Life!Lose(c, e)

\* The record of places of the next state.
After == WhereOf(mail', posted', ctl'.queue, drv', served', lost')

\* The places of a request in a state and in the next.
LEMMA PlacesBoth ==
  ASSUME NEW r, NEW i
  PROVE  /\ At(Where, r, "asks", i) <=> i = None /\ r \in mail.asks
         /\ At(After, r, "asks", i) <=> i = None /\ r \in mail'.asks
         /\ At(Where, r, "posted", i) <=> i = None /\ r \in posted.asks
         /\ At(After, r, "posted", i) <=> i = None /\ r \in posted'.asks
         /\ ~At(Where, r, "rest", i) /\ ~At(After, r, "rest", i)
         /\ At(Where, r, "queue", i) <=> i \in DOMAIN ctl.queue /\ ctl.queue[i] = r
         /\ At(After, r, "queue", i) <=> i \in DOMAIN ctl'.queue /\ ctl'.queue[i] = r
         /\ At(Where, r, "offers", i) <=>
              i \in Drivers /\ r \in Offered(mail.out[i]) \cup Offered(posted.out[i])
         /\ At(After, r, "offers", i) <=>
              i \in Drivers /\ r \in Offered(mail'.out[i]) \cup Offered(posted'.out[i])
         /\ At(Where, r, "orders", i) <=>
              i \in Drivers /\ drv[i].place # "deleted" /\ r \in Ordered(drv[i].items)
         /\ At(After, r, "orders", i) <=>
              i \in Drivers /\ drv'[i].place # "deleted" /\ r \in Ordered(drv'[i].items)
         /\ At(Where, r, "served", i) <=> i = None /\ r \in served
         /\ At(After, r, "served", i) <=> i = None /\ r \in served'
         /\ At(Where, r, "lost", i) <=> i = None /\ r \in lost
         /\ At(After, r, "lost", i) <=> i = None /\ r \in lost'
<1> DEFINE s == Where
           t == After
<1>1. /\ s.asks = mail.asks /\ s.posted = posted.asks /\ DOMAIN s.rest = {}
      /\ s.queue = ctl.queue
      /\ \A d \in Drivers : s.offers[d] = Offered(mail.out[d]) \cup Offered(posted.out[d])
      /\ \A d \in Drivers :
           s.orders[d] = IF drv[d].place = "deleted" THEN {} ELSE Ordered(drv[d].items)
      /\ s.served = served /\ s.lost = lost
  BY WhereFields DEF Where
<1>2. /\ t.asks = mail'.asks /\ t.posted = posted'.asks /\ DOMAIN t.rest = {}
      /\ t.queue = ctl'.queue
      /\ \A d \in Drivers : t.offers[d] = Offered(mail'.out[d]) \cup Offered(posted'.out[d])
      /\ \A d \in Drivers :
           t.orders[d] = IF drv'[d].place = "deleted" THEN {} ELSE Ordered(drv'[d].items)
      /\ t.served = served' /\ t.lost = lost'
  BY WhereFields DEF After
<1> HIDE DEF s, t
<1>3. /\ At(s, r, "asks", i) <=> i = None /\ r \in s.asks
      /\ At(s, r, "posted", i) <=> i = None /\ r \in s.posted
      /\ At(s, r, "rest", i) <=> i \in DOMAIN s.rest /\ s.rest[i] = r
      /\ At(s, r, "queue", i) <=> i \in DOMAIN s.queue /\ s.queue[i] = r
      /\ At(s, r, "offers", i) <=> i \in Drivers /\ r \in s.offers[i]
      /\ At(s, r, "orders", i) <=> i \in Drivers /\ r \in s.orders[i]
      /\ At(s, r, "served", i) <=> i = None /\ r \in s.served
      /\ At(s, r, "lost", i) <=> i = None /\ r \in s.lost
  BY Kinds
<1>4. /\ At(t, r, "asks", i) <=> i = None /\ r \in t.asks
      /\ At(t, r, "posted", i) <=> i = None /\ r \in t.posted
      /\ At(t, r, "rest", i) <=> i \in DOMAIN t.rest /\ t.rest[i] = r
      /\ At(t, r, "queue", i) <=> i \in DOMAIN t.queue /\ t.queue[i] = r
      /\ At(t, r, "offers", i) <=> i \in Drivers /\ r \in t.offers[i]
      /\ At(t, r, "orders", i) <=> i \in Drivers /\ r \in t.orders[i]
      /\ At(t, r, "served", i) <=> i = None /\ r \in t.served
      /\ At(t, r, "lost", i) <=> i = None /\ r \in t.lost
  BY Kinds
<1>5. /\ At(s, r, "asks", i) <=> i = None /\ r \in mail.asks
      /\ At(s, r, "posted", i) <=> i = None /\ r \in posted.asks
      /\ ~At(s, r, "rest", i)
      /\ At(s, r, "queue", i) <=> i \in DOMAIN ctl.queue /\ ctl.queue[i] = r
      /\ At(s, r, "offers", i) <=>
           i \in Drivers /\ r \in Offered(mail.out[i]) \cup Offered(posted.out[i])
      /\ At(s, r, "orders", i) <=>
           i \in Drivers /\ drv[i].place # "deleted" /\ r \in Ordered(drv[i].items)
      /\ At(s, r, "served", i) <=> i = None /\ r \in served
      /\ At(s, r, "lost", i) <=> i = None /\ r \in lost
  BY ONLY <1>1, <1>3
<1>6. /\ At(t, r, "asks", i) <=> i = None /\ r \in mail'.asks
      /\ At(t, r, "posted", i) <=> i = None /\ r \in posted'.asks
      /\ ~At(t, r, "rest", i)
      /\ At(t, r, "queue", i) <=> i \in DOMAIN ctl'.queue /\ ctl'.queue[i] = r
      /\ At(t, r, "offers", i) <=>
           i \in Drivers /\ r \in Offered(mail'.out[i]) \cup Offered(posted'.out[i])
      /\ At(t, r, "orders", i) <=>
           i \in Drivers /\ drv'[i].place # "deleted" /\ r \in Ordered(drv'[i].items)
      /\ At(t, r, "served", i) <=> i = None /\ r \in served'
      /\ At(t, r, "lost", i) <=> i = None /\ r \in lost'
  BY ONLY <1>2, <1>4
<1>7. QED BY <1>5, <1>6 DEF s, t

\* Each request keeps to its life, in the next state as well.
LEMMA LivesNext == OnCallInv' => Lives'
BY OnCallLives, PTL

\* A place from which the life of a request goes on in the next state.
Leads(r, k, i) ==
  \E l, j : /\ At(After, r, l, j)
            /\ Moves(Stage(setting.parks, drv, r, k, i), Stage(setting.parks, drv', r, l, j))

\* If it goes on from wherever a request is, and none is asked for, then its life does.
LEMMA LifeGoesOn ==
  ASSUME OnCallInv, OnCallInv', setting' = setting, NEW r \in Requests,
         r \notin asked => r \notin asked', \A k, i : At(Where, r, k, i) => Leads(r, k, i)
  PROVE  Moves(TripOf(r), TripOf(r)')
<1>1. /\ r \notin asked => TripOf(r) = Unasked
      /\ \A k, i : At(Where, r, k, i) => TripOf(r) = Stage(setting.parks, drv, r, k, i)
  BY OnCallLives DEF Lives
<1>2. /\ r \notin asked' => TripOf(r)' = Unasked
      /\ \A k, i : At(After, r, k, i) => TripOf(r)' = Stage(setting.parks, drv', r, k, i)
  BY LivesNext DEF Lives, Where, After, Unasked
<1>3. CASE r \notin asked BY <1>1, <1>2, <1>3 DEF Moves
<1>4. CASE r \in asked
  <2>1. Alone(Where, r) BY <1>4 DEF OnCallInv, InHand, Accounted
  <2>2. PICK k, i : At(Where, r, k, i) BY <2>1 DEF Alone
  <2>3. PICK l, j : /\ At(After, r, l, j)
                    /\ Moves(Stage(setting.parks, drv, r, k, i),
                             Stage(setting.parks, drv', r, l, j))
    BY <2>2 DEF Leads
  <2>4. TripOf(r) = Stage(setting.parks, drv, r, k, i) BY <1>1, <2>2
  <2>5. TripOf(r)' = Stage(setting.parks, drv', r, l, j) BY <1>2, <2>3
  <2>6. QED BY <2>3, <2>4, <2>5
<1>5. QED BY <1>3, <1>4

\* A request that stays in its place, with a driver whose schedule stays too.
LEMMA LeadsOn ==
  ASSUME NEW r, NEW k, NEW i, At(Where, r, k, i), At(After, r, k, i),
         k = "orders" => drv'[i].items = drv[i].items
  PROVE  Leads(r, k, i)
<1>1. k \in Fields BY ONLY At(Where, r, k, i) DEF At, Fields
<1>2. k # "rest"
  <2>1. ~At(Where, r, "rest", i) BY PlacesBoth
  <2>2. QED BY ONLY <2>1, At(Where, r, k, i)
<1>3. Stage(setting.parks, drv, r, k, i) = Stage(setting.parks, drv', r, k, i)
  BY <1>1, <1>2 DEF Stage, Fields
<1>4. QED BY <1>3 DEF Leads, Moves

-----------------------------------------------------------------------------
(* The steps, in the lives of the requests. *)

\* A traveller asks.
LEMMA AskLife ==
  ASSUME OnCallInv, OnCallInv', NEW q \in Requests, Ask(q), NEW r \in Requests
  PROVE  Moves(TripOf(r), TripOf(r)')
<1>1. /\ mail' = mail /\ ctl' = ctl /\ drv' = drv /\ served' = served /\ lost' = lost
      /\ posted'.asks = posted.asks \cup {q} /\ posted'.out = posted.out
      /\ q \notin asked /\ asked' = asked \cup {q} /\ setting' = setting
  BY AskStep DEF OnCallInv, Ask
<1>2. CASE r # q
  <2>1. ASSUME NEW k, NEW i, At(Where, r, k, i) PROVE Leads(r, k, i)
    <3>1. k \in Fields BY <2>1 DEF At, Fields
    <3>2. At(After, r, k, i) BY <1>1, <1>2, <2>1, <3>1, PlacesBoth DEF Fields
    <3>3. QED BY <1>1, <2>1, <3>2, LeadsOn
  <2>2. QED BY <1>1, <1>2, <2>1, LifeGoesOn
<1>3. CASE r = q
  <2>1. TripOf(r) = Unasked BY <1>1, <1>3, OnCallLives DEF Lives
  <2>2. At(After, r, "posted", None) BY <1>1, <1>3, PlacesBoth
  <2>3. TripOf(r)' = Stage(setting.parks, drv', r, "posted", None)
    BY <1>1, <2>2, LivesNext DEF Lives, Where, After
  <2>4. TripOf(r)' = [is |-> "sent", by |-> None] BY <2>3 DEF Stage
  <2>5. QED BY <2>1, <2>4 DEF Moves, Life!Send, Unasked
<1>4. QED BY <1>2, <1>3

\* The controller handles a request.
LEMMA HandleRequestLife ==
  ASSUME OnCallInv, OnCallInv', NEW q \in Requests, HandleRequest(q), NEW r \in Requests
  PROVE  Moves(TripOf(r), TripOf(r)')
<1>1. q \in mail.asks /\ asked' = asked /\ setting' = setting BY DEF HandleRequest
<1>2. /\ mail'.asks = mail.asks \ {q} /\ mail'.out = mail.out
      /\ ctl'.queue = Append(ctl.queue, q) /\ posted' = posted /\ drv' = drv
      /\ served' = served /\ lost' = lost
  BY <1>1, HandleRequestStep DEF OnCallInv
<1> DEFINE n == Len(ctl.queue) + 1
<1>3. ctl.queue \in Seq(Requests) BY DEF OnCallInv, Typed, Books
<1>4. /\ DOMAIN ctl'.queue = DOMAIN ctl.queue \cup {n}
      /\ ctl'.queue[n] = q /\ \A i \in DOMAIN ctl.queue : ctl'.queue[i] = ctl.queue[i]
  BY <1>2, <1>3, AppendedIs
<1> HIDE DEF n
<1>5. ASSUME NEW k, NEW i, At(Where, r, k, i) PROVE Leads(r, k, i)
  <2>1. k \in Fields \ {"rest"} BY <1>5, PlacesBoth DEF At, Fields
  <2>2. CASE k = "asks" /\ r = q
    <3>1. At(After, r, "queue", n) BY <1>4, <2>2, PlacesBoth
    <3>2. /\ Stage(setting.parks, drv, r, k, i) = [is |-> "sent", by |-> None]
          /\ Stage(setting.parks, drv', r, "queue", n) = [is |-> "queued", by |-> None]
      BY <2>2 DEF Stage
    <3>3. QED BY <3>1, <3>2 DEF Leads, Moves, Life!Queue
  <2>3. CASE ~(k = "asks" /\ r = q)
    <3>1. At(After, r, k, i) BY <1>2, <1>4, <1>5, <2>1, <2>3, PlacesBoth DEF Fields
    <3>2. QED BY <1>2, <1>5, <3>1, LeadsOn
  <2>4. QED BY <2>2, <2>3
<1>6. QED BY <1>1, <1>5, LifeGoesOn

\* What was posted is distributed.
LEMMA NextTickLife ==
  ASSUME OnCallInv, OnCallInv', NextTick, NEW r \in Requests
  PROVE  Moves(TripOf(r), TripOf(r)')
<1>1. /\ mail' = posted /\ posted' = NoMail /\ ctl' = ctl /\ drv' = drv
      /\ served' = served /\ lost' = lost /\ asked' = asked /\ setting' = setting
      /\ mail.asks = {} /\ \A d \in Drivers : mail.out[d] = <<>>
  BY NextTickStep DEF OnCallInv
<1>2. ASSUME NEW k, NEW i, At(Where, r, k, i) PROVE Leads(r, k, i)
  <2>1. k \in Fields \ {"rest", "asks"} BY <1>1, <1>2, PlacesBoth DEF At, Fields
  <2>2. CASE k = "posted"
    <3>1. At(After, r, "asks", i) BY <1>1, <1>2, <2>2, PlacesBoth
    <3>2. Stage(setting.parks, drv, r, k, i) = Stage(setting.parks, drv', r, "asks", i)
      BY <2>2 DEF Stage
    <3>3. QED BY <3>1, <3>2 DEF Leads, Moves
  <2>3. CASE k = "offers"
    <3>1. i \in Drivers /\ r \in Offered(mail.out[i]) \cup Offered(posted.out[i])
      BY <1>2, <2>3, PlacesBoth
    <3>2. Offered(mail.out[i]) = {} BY <1>1, <3>1, NothingSent
    <3>3. r \in Offered(mail'.out[i]) BY <1>1, <3>1, <3>2
    <3>4. At(After, r, "offers", i) BY <3>1, <3>3, PlacesBoth
    <3>5. QED BY <1>2, <2>3, <3>4, LeadsOn
  <2>4. CASE k \in {"queue", "orders", "served", "lost"}
    <3>1. At(After, r, k, i) BY <1>1, <1>2, <2>4, PlacesBoth
    <3>2. QED BY <1>1, <1>2, <3>1, LeadsOn
  <2>5. QED BY <2>1, <2>2, <2>3, <2>4 DEF Fields
<1>3. QED BY <1>1, <1>2, LifeGoesOn

\* A driver is loaded, or updated: it picks up, drops off, or takes its trip with it.
LEMMA DrivesLife ==
  ASSUME OnCallInv, OnCallInv', NEW d \in Drivers, Drives(d), NEW r \in Requests
  PROVE  Moves(TripOf(r), TripOf(r)')
<1>1. /\ mail' = mail /\ ctl'.queue = ctl.queue /\ asked' = asked /\ setting' = setting
      /\ posted'.asks = posted.asks /\ posted'.out = posted.out
      /\ \A e \in Drivers \ {d} : drv'[e] = drv[e]
      /\ served' = served \cup (Ordered(drv[d].items) \ Ordered(drv'[d].items))
      /\ lost' = lost \cup (IF drv'[d].place = "deleted" THEN Ordered(drv'[d].items) ELSE {})
      /\ \/ Ordered(drv'[d].items) = {} \/ drv'[d].items = drv[d].items
         \/ \E q \in Requests : /\ drv[d].items = Legs(setting.parks, q)
                                /\ drv'[d].items = Tail(Legs(setting.parks, q))
  BY DEF Drives
<1>2. ASSUME NEW k, NEW i, At(Where, r, k, i) PROVE Leads(r, k, i)
  <2>1. k \in Fields \ {"rest"} BY <1>2, PlacesBoth DEF At, Fields
  <2>2. CASE k # "orders" \/ i # d
    <3>1. k = "orders" => i \in Drivers \ {d} BY <1>2, <2>2, PlacesBoth
    <3>2. At(After, r, k, i) BY <1>1, <1>2, <2>1, <3>1, PlacesBoth DEF Fields
    <3>3. QED BY <1>1, <1>2, <3>1, <3>2, LeadsOn
  <2>3. CASE k = "orders" /\ i = d
    <3>1. r \in Ordered(drv[d].items) BY <1>2, <2>3, PlacesBoth
    <3> DEFINE c == Stage(setting.parks, drv, r, "orders", d)
    <3>2. c.is \in {"awaited", "aboard"} /\ c.by = d BY DEF Stage
    <3>3. CASE r \notin Ordered(drv'[d].items)
      <4>1. At(After, r, "served", None) BY <1>1, <3>1, <3>3, PlacesBoth
      <4>2. Stage(setting.parks, drv', r, "served", None).is = "done" BY DEF Stage
      <4>3. QED BY <2>3, <3>2, <4>1, <4>2 DEF Leads, Moves, Life!DropOff
    <3>4. CASE r \in Ordered(drv'[d].items) /\ drv'[d].place = "deleted"
      <4>1. At(After, r, "lost", None) BY <1>1, <3>4, PlacesBoth
      <4>2. Stage(setting.parks, drv', r, "lost", None).is = "lost" BY DEF Stage
      <4>3. QED BY <2>3, <3>2, <4>1, <4>2 DEF Leads, Moves, Life!Lose
    <3>5. CASE r \in Ordered(drv'[d].items) /\ drv'[d].place # "deleted"
      <4>1. At(After, r, "orders", d) BY <3>5, PlacesBoth
      <4>2. CASE drv'[d].items = drv[d].items BY <1>2, <2>3, <4>1, <4>2, LeadsOn
      <4>3. ASSUME NEW q \in Requests, drv[d].items = Legs(setting.parks, q),
                   drv'[d].items = Tail(Legs(setting.parks, q))
            PROVE  Leads(r, k, i)
        <5>1. q = r BY <3>1, <4>3, LegsFacts
        <5>2. drv'[d].items # Legs(setting.parks, r) BY <4>3, <5>1, LegsDiffer
        <5>3. c = [is |-> "awaited", by |-> d] BY <4>3, <5>1 DEF Stage
        <5>4. Stage(setting.parks, drv', r, "orders", d) = [is |-> "aboard", by |-> d]
          BY <5>2 DEF Stage
        <5>5. QED BY <2>3, <4>1, <5>3, <5>4 DEF Leads, Moves, Life!PickUp
      <4>4. Ordered(drv'[d].items) # {} BY <3>5
      <4>5. QED BY <1>1, <4>2, <4>3, <4>4
    <3>6. QED BY <3>3, <3>4, <3>5
  <2>4. QED BY <2>2, <2>3
<1>3. QED BY <1>1, <1>2, LifeGoesOn

\* The controller handles a message of a driver: no request moves.
LEMMA HandleLife ==
  ASSUME OnCallInv, OnCallInv', NEW d \in Drivers, NEW n \in DOMAIN mail.in[d], Handle(d, n),
         NEW r \in Requests
  PROVE  Moves(TripOf(r), TripOf(r)')
<1>1. /\ Keeps(ctl, d, ctl')
      /\ posted'.asks = posted.asks
      /\ mail'.asks = mail.asks /\ mail'.out = mail.out /\ drv' = drv
      /\ asked' = asked /\ served' = served /\ lost' = lost
  BY Handling DEF OnCallInv
<1>2. setting' = setting BY DEF Handle
<1>3. ctl'.queue = ctl.queue BY <1>1 DEF Keeps
<1>4. \A e \in Drivers : Offered(posted'.out[e]) = Offered(posted.out[e])
  BY HandledOffers DEF OnCallInv
<1>5. ASSUME NEW k, NEW i, At(Where, r, k, i) PROVE Leads(r, k, i)
  <2>1. k \in Fields \ {"rest"} BY <1>5, PlacesBoth DEF At, Fields
  <2>2. CASE k = "offers"
    <3>1. i \in Drivers /\ r \in Offered(mail.out[i]) \cup Offered(posted.out[i])
      BY <1>5, <2>2, PlacesBoth
    <3>2. r \in Offered(mail'.out[i]) \cup Offered(posted'.out[i]) BY <1>1, <1>4, <3>1
    <3>3. At(After, r, "offers", i) BY <3>1, <3>2, PlacesBoth
    <3>4. QED BY <1>5, <2>2, <3>3, LeadsOn
  <2>3. CASE k # "offers"
    <3>1. At(After, r, k, i) BY <1>1, <1>3, <1>5, <2>1, <2>3, PlacesBoth DEF Fields
    <3>2. QED BY <1>1, <1>5, <3>1, LeadsOn
  <2>4. QED BY <2>2, <2>3
<1>6. QED BY <1>1, <1>2, <1>5, LifeGoesOn

\* A driver receives a message: a proposal is accepted, or lost with the driver.
LEMMA ReceiveLife ==
  ASSUME OnCallInv, OnCallInv', NEW d \in Drivers, NEW n \in DOMAIN mail.out[d], Receive(d, n),
         NEW r \in Requests
  PROVE  Moves(TripOf(r), TripOf(r)')
<1> DEFINE m == mail.out[d][n]
           v == View(d)
<1>1. LET y == IF drv[d].place = "deleted" THEN drv[d] ELSE Answered(drv[d], m) IN
      /\ drv'[d] = y /\ \A e \in Drivers \ {d} : drv'[e] = drv[e]
      /\ mail'.out[d] = Rest(mail.out[d], n) /\ mail'.asks = mail.asks
      /\ \A e \in Drivers \ {d} : mail'.out[e] = mail.out[e]
      /\ lost' = lost \cup (IF drv[d].place = "deleted" THEN Offered(<<m>>) ELSE {})
      /\ posted' = posted /\ ctl' = ctl /\ asked' = asked /\ served' = served
  BY Receiving DEF OnCallInv
<1>2. setting' = setting BY DEF Receive
<1>3. /\ Good(setting.parks, v) /\ v.x = drv[d]
      /\ v.out = mail.out[d] /\ v.sent = posted.out[d] /\ drv[d] \in DriverRecord
  BY GoodView DEF OnCallInv
<1> HIDE DEF v
<1>4. OneJob(v) BY <1>3 DEF Good
<1>5. mail.out[d] \in Seq(Answers) /\ m \in Answers
  <2>1. mail.out[d] \in Seq(Answers) BY DEF OnCallInv, Typed, Boxes
  <2>2. QED BY <2>1, OutRest
<1>6. Single(mail.out[d]) BY <1>3, <1>4 DEF OneJob, OneOffer
<1>7. /\ m.kind # "SCHEDULE_PROPOSITION" => Offered(Rest(mail.out[d], n)) = Offered(mail.out[d])
      /\ m.kind = "SCHEDULE_PROPOSITION" => Offered(mail.out[d]) = {m.request}
  BY <1>5, <1>6, OutRest
<1>8. Offered(<<m>>) = IF m.kind = "SCHEDULE_PROPOSITION" THEN {m.request} ELSE {}
  BY DEF Offered
<1>9. /\ Answered(drv[d], m).place = drv[d].place
      /\ m.kind = "SCHEDULE_PROPOSITION" =>
           /\ m.request \in Requests
           /\ Answered(drv[d], m).items = Legs(setting.parks, m.request)
      /\ m.kind # "SCHEDULE_PROPOSITION" => Answered(drv[d], m).items = drv[d].items
  BY <1>3, <1>5, AnsweredIs DEF OnCallInv
<1> HIDE DEF m
<1>10. ASSUME NEW k, NEW i, At(Where, r, k, i) PROVE Leads(r, k, i)
  <2>1. k \in Fields \ {"rest"} BY <1>10, PlacesBoth DEF At, Fields
  <2>2. CASE k \notin {"offers", "orders"}
    <3>1. At(After, r, k, i) BY <1>1, <1>10, <2>1, <2>2, PlacesBoth DEF Fields
    <3>2. QED BY <1>10, <2>2, <3>1, LeadsOn
  <2>3. CASE k \in {"offers", "orders"} /\ i # d
    <3>1. i \in Drivers \ {d} BY <1>10, <2>3, PlacesBoth
    <3>2. drv'[i] = drv[i] /\ mail'.out[i] = mail.out[i] /\ posted' = posted BY <1>1, <3>1
    <3>3. At(After, r, k, i) BY <1>10, <2>3, <3>1, <3>2, PlacesBoth
    <3>4. QED BY <1>10, <3>2, <3>3, LeadsOn
  <2>4. CASE k = "orders" /\ i = d
    <3>1. drv[d].place # "deleted" /\ r \in Ordered(drv[d].items) BY <1>10, <2>4, PlacesBoth
    <3>2. Offers(v) = {} BY <1>3, <1>4, <3>1 DEF OneJob, Job
    <3>3. m.kind # "SCHEDULE_PROPOSITION" BY <1>3, <1>7, <3>2 DEF Offers
    <3>4. drv'[d].place = drv[d].place /\ drv'[d].items = drv[d].items BY <1>1, <1>9, <3>1, <3>3
    <3>5. At(After, r, "orders", d) BY <3>1, <3>4, PlacesBoth
    <3>6. QED BY <1>10, <2>4, <3>4, <3>5, LeadsOn
  <2>5. CASE k = "offers" /\ i = d
    <3>1. r \in Offered(mail.out[d]) \cup Offered(posted.out[d]) BY <1>10, <2>5, PlacesBoth
    <3>2. CASE r \in Offered(mail'.out[d]) \cup Offered(posted'.out[d])
      <4>1. At(After, r, "offers", d) BY <3>2, PlacesBoth
      <4>2. QED BY <1>10, <2>5, <4>1, LeadsOn
    <3>3. CASE r \notin Offered(mail'.out[d]) \cup Offered(posted'.out[d])
      <4>1. m.kind = "SCHEDULE_PROPOSITION" /\ m.request = r BY <1>1, <1>7, <3>1, <3>3
      <4> DEFINE c == Stage(setting.parks, drv, r, "offers", d)
      <4>2. c = [is |-> "proposed", by |-> d] BY DEF Stage
      <4> HIDE DEF c
      <4>3. CASE drv[d].place = "deleted"
        <5>1. r \in lost' BY <1>1, <1>8, <4>1, <4>3
        <5>2. At(After, r, "lost", None) BY <5>1, PlacesBoth
        <5>3. Stage(setting.parks, drv', r, "lost", None) = [is |-> "lost", by |-> None]
          BY DEF Stage
        <5>4. QED BY <2>5, <4>2, <5>2, <5>3 DEF Leads, Moves, Life!Lose, c
      <4>4. CASE drv[d].place # "deleted"
        <5>1. drv'[d].place # "deleted" /\ drv'[d].items = Legs(setting.parks, r)
          BY <1>1, <1>9, <4>1, <4>4
        <5>2. r \in Ordered(drv'[d].items) BY <1>3, <5>1, LegsFacts
        <5>3. At(After, r, "orders", d) BY <5>1, <5>2, PlacesBoth
        <5>4. Stage(setting.parks, drv', r, "orders", d) = [is |-> "awaited", by |-> d]
          BY <5>1 DEF Stage
        <5>5. QED BY <2>5, <4>2, <5>3, <5>4 DEF Leads, Moves, Life!Accept, c
      <4>5. QED BY <4>3, <4>4
    <3>4. QED BY <3>2, <3>3
  <2>6. QED BY <2>1, <2>2, <2>3, <2>4, <2>5
<1>11. QED BY <1>1, <1>2, <1>10, LifeGoesOn

\* The controller's own update takes no proposal back.
LEMMA ControllerOffers ==
  ASSUME Typed, DriversGood, InHand, ControllerTick
  PROVE  /\ posted'.asks = posted.asks
         /\ \A d \in Drivers : Offered(posted.out[d]) \subseteq Offered(posted'.out[d])
<1>1. CASE ctl.localTick = Period
  <2>1. PICK a \in computeSchedules :
          /\ ctl' = [ctl EXCEPT !.localTick = 0, !.queue = a.queue, !.available = a.available,
                                !.copy = a.copy]
          /\ posted' = [posted EXCEPT !.out = a.sent]
    BY <1>1 DEF ControllerTick
  <2>2. Computed(a) BY AllComputed
  <2>3. posted'.asks = posted.asks /\ posted'.out = a.sent BY <2>1, <2>2, Computing
  <2>4. ASSUME NEW d \in Drivers PROVE Offered(posted.out[d]) \subseteq Offered(posted'.out[d])
    <3>1. CASE Passed(a, d) BY <2>3, <3>1 DEF Passed
    <3>2. CASE \E q \in Requests : Chosen(a, d, q)
      <4>1. Offered(posted.out[d]) = {} BY <3>2, FreeHasNone DEF Chosen
      <4>2. QED BY <4>1
    <3>3. QED BY <2>2, <3>1, <3>2 DEF Computed
  <2>5. QED BY <2>3, <2>4
<1>2. CASE ctl.localTick # Period BY <1>2 DEF ControllerTick
<1>3. QED BY <1>1, <1>2

\* The controller's own update: a request in its queue stays there or is proposed.
LEMMA ControllerTickLife ==
  ASSUME OnCallInv, OnCallInv', ControllerTick, NEW r \in Requests
  PROVE  Moves(TripOf(r), TripOf(r)')
<1>1. /\ mail' = mail /\ setting' = setting /\ drv' = drv /\ asked' = asked
      /\ served' = served /\ lost' = lost
  BY DEF ControllerTick
<1>2. Typed /\ DriversGood /\ InHand BY DEF OnCallInv
<1>3. \A d \in Drivers : Offered(posted.out[d]) \subseteq Offered(posted'.out[d])
  BY <1>2, ControllerOffers
<1>4. posted'.asks = posted.asks BY <1>2, ControllerOffers
<1>5. ASSUME NEW k, NEW i, At(Where, r, k, i) PROVE Leads(r, k, i)
  <2>1. k \in Fields \ {"rest"} BY <1>5, PlacesBoth DEF At, Fields
  <2>2. CASE k = "offers"
    <3>1. i \in Drivers /\ r \in Offered(mail.out[i]) \cup Offered(posted.out[i])
      BY <1>5, <2>2, PlacesBoth
    <3>2. r \in Offered(mail'.out[i]) \cup Offered(posted'.out[i]) BY <1>1, <1>3, <3>1
    <3>3. At(After, r, "offers", i) BY <3>1, <3>2, PlacesBoth
    <3>4. QED BY <1>5, <2>2, <3>3, LeadsOn
  <2>3. CASE k \in {"asks", "posted", "orders", "served", "lost"}
    <3>1. At(After, r, k, i) BY <1>1, <1>4, <1>5, <2>3, PlacesBoth
    <3>2. QED BY <1>1, <1>5, <3>1, LeadsOn
  <2>4. CASE k = "queue"
    <3>1. r \in asked /\ \A l, j : At(Where, r, l, j) => l = k /\ j = i
      <4>1. ~Nowhere(Where, r) BY <1>5 DEF Nowhere
      <4>2. r \in asked /\ Alone(Where, r) BY <1>2, <4>1 DEF InHand, Accounted
      <4>3. QED BY <1>5, <4>2 DEF Alone
    <3>2. PICK l, j : At(After, r, l, j)
      <4>1. Alone(After, r)
        BY <1>1, <3>1 DEF OnCallInv, InHand, Accounted, Where, After
      <4>2. QED BY <4>1 DEF Alone
    <3>3. l \in {"queue", "offers"}
      <4>1. l \in Fields \ {"rest"} BY <3>2, PlacesBoth DEF At, Fields
      <4>2. ASSUME l \in {"asks", "posted", "orders", "served", "lost"} PROVE FALSE
        <5>1. At(Where, r, l, j) BY <1>1, <1>4, <3>2, <4>2, PlacesBoth
        <5>2. QED BY <2>4, <3>1, <4>2, <5>1
      <4>3. QED BY <4>1, <4>2 DEF Fields
    <3>4. Stage(setting.parks, drv, r, k, i) = [is |-> "queued", by |-> None]
      BY <2>4 DEF Stage
    <3>5. CASE l = "queue"
      <4>1. Stage(setting.parks, drv', r, l, j) = [is |-> "queued", by |-> None]
        BY <3>5 DEF Stage
      <4>2. QED BY <3>2, <3>4, <4>1 DEF Leads, Moves
    <3>6. CASE l = "offers"
      <4>1. Stage(setting.parks, drv', r, l, j) = [is |-> "proposed", by |-> j]
        BY <3>6 DEF Stage
      <4>2. QED BY <3>2, <3>4, <4>1 DEF Leads, Moves, Life!Propose
    <3>7. QED BY <3>3, <3>5, <3>6
  <2>5. QED BY <2>1, <2>2, <2>3, <2>4 DEF Fields
<1>6. QED BY <1>1, <1>5, LifeGoesOn

\* A step of the service is one of the life of each request, or none.
LEMMA NextLife ==
  ASSUME OnCallInv, OnCallInv', [Next]_vars, NEW r \in Requests
  PROVE  Moves(TripOf(r), TripOf(r)')
<1>1. Typed /\ DriversGood BY DEF OnCallInv
<1>2. CASE NextTick BY <1>2, NextTickLife
<1>3. CASE ControllerTick BY <1>3, ControllerTickLife
<1>4. CASE \E q \in Requests : Ask(q) \/ HandleRequest(q) BY <1>4, AskLife, HandleRequestLife
<1>5. ASSUME NEW d \in Drivers, Load(d) \/ Update(d) PROVE Moves(TripOf(r), TripOf(r)')
  <2>1. Drives(d) BY <1>1, <1>5, LoadStep, UpdateStep
  <2>2. QED BY <2>1, DrivesLife
<1>6. CASE \E d \in Drivers : \E i \in DOMAIN mail.out[d] : Receive(d, i) BY <1>6, ReceiveLife
<1>7. CASE \E d \in Drivers : \E i \in DOMAIN mail.in[d] : Handle(d, i) BY <1>7, HandleLife
<1>8. CASE UNCHANGED vars
  <2>1. setting' = setting /\ asked' = asked BY <1>8 DEF vars
  <2>2. ASSUME NEW k, NEW i, At(Where, r, k, i) PROVE Leads(r, k, i)
    <3>1. Where = After /\ drv' = drv BY <1>8 DEF vars, Where, After
    <3>2. QED BY <2>2, <3>1, LeadsOn
  <2>3. QED BY <2>1, <2>2, LifeGoesOn
<1>9. QED BY <1>2, <1>3, <1>4, <1>5, <1>6, <1>7, <1>8 DEF Next

\* The states of the requests are those of TripLife.
LEMMA LivesAre == OnCallInv => \A r \in Requests : TripOf(r) \in Life!Trips
<1> SUFFICES ASSUME OnCallInv, NEW r \in Requests PROVE TripOf(r) \in Life!Trips OBVIOUS
<1>1. /\ r \notin asked => TripOf(r) = Unasked
      /\ \A k, i : At(Where, r, k, i) => TripOf(r) = Stage(setting.parks, drv, r, k, i)
  BY OnCallLives DEF Lives
<1>2. Unasked \in Life!Trips BY DEF Unasked, Life!Trips, None
<1>3. ASSUME NEW k, NEW i, At(Where, r, k, i) PROVE TripOf(r) \in Life!Trips
  <2>1. k \in Fields \ {"rest"} BY <1>3, PlacesBoth DEF At, Fields
  <2>2. k \in {"offers", "orders"} => i \in Drivers BY <1>3, PlacesBoth
  <2>3. Stage(setting.parks, drv, r, k, i) \in Life!Trips
    BY <2>1, <2>2 DEF Stage, Fields, Life!Trips, None
  <2>4. QED BY <1>1, <1>3, <2>3
<1>4. r \in asked => \E k, i : At(Where, r, k, i) BY DEF OnCallInv, InHand, Accounted, Alone
<1>5. QED BY <1>1, <1>2, <1>3, <1>4

\* They are so in the next state.
LEMMA LivesStay == OnCallInv' => (\A r \in Requests : TripOf(r) \in Life!Trips)'
BY LivesAre, PTL

-----------------------------------------------------------------------------
(* The theorems. *)

\* The fields of the controller, the drivers and the messages stay within their ranges.
THEOREM OnCallTypeCorrect == Spec => []TypeOK
BY OnCallInvariant, OnCallTypeOK, PTL

\* A request is in one place at any time: none is dropped, and none is with two drivers.
THEOREM OneHandAlways == Spec => []OneHand
BY OnCallInvariant, OnCallHands, PTL

\* A driver the controller takes for available carries nobody and has no trip to make.
THEOREM FreeAlways == Spec => []FreeWhenAvailable
BY OnCallInvariant, OnCallFree, PTL

\* The controller's copy of a schedule is what the driver has after its current item, up
\* to the status messages on their way.
THEOREM CopyAlways == Spec => []CopyIsRest
BY OnCallInvariant, OnCallCopy, PTL

\* The shift of a driver ends after its trips: a driver that is let go carries nobody, has
\* no trip to make and is unknown to the controller.
THEOREM IdleAlways == Spec => []IdleAtTheEnd
BY OnCallInvariant, OnCallIdle, PTL

\* The controller's containers agree, as its consistencyChecks demand.
THEOREM BooksAlways == Spec => []BooksAgree
BY OnCallInvariant, OnCallBooks, PTL

\* Every request lives as TripLife says: it goes from its traveller to the queue, to one
\* driver and to its end, never back and never to another driver, though the controller and
\* the drivers only know of each other what their messages say.
THEOREM ImplementsTripLife == Spec => TripSpec
<1>1. Init => Life!Init
  <2> SUFFICES ASSUME Init PROVE Life!Init OBVIOUS
  <2>1. asked = {} BY DEF Init
  <2>2. \A r \in Requests : TripOf(r) = Unasked BY <2>1, OnCallInit, OnCallLives DEF Lives
  <2>3. QED BY <2>2 DEF Life!Init, Unasked, None
<1>2. OnCallInv /\ OnCallInv' /\ [Next]_vars => Life!Next
  <2> SUFFICES ASSUME OnCallInv, OnCallInv', [Next]_vars PROVE Life!Next OBVIOUS
  <2>1. \A r \in Requests : Moves(TripOf(r), TripOf(r)') BY NextLife
  <2>2. \A r \in Requests : TripOf(r)' \in Life!Trips BY LivesStay
  <2>3. QED BY <2>1, <2>2 DEF Life!Next, Moves
<1>3. QED BY <1>1, <1>2, OnCallInvariant, PTL DEF Spec, TripSpec, Life!Spec
=============================================================================
