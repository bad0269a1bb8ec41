-------------------------- MODULE OnCallServiceInv ---------------------------
(***************************************************************************)
(* Properties of OnCallService.tla.                                        *)
(***************************************************************************)
EXTENDS OnCallService

Deleted(d) == drv[d].place = "deleted"

\* Type correctness: the fields of the controller, the drivers and the messages stay
\* within their ranges, and only drivers that were loaded are known to the controller.
TypeOK ==
  /\ setting \in Settings /\ now \in 0 .. EndTick /\ updated \subseteq Drivers \cup {Controller}
  /\ \A m \in {mail, posted} :
       /\ m.asks \subseteq Requests
       /\ \A d \in Drivers :
            /\ \A i \in DOMAIN m.in[d] :
                 m.in[d][i] \in {"SUBSCRIBE", "STATUS", "AVAILABLE", "SHIFT_END"}
            /\ Offered(m.out[d]) \subseteq Requests
  /\ \A i \in DOMAIN ctl.queue : ctl.queue[i] \in Requests
  /\ ctl.available \subseteq DOMAIN ctl.copy /\ ctl.subscribed \subseteq DOMAIN ctl.copy
  /\ ctl.localTick \in 0 .. Period
  /\ \A d \in Drivers :
       LET x == drv[d] IN
       /\ x.status \in {"DRIVE_START", "CRUISING", "DRIVE_ON_CALL", "DRIVE_WITH_PASSENGER",
                        "DRIVE_TO_PARKING", "PARKED"}
       /\ x.place \in {"unloaded", "road", "parking", "nowhere", "deleted"}
       /\ x.prev \in {None, "CRUISE", "PICKUP", "DROPOFF", "PARK"}
       /\ Ordered(x.items) \subseteq Requests /\ x.passengers \subseteq Requests
       /\ x.sent = <<>>
       /\ x.place = "unloaded" => d \notin DOMAIN ctl.copy
  /\ served \subseteq asked /\ lost \subseteq asked /\ asked \subseteq Requests

\* A trip request is in one place at any time, from the traveller's message to the end
\* of the trip: on its way to the controller, in its queue, proposed to one driver, in
\* the schedule of one driver, done, or gone with a driver that was deleted.  No request
\* is dropped, and no two drivers go for one traveller.
Hands(r) ==
  {<<"asked", i>> : i \in {i \in 1 .. 2 : r \in <<mail, posted>>[i].asks}}
    \cup {<<"queue", i>> : i \in {i \in DOMAIN ctl.queue : ctl.queue[i] = r}}
    \cup {<<"proposed", d>> : d \in {d \in Drivers :
                                       r \in Offered(mail.out[d]) \cup Offered(posted.out[d])}}
    \cup {<<"ordered", d>> : d \in {d \in Drivers : ~Deleted(d) /\ r \in Ordered(drv[d].items)}}
    \cup {<<"over", i>> : i \in {i \in 1 .. 2 : r \in <<served, lost>>[i]}}

OneHand == \A r \in asked : Cardinality(Hands(r)) = 1

\* A driver the controller takes for available is free: it carries nobody, has no trip in
\* its schedule, and none was proposed to it.  (The status that findClosestDriver checks
\* is read from another worker's driver and would come too late.)
Busy(d) ==
  \/ drv[d].passengers # {} \/ Ordered(drv[d].items) # {}
  \/ Offered(mail.out[d]) # {} \/ Offered(posted.out[d]) # {}

FreeWhenAvailable == \A d \in ctl.available : Deleted(d) \/ ~Busy(d)

\* The controller's copy of a schedule is what the driver has after its current item,
\* up to the status messages that were not handled: during a trip, dropping one item for
\* each of them leaves the rest of the driver's own schedule.
Statuses(s) == Cardinality({i \in DOMAIN s : s[i] = "STATUS"})
Ahead(d) == Statuses(mail.in[d]) + Statuses(posted.in[d])

CopyIsRest ==
  \A d \in DOMAIN ctl.copy :
    ~Deleted(d) /\ Ordered(drv[d].items) # {} =>
      SubSeq(ctl.copy[d], Ahead(d) + 1, Len(ctl.copy[d])) = Tail(drv[d].items)

\* The shift of a driver ends after its trips: one that is told that it is unsubscribed
\* (MSG_UNSUBSCRIBE_SUCCESSFUL), or was told so, carries nobody and has no trip, and the
\* controller has forgotten it.  A driver that reaches a car park at the end of its shift
\* says STATUS, AVAILABLE and SHIFT_END in one tick, and is unsubscribed only because
\* their priorities have the controller take them in this order.
Dismissed(d) ==
  \/ drv[d].toBeRemoved /\ ~drv[d].sure
  \/ \E s \in {mail.out[d], posted.out[d]} : \E i \in DOMAIN s : s[i].kind = "UNSUBSCRIBE_SUCCESSFUL"

IdleAtTheEnd ==
  \A d \in Drivers : Dismissed(d) => ~Busy(d) /\ d \notin DOMAIN ctl.copy

\* consistencyChecks of OnCallController, for the drivers that were not deleted: those
\* with a schedule are the subscribed ones, and the available ones have an empty one.
\* It needs the priorities as well: a driver that is available again after it was
\* unsubscribed would have a schedule and no subscription.
BooksAgree ==
  \A d \in Drivers :
    ~Deleted(d) =>
      /\ d \in ctl.subscribed <=> d \in DOMAIN ctl.copy
      /\ d \in ctl.available => ctl.copy[d] = <<>>

\* What onDriverShiftEnd says of a driver whose shift ends as a trip is proposed to it:
\* the delay lets it end its shift "only after finishing the assigned schedule"
\* (OnCallController.cpp:164-165).  So a driver with a trip is one that is updated.
TripIsDriven ==
  \A d \in Drivers : ~Deleted(d) /\ Ordered(drv[d].items) # {} => drv[d].place # "nowhere"

\* A request goes through the hands of TripLife.tla: its traveller waits for the driver
\* it was proposed to while a pick-up is in that driver's schedule, and is aboard from
\* then to the drop-off; nobody is forgotten half-way.
PickUps(s) == {s[i].request : i \in {i \in DOMAIN s : s[i].kind = "PICKUP"}}

TripOf(r) ==
  LET with(is, D) == [is |-> is, by |-> CHOOSE d \in D : TRUE]
      there == {d \in Drivers : ~Deleted(d) /\ r \in Ordered(drv[d].items)}
      proposed == {d \in Drivers : r \in Offered(mail.out[d]) \cup Offered(posted.out[d])}
      awaited == {d \in there : r \in PickUps(drv[d].items) \ drv[d].passengers}
      aboard == {d \in there : r \in drv[d].passengers \ PickUps(drv[d].items)}
      at(is) == [is |-> is, by |-> None]
  IN CASE r \notin asked -> at("unasked")
       [] r \in served -> at("done")
       [] r \in lost -> at("lost")
       [] r \in mail.asks \cup posted.asks -> at("sent")
       [] \E i \in DOMAIN ctl.queue : ctl.queue[i] = r -> at("queued")
       [] proposed # {} -> with("proposed", proposed)
       [] awaited # {} -> with("awaited", awaited)
       [] aboard # {} -> with("aboard", aboard)
       [] OTHER -> at("forgotten")

Life == INSTANCE TripLife WITH trip <- [r \in Requests |-> TripOf(r)]

TripSpec == Life!Spec
=============================================================================
