---------------------------- MODULE OnCallService ----------------------------
(***************************************************************************)
(* The on-call mobility service of the mid-term simulation: travellers     *)
(* send trip requests to a controller, which proposes each to the closest  *)
(* free driver (shared/entities/controllers: OnCallController,             *)
(* GreedyController; medium/entities/roles/driver: OnCallDriver and its    *)
(* facets; medium/entities: ParkingAgent, Conflux).                        *)
(*                                                                         *)
(* A tick is one of WorkGroups.tla over the bus of MessageBus.tla: every   *)
(* worker handles the messages of the previous tick and then updates its   *)
(* entities, and the workers of the controller and of the drivers          *)
(* interleave.  The handling of a message and the update of an entity are  *)
(* steps; the containers of the controller that a driver without a route   *)
(* changes from its own worker are changed in one step.                    *)
(*                                                                         *)
(* Left out: where things are (the closest driver is any that may be       *)
(* chosen, a path ends at any tick), shared rides, study areas, energy.    *)
(* The two ends of a trip are different nodes.  The driver's reply to a    *)
(* proposal has no receiver (a copied TripRequestMessage has no sender),   *)
(* so the bus drops it and it is no message here.                          *)
(***************************************************************************)
EXTENDS Integers, Sequences, FiniteSets

CONSTANTS
  Drivers, Requests,
  Settings,      \* [parks: the drivers whose start, and the requests whose destination,
                 \*  is near a car park, lost: may a route be missing]
  LoadTick,      \* the tick in which each driver is loaded
  ShiftEnd,      \* ServiceVehicle::endTime
  Period,        \* scheduleComputationPeriod
  MaxArrivals,   \* a bound: the ends of paths a driver reaches in one tick
  EndTick        \* the length of the simulation

None == "none"
Controller == "controller"

ASSUME ServiceAssumption ==
  /\ Settings \subseteq [parks : SUBSET (Drivers \cup Requests), lost : BOOLEAN]
  /\ LoadTick \in [Drivers -> Nat] /\ ShiftEnd \in [Drivers -> Nat]
  /\ Period \in Nat /\ MaxArrivals \in Nat /\ EndTick \in Nat
  /\ None \notin Requests /\ Controller \notin Drivers

Cruising == [kind |-> "CRUISE", request |-> None]
Parking == [kind |-> "PARK", request |-> None]
NoMail == [asks |-> {}, in |-> [d \in Drivers |-> <<>>], out |-> [d \in Drivers |-> <<>>]]

VARIABLES
  setting,
  now,       \* the tick
  updated,   \* the entities updated in this tick
  mail,      \* what is to be handled in this tick: trip requests (asks), and what each
             \* driver sent to (in) or receives from (out) the controller
  posted,    \* what was posted in this tick
  ctl,       \* the controller
  drv,       \* each driver
  asked,     \* the requests that were made
  served, lost  \* history: the requests that were dropped off, or went with a driver

vars == <<setting, now, updated, mail, posted, ctl, drv, asked, served,
          lost>>

Init ==
  /\ setting \in Settings
  /\ now = 0 /\ updated = {} /\ mail = NoMail /\ posted = NoMail
  /\ ctl = [queue |-> <<>>, subscribed |-> {}, available |-> {}, copy |-> [d \in {} |-> <<>>],
            localTick |-> 0, aborted |-> FALSE]
  /\ drv = [d \in Drivers |->
       [status |-> "DRIVE_START", place |-> "unloaded", items |-> <<>>, prev |-> None,
        updated |-> FALSE, leaving |-> FALSE, waiting |-> FALSE, toBeRemoved |-> FALSE,
        sure |-> FALSE, passengers |-> {}, sent |-> <<>>]]
  /\ asked = {} /\ served = {} /\ lost = {}

-----------------------------------------------------------------------------
\* What a driver does, as the set of its outcomes.  `over` says that its shift ended.
Say(x, m) == [x EXCEPT !.sent = Append(@, m)]

\* The branches without a route: the driver is to be deleted.
NoRoute(x) ==
  IF setting.lost THEN {[x EXCEPT !.sure = TRUE, !.toBeRemoved = TRUE]} ELSE {}

endShift(x) ==
  IF x.status # "PARKED" /\ Head(x.items).kind \notin {"CRUISE", "PARK"} THEN x
  ELSE [Say(x, "SHIFT_END") EXCEPT !.waiting = TRUE]

EndIfOver(x, over) == IF over /\ ~x.waiting THEN endShift(x) ELSE x

\* (mutant: the driver calls itself available with one item left)
ItemCompletedEarly(x, over) ==
  LET y == [x EXCEPT !.prev = Head(x.items).kind, !.items = Tail(@)] IN
  CASE over /\ y.items = <<>> -> y
    [] ~over /\ Len(y.items) <= 1 -> Say(Say(y, "STATUS"), "AVAILABLE")
    [] OTHER -> Say(y, "STATUS")

\* scheduleItemCompleted: past the end of the shift the last item is not reported.
ItemCompleted(x, over) ==
  LET y == [x EXCEPT !.prev = Head(x.items).kind, !.items = Tail(@)] IN
  CASE over /\ y.items = <<>> -> y
    [] ~over /\ y.items = <<>> -> Say(Say(y, "STATUS"), "AVAILABLE")
    [] OTHER -> Say(y, "STATUS")

\* (mutant: the passenger is not put into the list)
pickupNobody(x, over) == ItemCompleted(x, over)

pickupPassenger(x, over) ==
  ItemCompleted([x EXCEPT !.passengers = @ \cup {Head(x.items).request}], over)
dropoffPassenger(x, over) ==
  ItemCompleted([x EXCEPT !.passengers = @ \ {Head(x.items).request}], over)

parkVehicle(x) == [x EXCEPT !.status = "PARKED", !.place = "parking", !.leaving = FALSE]

beginCruising(x, over) == {EndIfOver([x EXCEPT !.status = "CRUISING"], over)} \cup NoRoute(x)

beginDriveToDropOffPoint(x) == {[x EXCEPT !.status = "DRIVE_WITH_PASSENGER"]} \cup NoRoute(x)

\* The passenger is picked up at once where the driver is.
beginDriveToPickUpPoint(x, over) ==
  LET y == [x EXCEPT !.status = "DRIVE_ON_CALL"] IN
  {y} \cup NoRoute(x) \cup beginDriveToDropOffPoint(pickupPassenger(y, over))

\* A driver that reaches PARK from a drop-off is available from here on.
beginDriveToParkingNode(x, over) ==
  LET y == IF x.prev = "DROPOFF" THEN Say(Say(x, "STATUS"), "AVAILABLE") ELSE x IN
  {EndIfOver([y EXCEPT !.status = "DRIVE_TO_PARKING"], over), EndIfOver(parkVehicle(y), over)}
    \cup NoRoute(y)

performScheduleItem(x, over) ==
  LET y == IF x.items = <<>> THEN [x EXCEPT !.items = <<Cruising>>] ELSE x IN
  CASE Head(y.items).kind = "CRUISE"  -> beginCruising(y, over)
    [] Head(y.items).kind = "PICKUP"  -> beginDriveToPickUpPoint(y, over)
    [] Head(y.items).kind = "DROPOFF" -> beginDriveToDropOffPoint(y)
    [] Head(y.items).kind = "PARK"    -> beginDriveToParkingNode(y, over)

\* moveToNextSegment at the end of the path.
EndOfPath(x, over) ==
  CASE x.status = "CRUISING" -> performScheduleItem(x, over)
    [] x.status = "DRIVE_ON_CALL" -> performScheduleItem(pickupPassenger(x, over), over)
    [] x.status = "DRIVE_WITH_PASSENGER" -> performScheduleItem(dropoffPassenger(x, over), over)
    [] x.status = "DRIVE_TO_PARKING" -> {parkVehicle(x)}
    [] OTHER -> {x}

Drive(x, over) ==
  LET after[n \in 0 .. MaxArrivals] ==
        IF n = 0 THEN {x}
        ELSE after[n - 1] \cup
             UNION {EndOfPath(y, over) : y \in {y \in after[n - 1] : ~y.toBeRemoved}}
  IN after[MaxArrivals]

\* The case PARKED of frame_tick.
EndParked(x, over) ==
  IF x.status = "PARKED" /\ over /\ ~x.waiting THEN endShift([x EXCEPT !.leaving = TRUE]) ELSE x

\* frame_tick: a driver that leaves a car park does not move in the same tick.
Ticked(x, over) ==
  LET begun == IF x.updated
               THEN {[y EXCEPT !.updated = FALSE] : y \in performScheduleItem(x, over)}
               ELSE {x}
  IN IF x.status = "PARKED" THEN {EndParked(y, over) : y \in begun}
     ELSE UNION {Drive(y, over) : y \in begun}

\* Where a driver is after its update: deleted by killAgent, back in a lane since it
\* moves, or in no list at all when the parking agent dropped it while it stands.
PlaceAfter(x, y) ==
  CASE y.toBeRemoved -> "deleted"
    [] ~y.toBeRemoved /\ x.place = "parking" /\ y.leaving ->
         IF y.status = "PARKED" THEN "nowhere" ELSE "road"
    [] OTHER -> y.place

-----------------------------------------------------------------------------
\* The controller.
unsubscribeDriver(c, d) ==
  [c EXCEPT !.subscribed = @ \ {d}, !.available = @ \ {d},
            !.copy = [e \in DOMAIN c.copy \ {d} |-> c.copy[e]]]

WithCopy(c, d, s) == [e \in DOMAIN c.copy \cup {d} |-> IF e = d THEN s ELSE c.copy[e]]

\* removeDriverEntryFromAllContainer, called from the driver's worker.
RemoveEntries(c, d, status) ==
  CASE status = "DRIVE_START" -> c
    [] status # "DRIVE_START" /\ d \notin DOMAIN c.copy -> [c EXCEPT !.available = @ \ {d}]
    [] OTHER -> unsubscribeDriver(c, d)

\* What the controller reads in sureToBeDeletedPerson: a driver may be deleted already.
SureSeen(d) == IF drv[d].place = "deleted" THEN BOOLEAN ELSE {drv[d].sure}

Subscribed(c, d) ==
  [c EXCEPT !.subscribed = @ \cup {d}, !.available = @ \cup {d},
            !.copy = IF d \in DOMAIN c.copy THEN @ ELSE WithCopy(c, d, <<>>)]

\* (mutant: the empty schedule is not written)
driverAvailableOnly(c, d) == [c EXCEPT !.available = @ \cup {d}]

driverAvailable(c, d) == [c EXCEPT !.available = @ \cup {d}, !.copy = WithCopy(c, d, <<>>)]

onDriverScheduleStatus(c, d) ==
  IF d \in DOMAIN c.copy /\ c.copy[d] # <<>> THEN [c EXCEPT !.copy[d] = Tail(@)] ELSE c

\* onDriverShiftEnd: `at' throws for a driver without a schedule.
onDriverShiftEnd(c, d) ==
  CASE d \notin DOMAIN c.copy -> [c EXCEPT !.aborted = TRUE]
    [] d \in DOMAIN c.copy /\ c.copy[d] = <<>> -> unsubscribeDriver(c, d)
    [] OTHER -> c

\* (mutant: a driver with a schedule is let go)
ShiftEndGranted(c, d) ==
  IF d \in DOMAIN c.copy THEN <<[kind |-> "UNSUBSCRIBE_SUCCESSFUL"]>> ELSE <<>>

ShiftEndAnswer(c, d) ==
  CASE d \notin DOMAIN c.copy -> <<>>
    [] d \in DOMAIN c.copy /\ c.copy[d] = <<>> -> <<[kind |-> "UNSUBSCRIBE_SUCCESSFUL"]>>
    [] OTHER -> <<[kind |-> "DELAY_SHIFT_END"]>>

HandleMessage(c, d, m, sure) ==
  CASE m = "SUBSCRIBE" -> IF sure THEN c ELSE Subscribed(c, d)
    [] m = "STATUS" -> IF sure THEN c ELSE onDriverScheduleStatus(c, d)
    [] m = "AVAILABLE" -> IF sure THEN c ELSE driverAvailable(c, d)
    [] m = "SHIFT_END" -> onDriverShiftEnd(c, d)

\* (mutant: AVAILABLE has the default priority)
PriorityOfStatus(m) == IF m = "STATUS" THEN 10 ELSE 5

\* The bus hands out the messages of a tick by priority, and those of one priority in any
\* order.  What a driver says has three priorities, what the controller says has one.
Priority(m) == CASE m = "STATUS" -> 10 [] m = "AVAILABLE" -> 8 [] OTHER -> 5

NextOf(s) == {i \in DOMAIN s : \A j \in DOMAIN s : Priority(s[j]) <= Priority(s[i])}

\* What is left of them.
Rest(s, i) == SubSeq(s, 1, i - 1) \o SubSeq(s, i + 1, Len(s))

Trip(r) ==
  <<[kind |-> "PICKUP", request |-> r], [kind |-> "DROPOFF", request |-> r]>>
    \o (IF r \in setting.parks THEN <<Parking>> ELSE <<>>)

\* findClosestDriver over the available drivers; a deleted one reads as anything.
MayServe(d) ==
  drv[d].place = "deleted" \/ drv[d].status \in {"CRUISING", "PARKED", "DRIVE_TO_PARKING", "DRIVE_START"}
MustServe(d) == MayServe(d) /\ drv[d].place # "deleted"

\* (mutants: the driver stays available; the copy holds the current item as well)
assignScheduleKept(a, d, r) ==
  [a EXCEPT !.copy = WithCopy(a, d, Tail(Trip(r))),
            !.sent[d] = Append(@, [kind |-> "SCHEDULE_PROPOSITION", request |-> r])]
assignWholeSchedule(a, d, r) ==
  [a EXCEPT !.available = @ \ {d}, !.copy = WithCopy(a, d, Trip(r)),
            !.sent[d] = Append(@, [kind |-> "SCHEDULE_PROPOSITION", request |-> r])]

assignSchedule(a, d, r) ==
  [a EXCEPT !.available = @ \ {d}, !.copy = WithCopy(a, d, Tail(Trip(r))),
            !.sent[d] = Append(@, [kind |-> "SCHEDULE_PROPOSITION", request |-> r])]

\* computeSchedules, one request of the queue after the other.
Assignments(a, r) ==
  {assignSchedule(a, d, r) : d \in {d \in a.available : MayServe(d)}}
    \cup (IF \E d \in a.available : MustServe(d) THEN {} ELSE {[a EXCEPT !.queue = Append(@, r)]})

computeSchedules ==
  LET start == [queue |-> <<>>, available |-> ctl.available, copy |-> ctl.copy, sent |-> posted.out]
      after[n \in 0 .. Len(ctl.queue)] ==
        IF n = 0 THEN {start}
        ELSE UNION {Assignments(a, ctl.queue[n]) : a \in after[n - 1]}
  IN after[Len(ctl.queue)]

-----------------------------------------------------------------------------
\* A tick.  The answers and proposals of the controller, and what a driver said, are
\* posted; the passengers of a driver that is deleted, and its requests, go with it.
Posted(d, ms) == [posted EXCEPT !.in[d] = @ \o ms]
Ordered(s) == {s[i].request : i \in DOMAIN s} \ {None}
Offered(s) == {s[i].request : i \in {i \in DOMAIN s : s[i].kind = "SCHEDULE_PROPOSITION"}}

\* A traveller that starts its trip: PedestrianMovement::frame_init.
Ask(r) ==
  /\ r \in Requests \ asked
  /\ asked' = asked \cup {r} /\ posted' = [posted EXCEPT !.asks = @ \cup {r}]
  /\ UNCHANGED <<setting, now, updated, mail, ctl, drv, served, lost>>

\* A step of a driver from x to y: y.sent is posted, and a driver without a route
\* leaves the controller's containers.
Becomes(d, x, y) ==
  LET place == IF x.place = "unloaded" /\ y.toBeRemoved THEN "nowhere" ELSE PlaceAfter(x, y) IN
  /\ drv' = [drv EXCEPT ![d] = [y EXCEPT !.place = place, !.sent = <<>>]]
  /\ posted' = Posted(d, y.sent)
  /\ ctl' = IF y.sure THEN RemoveEntries(ctl, d, y.status) ELSE ctl
  /\ served' = served \cup (Ordered(x.items) \ Ordered(y.items))
  /\ lost' = lost \cup (IF y.toBeRemoved THEN Ordered(y.items) ELSE {})
  /\ updated' = updated \cup {d}
  /\ UNCHANGED <<setting, now, mail, asked>>

\* loadPersons and the driver's frame_init: it subscribes, and parks or cruises.
Load(d) ==
  /\ now = LoadTick[d] /\ drv[d].place = "unloaded"
  /\ LET item == IF d \in setting.parks THEN Parking ELSE Cruising
         x == Say([drv[d] EXCEPT !.items = <<item>>], "SUBSCRIBE")
     IN \E y \in performScheduleItem(x, now >= ShiftEnd[d]) :
          Becomes(d, drv[d], IF y.place = "unloaded" THEN [y EXCEPT !.place = "road"] ELSE y)

\* A conflux, or the parking agent of its car park, updates a driver: updateAgent.
Update(d) ==
  /\ drv[d].place \in {"road", "parking"} /\ mail.out[d] = <<>> /\ d \notin updated
  /\ \E y \in IF drv[d].toBeRemoved THEN {drv[d]} ELSE Ticked(drv[d], now >= ShiftEnd[d]) :
       Becomes(d, drv[d], y)

\* OnCallDriver::HandleParentMessage.  A message to a deleted driver is lost.
Receive(d, i) ==
  /\ i \in DOMAIN mail.out[d]
  /\ LET m == mail.out[d][i]
         x == drv[d]
         y == CASE m.kind = "SCHEDULE_PROPOSITION" ->
                     [x EXCEPT !.prev = IF x.items = <<>> THEN None ELSE Head(x.items).kind,
                               !.items = Trip(m.request), !.updated = TRUE, !.leaving = TRUE]
                [] m.kind = "UNSUBSCRIBE_SUCCESSFUL" -> [x EXCEPT !.toBeRemoved = TRUE]
                [] m.kind = "DELAY_SHIFT_END" -> [x EXCEPT !.waiting = FALSE]
     IN IF x.place = "deleted"
        THEN lost' = lost \cup Offered(<<m>>) /\ UNCHANGED drv
        ELSE drv' = [drv EXCEPT ![d] = y] /\ UNCHANGED lost
  /\ mail' = [mail EXCEPT !.out[d] = Rest(@, i)]
  /\ UNCHANGED <<setting, now, updated, posted, ctl, asked, served>>

\* OnCallController::HandleMessage, a message of a driver.
Handle(d, i) ==
  /\ i \in NextOf(mail.in[d])
  /\ LET m == mail.in[d][i] IN
     /\ \E sure \in SureSeen(d) : ctl' = HandleMessage(ctl, d, m, sure)
     /\ posted' = IF m = "SHIFT_END" THEN [posted EXCEPT !.out[d] = @ \o ShiftEndAnswer(ctl, d)]
                  ELSE posted
  /\ mail' = [mail EXCEPT !.in[d] = Rest(@, i)]
  /\ UNCHANGED <<setting, now, updated, drv, asked, served, lost>>

\* The same, MSG_TRIP_REQUEST.
HandleRequest(r) ==
  /\ r \in mail.asks
  /\ ctl' = [ctl EXCEPT !.queue = Append(@, r)]
  /\ mail' = [mail EXCEPT !.asks = @ \ {r}]
  /\ UNCHANGED <<setting, now, updated, posted, drv, asked, served, lost>>

\* OnCallController::frame_tick.
ControllerTick ==
  /\ Controller \notin updated /\ mail.asks = {} /\ \A d \in Drivers : mail.in[d] = <<>>
  /\ updated' = updated \cup {Controller}
  /\ IF ctl.localTick = Period
     THEN \E a \in computeSchedules :
            /\ ctl' = [ctl EXCEPT !.localTick = 0, !.queue = a.queue,
                                  !.available = a.available, !.copy = a.copy]
            /\ posted' = [posted EXCEPT !.out = a.sent]
     ELSE ctl' = [ctl EXCEPT !.localTick = @ + 1] /\ UNCHANGED posted
  /\ UNCHANGED <<setting, now, mail, drv, asked, served, lost>>

\* The end of a tick: what was posted is distributed.
NextTick ==
  /\ now < EndTick /\ Controller \in updated
  /\ \A d \in Drivers :
       /\ mail.out[d] = <<>>
       /\ drv[d].place \in {"road", "parking"} => d \in updated
       /\ drv[d].place = "unloaded" => now < LoadTick[d]
  /\ now' = now + 1 /\ updated' = {}
  /\ mail' = posted /\ posted' = NoMail
  /\ UNCHANGED <<setting, ctl, drv, asked, served, lost>>

Next ==
  /\ ~ctl.aborted
  /\ \/ NextTick
     \/ ControllerTick
     \/ \E r \in Requests : Ask(r) \/ HandleRequest(r)
     \/ \E d \in Drivers :
          \/ Load(d) \/ Update(d)
          \/ \E i \in DOMAIN mail.out[d] : Receive(d, i)
          \/ \E i \in DOMAIN mail.in[d] : Handle(d, i)

Spec == Init /\ [][Next]_vars
=============================================================================
