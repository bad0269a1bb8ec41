------------------------------ MODULE TripLife -------------------------------
(***************************************************************************)
(* The life of a trip request.  The abstract specification of what the     *)
(* controller and the drivers of OnCallService.tla do for travellers       *)
(* between them: a request goes to one driver, which picks its traveller   *)
(* up and drops it off.  It never goes back to the queue or to another     *)
(* driver; it may be lost with the driver, whether aboard or not.          *)
(***************************************************************************)
CONSTANTS Requests, Drivers

VARIABLE trip  \* of each request: its state, and the driver it is with

Trips == [is : {"unasked", "sent", "queued", "done", "lost"}, by : {"none"}]
           \cup [is : {"proposed", "awaited", "aboard"}, by : Drivers]

Init == trip = [r \in Requests |-> [is |-> "unasked", by |-> "none"]]

Send(s, t) == s.is = "unasked" /\ t.is = "sent"
Queue(s, t) == s.is = "sent" /\ t.is = "queued"
Propose(s, t) == s.is = "queued" /\ t.is = "proposed"
Accept(s, t) == s.is = "proposed" /\ t.is = "awaited" /\ t.by = s.by
PickUp(s, t) == s.is = "awaited" /\ t.is = "aboard" /\ t.by = s.by

\* The driver may pick up and drop off in one tick.
DropOff(s, t) == s.is \in {"awaited", "aboard"} /\ t.is = "done"
Lose(s, t) == s.is \in {"proposed", "awaited", "aboard"} /\ t.is = "lost"

Next ==
  /\ trip' \in [Requests -> Trips]
  /\ \A r \in Requests : LET s == trip[r]
                             t == trip'[r] IN
       \/ t = s
       \/ Send(s, t) \/ Queue(s, t) \/ Propose(s, t) \/ Accept(s, t)
       \/ PickUp(s, t) \/ DropOff(s, t) \/ Lose(s, t)

Spec == Init /\ [][Next]_trip
=============================================================================
