# SimMobility: a verification development in TLA+

SimMobility (`src/dev/Basic`) is an agent-based simulator of urban mobility. Three
programs share one kernel: short-term (microscopic traffic), mid-term (mesoscopic
supply and activities) and long-term (land use and the housing market). The kernel is a
bulk-synchronous machine. A main thread and groups of worker threads go through numbered
ticks; within a tick the workers update disjoint sets of entities, and between two ticks
the main thread, alone, hands over what the entities left for each other. Almost nothing
is locked: the program is correct only if the barriers, the lists of pending work and the
message queues keep to that discipline. That is what these modules are about.

## Inventory

| Component | Source (under `src/dev/Basic`) | State | Operations | What makes it correct |
|---|---|---|---|---|
| Flexible barrier | `shared/util/FlexiBarrier.cpp` | threshold, count, generation | `wait`, `contribute` | nobody passes early, nobody is left behind, a contribution fits |
| Time-step protocol | `shared/workers/WorkGroupManager.cpp`, `WorkGroup.cpp`, `Worker.cpp` | three shared barriers, a macro barrier per group, countdown and clocks of each group, each worker's tick | `waitAllGroups_*`, `waitFrameTick`, `waitFlipBuffers`, `waitAuraManager`, `waitMacroTimeTick`, `threaded_function_loop` | workers and main never touch the same data at once, all clocks agree, the run ends |
| Message bus | `shared/message/MessageBus.cpp` | per thread: output, future and input queue, event publisher; context of each handler; dispatch clock | post, send, publish, subscribe, (re-, un-)register, distribute, dispatch | nothing lost, doubled, late, or run on a foreign thread |
| Life cycle of entities | `WorkGroup.cpp`, `Worker.cpp`, `shared/entities/Agent.cpp`, `FleetController.cpp` | queues of future agents, lists shared by main and workers, managed sets, collected agents | stage, assign, migrate in and out, update, breed, collect, delete | an agent is in one place, starts in its tick, and is deleted once, when nobody holds it |
| Event publisher, event manager | `shared/event` | listeners by event and context; windows by tick | publish, subscribe, schedule, update | each listener told once, each window fires |
| Control manager | `shared/network/ControlManager.cpp` | simulation state, end tick | pause, run, stop | all threads agree on the end |
| Buffered data | `shared/buffering` | current and next value, managed set | get, set, flip | readers see the last flip |
| On-call service | `shared/entities/controllers`, `medium/entities/roles/driver/OnCallDriver*.cpp`, `medium/entities/ParkingAgent.cpp` | controller: subscribed and available drivers, its copy of their schedules, queue of requests; driver: schedule, status, passengers, waits | subscribe, request, assign, reply, status, available, pick up, drop off, park, end shift, remove | a request is with one driver, an available driver is free, the copy agrees with the schedule, a shift ends after the trips |
| Housing market | `long/core`, `long/agent`, `long/role`, `long/model/AwakeningSubModel.cpp` | entries of the market; per agent: units, units on sale, best bid of the day; per household: bidding window, days to move in, awakening | list, bid, answer, accept, withdraw, reprice, move in, hand over, awaken, launch | a unit has one owner or buyer, a household one bid in play, no unit misses its day |
| Conflux | `medium/entities/conflux` | persons by segment and list, virtual queues | transfer, kill, update in two steps | persons conserved |
| Broker | `short/entities/commsim` | registered agents, clients, connections | register, wait, process | no agent waits for ever |
| Fleet, bus and train controllers | `shared/entities` | pending children, fleets | `frame_tick`, `unregisterChild` | children start in time |
| Signals, intersections, behaviour, routes, partitions, configuration | elsewhere | numeric state, maps | | not protocols |

The components call each other in one direction per phase. A worker thread calls
`ThreadDispatchMessages`, then its entities' `update`, which post to the bus and to the
worker's lists. Main calls `stageEntities` and `collectRemovedEntities` of each group on
the lists the workers filled, then `DistributeMessages`. Callbacks (message handlers and
event listeners) run on the thread that owns the handler. The hard behaviours are the
interleavings across barrier boundaries, groups that skip ticks (granularity above one),
handlers that move or disappear while messages for them wait, deletion that overlaps the
next tick, and the last tick. On top of the kernel, the housing market and the on-call
service are protocols between agents on several threads that hear of each other a tick
late, in messages that cross each other: what one party believes of the other is
stale by design. `PROJECT.json` lists these hazards line by line under `hazards`.

## Modules

| Module | What it is |
|---|---|
| `FlexiBarrier` | the barrier as a record and its two locked operations |
| `WorkGroups` | main and worker threads over the barriers; extends `FlexiBarrier` |
| `PhaseClock` | the abstract specification: rounds in which every thread arrives once |
| `WorkGroupsInv` | properties, the refinement to `PhaseClock`, the inductive invariant `IInv` |
| `WorkGroupsProofs` | type correctness, proved; arrivals and counts of the barriers; every worker step preserves `IInv` |
| `WorkGroupsTheorems` | every step of main preserves `IInv`; the safety theorems; the protocol implements `PhaseClock`, proved |
| `MessageBus`, `MessageBusInv` | the bus and its properties |
| `MessageBusProofs` | the bus delivers on time, at home and once, and its balance holds, proved |
| `EntityLifecycle`, `EntityLifecycleInv` | the life of short-term agents and its properties |
| `EntityLifecycleProofs` | an agent is in one place, gets no dangling mail and starts in time, proved |
| `HousingMarket`, `HousingMarketInv` | the housing market, its properties and its refinement |
| `UnitTitle` | the abstract specification of the market: who has a unit |
| `HousingMarketProofs` | a household has one bid in play, proved |
| `HousingMarketOwnership` | types, the claims to the units, the days of their listing and the refinement of `UnitTitle`, proved |
| `OnCallService`, `OnCallServiceInv` | controller, drivers, parking agent and travellers of the on-call service, its properties and its refinement |
| `TripLife` | the abstract specification of the service: the hands a request goes through |
| `OnCallViewProofs` | a driver and what the controller knows of it, through every operation of either, proved |
| `OnCallServiceProofs` | the safety of the service and its refinement of `TripLife`, proved |
| `MC*` | small instances for TLC, with one `.cfg` per run |

A few definitions named after a fault (`CountDownWithoutReset`, `DueLater`, ...) are
seeded faults: each replaces the definition it precedes, and makes the property it was
written for fail. No action uses them.

### The time-step protocol

`WorkGroups` follows the code barrier call by barrier call. `pc` names the piece of code a
thread is in: a worker goes `update`, `frame`, `flip`, `bus`, then `macro` if its group
has a granularity above one and `extraActive` says so, and back; main goes through the
loops of the three phases and the countdown. `FlexiBarrier::wait` is two steps, `Enter`
(the locked part up to the condition variable) and `Leave` (a sleeper that sees a new
generation), so a slow sleeper may leave long after others have gone on. `contribute` is
the one step `Visit` makes for a group away from offset zero. What the threads compute is
left out: `perform_frame_tick` is one step that advances the worker's clock, since it
touches no barrier. Two barriers differ only by name: the `boost::barrier` of a group
behaves as a `FlexiBarrier` on which everyone waits with one.

`PhaseClock` says what this is for: numbered rounds (the phases of all ticks), in which
each thread arrives exactly once, on its own or by somebody's answer, and which end
exactly when the last one has arrived. The refinement maps `round` to the sum of the
generations and `arrived` to the threads a barrier holds or main has answered for. It
rules out early releases, double arrivals and waiting on the wrong generation without
naming any count.

### The message bus

`MessageBus` takes from `WorkGroups` that workers and main alternate: `stage` says which
part of a tick each thread is in. Workers empty their input queue (`drain`), then update;
main distributes when all are idle. The two halves of `DistributeMessages` are the action
`DispatchMessages` (all queues of all threads, in one step because all others wait) and
main's own `ThreadDispatchMessages`. Queues are sets: the code's heaps order entries by
priority only, so any head of highest priority may come up. Entity code is free: while it
runs a thread may post, publish, subscribe, die or move handlers in any order, with only
the conditions the API checks. `MaxPosts` bounds the messages of a run. Listeners are
reduced to the sources each thread's publisher has listeners for. `Crash` is an action:
a null context that is dereferenced, and an exception that leaves the thread.

### The life cycle of entities

`EntityLifecycle` has one variable per list in the code and one action per function that
moves agents between them. Main's staging is a step per agent (`StageEntity`), since the
choice of the least loaded worker depends on those before it. The deletion at the end of
`waitAllGroups` is a step of its own that interleaves with the next tick's updates, as in
the program. Messages are reduced to where they wait and whom they are for. The controller
that breeds children is `FleetController` (`BusController` has the same `frame_tick`).
Entity code is assumed not to address agents that died in an earlier tick; within the
tick of a death, messages to the dying agent are posted freely. The model is of agents
whose exceptions are caught: `Agent::update` rethrows those of a `MobilityServiceDriver`.

### The housing market

A day is a base tick. A worker first hands its agents the messages of the day before
(`Handle`), then updates them in the order of its set; `Crews` gives the agents of each
worker, and the workers interleave message by message and agent by agent. The market's own
messages (entries added and removed) are handled by main between two days (`Distribute`),
so a unit listed on a day is seen by bidders on the next. The queues are heaps: messages
of one day come in any order, custom messages before events.

| In the model | In the code |
|---|---|
| `market` | `HousingMarket::entriesById` |
| `seller[a]` | `unitIds`, `sellingUnitsMap`, `maxBidsOfDay` and the active flag of a seller role, of a household or of an agent |
| `household[h]` | the bidder role (active, window, `moveInWaitingTimeInDays`, its bid) and what others write in the `Household`: `lastBidStatus`, `timeOffMarket`, awakening day |
| `entryDay` | `Unit::biddingMarketEntryDay` |
| `ReceiveBid`, `ReceiveResponse`, `ReceiveTransfer`, `ReceiveEvent` | the message and event handlers of the roles |
| `UpdateHousehold`, `UpdateSeller`, `UpdateIdle` | `onFrameTick` of a household, of a freelance or developer agent, of a household that sleeps |
| `Awaken`, `UpdateInjector` | daily awakenings by the model and `EventsInjector` |
| `Launch` | the unit of a developer's project enters the market |

An `onFrameTick` is one step: it writes only to its own agent, to the household of a bidder
it accepts, and to its queue of messages. That others write in the same `Household` at the
same time is harmless only because of `OneBidInPlay`. Prices are left out: a unit's
expectations are numbered, bids have small values, and a bid is compared with the target of
the current expectation. How a household ranks units is a free choice among those it may
see. The random first time on the market of a vacant unit is taken as all of
`TimeOnMarket`. Two behaviours of the code shape the model: `timeOffMarket` is never
decremented, so a household wins at most once from household sellers; and a household
needs a window of three days or more to hear that it won.

`UnitTitle` is what the market promises: a unit goes from its holder to the buyer it was
promised to or to a freelance agent, and if it is lost on the way (the code can lose one:
a buyer that hears two acceptances keeps the last, a role that sleeps ignores messages),
nobody else ever has it. `TitleOf` maps the lists, messages and waiting households to
that title. `TransferUnitToFreelanceAgent` erases from the list it walks and so skips
every other unit: `Erased` and `Posted` say what it does. Units that were handed over
several at a time (`garbled`) are exempt from `OneClaim` and `NeverStranded`, and
`UnitTitle` calls them muddled and says no more of them. In the instance `h1` has two units,
so that this happens too.

### The on-call service

A tick hands every party the messages of the tick before, then updates it. Controller and
drivers are on workers that interleave freely. Drivers live in confluxes, or in the parking
agent of a car park, which is then the only one that updates them.

| In the model | In the code |
|---|---|
| `ctl` | `subscribedDrivers`, `availableDrivers`, `controllerCopy` of the schedules, `requestQueue`, `localTick`; `aborted` when `at` throws for an unknown driver |
| `drv[d]` | status, schedule (`items`), `isScheduleUpdated`, `toBeRemovedFromParking` and `isExitingParking` (both `leaving`), `isWaitingForUnsubscribeAck`, the two removal flags, passengers, and the list it is in (`place`) |
| `Load`, `Update` | `frame_init`, then `Conflux::updateAgent` with `frame_tick`; the outcomes of a tick are the set `Ticked`, built from the driver's own operations |
| `Receive`, `Handle`, `HandleRequest` | `HandleParentMessage` of a driver, `HandleMessage` of the controller |
| `ControllerTick` | `frame_tick`: the greedy assignment of all queued requests every `Period` |
| `Ask` | a traveller's request |
| `RemoveEntries` | a driver without a route removes itself from the controller's containers, from its own worker |

Space is left out: a path may end at any tick, up to `MaxArrivals` ends in one, and the
closest driver is any that the controller may choose. A driver that was deleted may still
be named in the containers: what the controller reads of it is freed memory, and any value
is possible (`SureSeen`, `MayServe`). Access of two threads to one container is one atomic
step; what a torn one would do is not modelled. A driver without a route that is to be
deleted does no more in that tick than what the code's case for a parked one does: past its
shift it still posts SHIFT_END (`EndParked`). In the code one on its way to a pick-up may
also roll along its old path, and is deleted at the end of the same update. The car park of
a driver's start (`frame_init`) and that of a trip's end (the controller's schedule) are
looked up apart, so `setting.parks` names the drivers and the requests that have one near. A
driver's reply to a proposal goes to the sender of a copied request, which is null: the bus
drops it, and it is no message of the model. The model reaches all of these: every request served, delayed shift ends, the controller that aborts because
the driver whose shift ends was removed, deleted drivers among the available ones,
requests that are lost with a driver, and drivers that nobody updates.

`TripLife` is what the service promises a traveller: its request is sent, queued, proposed to
one driver, awaited with that driver, aboard, and done; a request never goes back or
changes driver, and is lost only with its driver. `TripOf` reads that state from the
messages, the controller's queue, and the driver's schedule and passengers together, so a
traveller that is in one of the last two and not in the other would be `forgotten`, which
`TripLife` does not allow.

A driver that parks after its last drop-off as its shift ends says STATUS, AVAILABLE and
SHIFT_END in one tick. The heaps of the bus keep no order between entries, but these
messages have priorities (10, 8 and 5), so the controller makes the driver available before
it lets it go. `NextOf` takes the messages of one driver by priority, equal ones in any order;
those of different drivers, and requests, interleave freely, a superset of what the heaps do.
The only different messages of a driver in one tick with equal priority are SUBSCRIBE and
SHIFT_END, of one that is loaded past the end of its shift: handled the wrong way round, the
controller aborts. The seeded fault of `BooksAgree` takes the priority of AVAILABLE away: a
driver that was let go is then available again.

## Runs

| Run | Instance | Shows |
|---|---|---|
| `wg_short` | 3 groups, 4 workers, granularities 1, 2, 3, 4 ticks | all safety properties, refinement of `PhaseClock`, termination, `IInv` |
| `wg_medium` | 3 workers, granularity 1, 3 ticks, zero barrier | exclusion, zero barrier, refinement, termination, `IInv` |
| `wg_hang` | mid-term, granularity 2 | violation: main and workers wait for each other in tick 1 |
| `bus_short` | workers of granularity 1 and 2, handler on main, 3 posts, 3 dispatches | accounting, due times, home threads, at most once |
| `bus_medium` | two workers, handlers that move, 2 posts | accounting and due times survive moves |
| `bus_last_events` | as `bus_short` | violation: the last event of a dying agent is never received |
| `bus_forward` | as `bus_medium` | violation: a forwarded message is handled twice |
| `entities` | 2 workers, 4 agents, 4 ticks, granularity 1 | one place per agent, no stale mail, start in time, deletion |
| `entities_late` | granularity 2, least loaded | violation: late staging kills an agent |
| `market` | 2 households (2 units), 1 vacant unit, 1 unit built to order, 2 workers, 9 days | one claim per unit, one bid per household, no missed listing, refinement of `UnitTitle` |
| `oncall` | 2 drivers, 2 requests, 10 ticks, 6 settings (car parks near nothing, a start and a destination, or everything; routes may be missing or not) | a request in one place, available drivers free, schedules agree, shifts end after trips, refinement of `TripLife` |
| `oncall_parked` | the same with car parks everywhere and all routes | violation: a parked driver accepts a trip at the end of its shift and never drives it |

**Bounds.** Granularities 1, 2 and 3 with four ticks give every relation of a group's step
to the end of the run: it ends with an update, exactly at its last countdown, and in the
middle of a step (where `extraActive` must keep workers out of the macro barrier). Two
workers in a group are enough for contributions above one and for overtaking. On the bus,
three posts allow one message, one timer and an event, or a death (two posts) with a
message; three dispatches let a timer of two come due and the worker of granularity two
skip a dispatch. The life cycle needs four ticks for a child that is bred in tick 0,
starts in tick 1, ends in tick 2 and is deleted in tick 3; start times of 0, 2 and 3 ms at
2 ms a tick are a start at once, exactly on a tick and between two ticks. Its
constant `Addressees` bounds whom messages are posted to. In the market, windows of three
days let a household bid, win, hear of it, wait two days and move in, sell or hand over its
own unit, and be awakened once more within nine days, while the vacant unit goes off the
market unsold and comes back. The household that moves has two units to hand over at once,
and a window of one day in which it hears nothing. A household that waits and is told no in
between (status 2) does not occur in these bounds. In the
on-call run shifts end in ticks 5 and 7: before a request is assigned, during a trip,
as it is proposed, and in a car park; two arrivals in a tick let a driver pick up, drop
off and go on at once; ten ticks let the later driver serve a request the first left.

**Fairness.** Liveness (`Terminates`, `Reclaimed`) assumes weak fairness of main and of
each worker: they are operating-system threads, and an update that never returns is not
modelled. No fairness is put on single actions: within a thread the next step is
determined, or chosen by entity code that reaches its end.

**The five violations** are disagreements between a document or comment and the code;
`findings` quotes the lines. In short: outside short-term nobody answers for idle groups
at the message bus barrier (`wg_hang`); the priorities of the two internal events are
the wrong way round for a max-heap (`bus_last_events`); a forwarded message falls through
to its handler (`bus_forward`); staging by the group's update is incompatible with
`checkFrameTimes`' one base tick (`entities_late`); the parking agent drops a driver at
the end of its shift although the controller may delay it (`oncall_parked`).

## Proofs

`WorkGroupsProofs` proves `TypeCorrect`, `Spec => []TypeOK`, for every number of groups
and workers, all granularities, all start and end ticks and each of the three programs,
from the named assumptions of `WorkGroups` (finite workers, main not among them, positive
granularities, a run that starts before it ends). It is inductive as it stands: a wait is
guarded by the absence of overflow, so the count of a barrier stays positive. There is one
step per action, over lemmas about the barrier operations and the shared parts of
actions (`EnterWait`, `LeaveWait`, `Visit`).

The safety properties need `IInv`. None is inductive alone: that no worker
updates while main distributes follows from the generations of all three barriers.
`IInv` states, for main (`MainInv`), each group (`GroupInv`) and each worker
(`WorkerInv`), the generation of each barrier as a function of the thread's tick and place
in the loop, and ties the count of each barrier to the threads that have arrived
(`CountInv`, `MacroCountInv`). TLC checks it in `wg_short` and `wg_medium`.

`Invariant`, `Spec => []IInv`, is proved for the same constants, in two modules. The argument:

- *Counts* (`WorkGroupsProofs`). `ArrivedAt(b)` is who the barrier holds plus whom main
  has answered for. An arrival of a set that is disjoint from it fits, and completes the
  barrier exactly when the union is all threads (`ArrivalFits`, by cardinality). A worker
  that waits has not been answered for, and one that is answered for is not waiting
  (`AnsweredNotBlocked`): its group's countdown is not at zero, so no update can be live.
- *Steps that release nobody* leave every generation alone, and each group's view
  (`SameView`: its clocks, whether main is in its update, its macro barrier). Invariants
  stated over that view are untouched (`GroupUntouched`, `WorkerUntouched`). `Keeps` is the
  weaker view for the steps in which main goes past a group.
- *Steps that release a barrier.* The last arrival finds everybody there (`AllArrived`),
  so one generation moves and each thread's invariant moves with it: `ReleaseBlocked`,
  `ReleaseAnswered`, and `ReleaseAtBus`, where the worker's next place depends on its
  group's clock (another tick, the macro barrier, or the end).
- *Macro barriers.* The same with one group's team (`MacroEnter`). `MacroMeeting` shows that
  main and the workers that meet there agree on the tick, which is what makes the early
  `currTick` and `extraActive` consistent.

From `IInv`: `NoOverflow`, `MainAlone`, `FlipAlone`, `TogetherInTick`, `ClocksAgree` and
`InitialisedFirst` establish the checked properties `ContributionFits`, `MainExclusive`,
`FlipIsolated`, `SameTick`, `ClockAgreement` and `ZeroBarrier`. In most of them two threads
in forbidden places would need two different triples of generations.

`ImplementsClock` is `Spec => ClockSpec`: threads are only ever held by the barrier whose
turn the generations say it is (`Turn`, `ArrivedTurn`), so an arrival at one barrier is an
arrival in the clock's round, an answer is an arrival of a set, and all other steps, a late
sleeper's return among them, are stutters.

The theorems do not exclude mid-term and long-term with a granularity above one, where the
run hangs (`wg_hang`): those instances are safe, and not live.

`HousingMarketProofs` proves `OneBid`, `Spec => []OneBidInPlay`, for all agents, units,
workers and intervals, from `MarketAssumption` (households and sellers are apart, some
worker updates each agent). `OneBidInPlay` speaks of the bids sent and the best bids, and is
not inductive: it does not say why yesterday's best bid is gone when today's arrives. `IInv`
adds the timing. A household posts a bid when it is updated, once a day (`OnePosted`). Who
still has mail, or holds a best bid, has still to be updated (`Cleared`), so the bids of a
day are all delivered and cleared on the next. A best bid is held only by a seller that is
active (`Cleared`), and a household's seller only while its bidder is (`RolesTogether`), so
the update that clears it takes place. Most steps post no bid and only clear (`Quiet`,
`QuietInv`); the ones that need an argument of their own are `ReceiveBid`,
`UpdateHousehold` and `Distribute`.

`HousingMarketOwnership` goes on from there, with three invariants, each on top of the last:

- *Types.* `Typed` says what a message of each kind carries, and that a seller offers only
  what it has. It gives `TypeCorrect` (`TypeOK` needs `RolesTogether` of `IInv` as well). It
  needs to know what `Without`, the loop that drops sold and transferred units, leaves of any
  list: the rest, each unit as often as before (`WithoutProperties`). That is an induction
  over the length, made first-order: the least number outside a set comes from the
  well-founded order of finite sets (`Least`, `Induction`).
- *Claims.* `Single` says that a unit has one claim at most, `Unplanned` that one that was
  not launched has none. `HasClaim` tells a message that was posted from the same message
  delivered, and a promise on its way from a household's wait, so that it is stronger than
  `Claims`. Every step adds no claim to a unit (`Fewer`), puts one in the place of another
  (`ReplacedKeeps`), or launches a unit without any. `OneClaimAlways` is
  `Spec => []OneClaim` under `OneOwner`: in the input data no unit is in two lists, or twice
  in one. `HM_Model` gives the units of households to no freelance agent, but never checks
  that two households do not live in the same one.
- *Days.* `HandedOver` says that a unit that was posted to a freelance agent is to be listed
  after today, and one that is in the mail today or later. With `IInv` (an agent with mail has
  still to be updated) the unit is in the list before the day is over. `NeverStrandedAlways`
  is `Spec => []NeverStranded`, although the agents compare the day with `==`.

Both speak of all units but `garbled` ones, those of a household that transfers several at
once, for which they are false: that is a behaviour of `TransferUnitToFreelanceAgent` that the
run exhibits too.

`ImplementsUnitTitle` is `Spec => TitleSpec`, again under `OneOwner`. A unit that is not
garbled has one claim at most (`Single`), and its title is that claim (`TitlesAre`). So it is
enough that each claim after a step comes from one before it whose title may become its own,
and that what is in a list does not vanish (`Traced`): a response becomes a wait of the same
household, a wait or a transfer an entry in the list of its household or agent, an entry a
promise or a transfer. That nobody sells to itself (`Sell` has `t.by # s.by`) needs one more
invariant, `NoOwnBids`: no bid is sent to its bidder, so none is kept as a best bid.

`MessageBusProofs` proves the bus for every number of threads, handlers, sources and
messages, all granularities and all three programs. `IInv` is about time and balance:

- *Time.* What is not distributed was posted since the last distribution, or is a timer due
  later, so that what a distribution takes is due exactly then (`Timely`). A thread empties
  its queue in each tick of its group before it updates (`Drained`); what waits for it came
  after the last such tick (`Fresh`), and the next one is less than a granularity away. This
  gives `OnTimeAlways`. It needs how `n % s` goes on at `n + 1` (`NextRemainder`).
- *Balance.* What is distributed is neither among what waits, which was due earlier, nor
  among what was dropped. So cardinalities add up: a message becomes one entry of one queue,
  or is dropped, and an event becomes one entry of each queue (`DistributedCount`). This is
  `AccountingAlways`.

`InputsHomeAlways` and `AtMostOnceAlways` need a second invariant, outside mid-term: a handler
leaves its thread only while that thread updates, when its queue is empty, so no message is
ever with another thread (`Homes`), none is forwarded, and each is in one queue of one thread
until it is handled (`Once`). `AtMostOnceAlways` has the hypothesis `Mode # "medium"`: in
mid-term forwarding does handle a message twice, which is the finding of `bus_forward`.

`EntityLifecycleProofs` proves the life of the agents for all agents, workers, loaders,
strategies and start times. `IInv` says that exactly one list of one holder has the agent
(`Placed`: a step leaves it there or moves it, `Stays` and `Moves`), where agents can be
while main stages, collects and deletes (`Phases`), that the redundant records (`currWorker`,
`all_agents`, `toBeRemoved`) agree with that place (`Recorded`), and that what is posted is
for nobody who is about to be deleted, what is distributed for an agent of the reader
(`Addressed`). `OnePlaceAlways`, `MigrationsAlways` and `NoDanglingMailAlways` follow.
`StartsInTimeAlways` has the hypothesis `Step = 1`, as a larger step does start agents late
(the finding of `entities_late`). Its invariant `InTime` says that who waits is not due before
the next tick, whoever is handed on is due in it, and the controller, updated in every tick,
counts the ticks right.

What is left of it for every granularity is `StartsInGroupTickAlways`: no agent is updated
before its start time, and one that waited in the group's queue is first updated less than a
group tick (`Step` base ticks) after it, where `checkFrameTimes` allows one base tick. For the
children of the controller only the first half holds, as it counts its updates for ticks. The
invariant `ForTick` compares start times with the next tick of the group (`NextTick`); it
rests on how far apart these are (`GroupTicks`). No run states this theorem: in `entities`
(`Step = 1`) a first update at such a time already violates `StartsInTime`.

`OnCallServiceProofs` proves the on-call service for all drivers, requests, load and shift
times, periods, numbers of arrivals in a tick and settings, from `ServiceAssumption`. What
one party knows of the other is a tick old, so the properties hold only together with all
that is under way. The invariant `OnCallInv` has two halves:

- *Drivers.* The view of a driver (`ViewOf`) is its record, its messages of this tick and
  the next in both directions, and the controller's entries for it. `Good` says four things
  of a view. `Loaded`: the schedule has one of the shapes of a trip, and the status and
  passengers go with it. `OneJob`: who is free, or is about to say so, has no trip and no
  offer, and there is at most one of the two. `Copied`: the copy of a schedule is its rest,
  up to a status message on its way. `Ending`: who has a trip, an offer or is about to say
  that it is available is known to the controller; a SHIFT_END that waits beside a trip finds a
  copy that is not empty; and one that is let go has no trip and is unknown. `OnCallViewProofs` shows it for each operation without any
  state around it: a tick that ends any number of paths (`DriveGoing`, over the recursive
  function of `Drive`, by `Induction`), a message received, one handled by its priority
  (`LastTaken`), a trip assigned, the end of a tick.
- *Requests.* `InHand` says that a request that was asked for is in one place (`Alone`:
  there is a place, and any other is that one), and the rest in none. A step leaves it
  there or takes it to one other (`Stays`). The controller's tick, which assigns its whole
  queue, goes through `Interim`, the state after the first n requests (`InterimGoesOn`,
  `AllComputed`), in which those still to be looked at are a place of their own.

`OneHandAlways`, `FreeAlways`, `CopyAlways`, `IdleAlways`, `BooksAlways` and
`OnCallTypeCorrect` follow, so all that `oncall` checks holds for every instance.

`ImplementsTripLife` is `Spec => TripSpec`. The place of a request is the state of its life
(`Stage`, `OnCallLives`), for which the driver's passengers and schedule have to agree. From
every place a step leads to one that comes next (`Leads`); as a request is in one place
after the step too, there is nothing else to exclude, but in the controller's tick, where
what was in the queue must be in it still or be offered.

Only model-checked: `Terminates` and `Reclaimed`, because liveness under fairness is out of
the prover's reach.

## Plan

All components that are modelled are checked by runs and proved about. What is left, the most
valuable first:

1. Life cycle: timers to dead agents, the mid-term path with confluxes as loaders.
2. Event publisher: listeners changed from callbacks. (No program uses `EventManager`.)
3. Stop in interactive mode over `WorkGroups`, and registration of threads at tick zero.

The time-step protocol needs nothing more: it is modelled, checked and proved down to its
abstract clock. A new component gets one module, one properties module, one MC module and
one run, in the pattern of `OnCallService`.

## Not modelled

Single-threaded mode (no main program enables it), pause, profiling, partitions over MPI,
`PublishInstantaneousEvent`, buffered values (a flip is one step of one worker), the domain
models (car following, signals, route and activity choice, pricing), configuration,
databases and output. Most of the repository is of that last kind: numeric models and
sequential data processing with no protocol to check. Of the market: prices, the
developer's projects, tenure, resumed simulations. Of the on-call service: shared rides,
study areas, energy, rebalancing, on-hail drivers. `PROJECT.json` gives the reason for
each component.
