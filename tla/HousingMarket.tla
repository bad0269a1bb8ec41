---------------------------- MODULE HousingMarket ----------------------------
(***************************************************************************)
(* The housing market of the long-term simulation, a day per base tick:    *)
(* households bid for units, sellers answer and accept, units change       *)
(* hands, households are awakened and leave (long/core/HousingMarket.cpp,  *)
(* long/agent/impl, long/role/impl, long/model/AwakeningSubModel.cpp,      *)
(* long/core/EventsInjector.cpp).                                          *)
(*                                                                         *)
(* A day is a base tick of WorkGroups.tla over the bus of MessageBus.tla.  *)
(* A worker handles the messages for its agents, then updates them in the  *)
(* order of its set of entities.  What is posted on one day is handled on  *)
(* the next, custom messages before events and otherwise in any order (the *)
(* queues are heaps); the market's own messages are handled by the main    *)
(* thread in between.  An agent's onFrameTick is one step.                 *)
(*                                                                         *)
(* Left out: prices (the expectations of a unit are numbered, and a bid is *)
(* compared with the target of the current one), how a household values a  *)
(* unit (it may prefer any it may see), tenure, resumed simulations, and   *)
(* what is only written to the output.                                     *)
(***************************************************************************)
EXTENDS Integers, Sequences, FiniteSets

CONSTANTS
  Households, Freelance, Developers,  \* the agents that hold units
  Crews,           \* the agents of each worker, in the order of its entities
  Units,
  Initial,         \* the units of each agent when the simulation starts
  Bto,             \* the units built to order: one price, fewer bidders
  Eligible,        \* the households that may buy them
  Values,          \* the values of bids
  Target,          \* the target price of each expectation
  EntryDay,        \* when each vacant unit enters the market first
  LaunchDay,       \* when each planned unit is launched by the developer model
  InitialWindow,   \* the windows each household may have on the first day
  TimeOnMarket, TimeOffMarket, Interval,   \* timeInterval between two expectations
  Window, BTOWindow,                       \* householdBiddingWindow and the BTO one
  MoveInDays,                              \* housingMoveInDaysInterval
  BuySellOffset, AdvanceOffset,            \* offsetBetweenUnitBuyingAndSelling and the other
  OffSuccessful, OffUnsuccessful,          \* awakeningOffMarket...Bid
  EndDay,          \* config.ltParams.days
  MaxAwakenings    \* a bound: how often the injector awakens a household

Sellers == Freelance \cup Developers
Agents == Households \cup Sellers
Injector == "injector"

NumExpectations == (TimeOnMarket + Interval - 1) \div Interval

ASSUME MarketAssumption ==
  /\ Households \cap Sellers = {} /\ Freelance \cap Developers = {}
  /\ Injector \notin Agents /\ Freelance # {} /\ IsFiniteSet(Units)
  /\ Crews \subseteq Seq(Agents)
  /\ \A a \in Agents : \E c \in Crews : \E i \in DOMAIN c : c[i] = a
  /\ Bto \subseteq Units /\ Eligible \subseteq Households /\ Values \subseteq Nat
  /\ Initial \in [Agents -> Seq(Units)]
  /\ EntryDay \in [Units -> Nat] /\ LaunchDay \in [Units -> Nat \ {0}]
  /\ InitialWindow \in [Households -> SUBSET (0 .. Window)]
  /\ TimeOnMarket \in Nat \ {0} /\ TimeOffMarket \in Nat \ {0} /\ Interval \in Nat \ {0}
  /\ Target \in [0 .. NumExpectations - 1 -> Nat]
  /\ Window \in Nat \ {0} /\ BTOWindow \in Nat \ {0} /\ MoveInDays \in Nat \ {0}
  /\ BuySellOffset \in Nat /\ AdvanceOffset \in Nat
  /\ OffSuccessful \in Nat \ {0} /\ OffUnsuccessful \in Nat \ {0}
  /\ EndDay \in Nat /\ MaxAwakenings \in Nat

None == "none"
NoBid == [unit |-> None, value |-> 0]  \* an invalid CurrentBiddingEntry
Nothing == [u \in {} |-> 0]            \* an empty map

VARIABLES
  day,         \* the base tick
  todo,        \* who has not been updated on this day
  mail,        \* the messages of this day that were not handled yet
  out,         \* what was posted on this day
  market,      \* entriesById
  seller,      \* each agent's unitIds and its seller role
  household,   \* each household and its bidder role
  entryDay,    \* biddingMarketEntryDay of each unit
  planned,     \* the units that were not launched yet
  awakenings,  \* how many households were awakened by the injector
  garbled      \* history: the units of a household that transferred several

vars == <<day, todo, mail, out, market, seller, household, entryDay, planned,
          awakenings, garbled>>

SeqRange(s) == {s[i] : i \in DOMAIN s}

\* s without the members of S.
Without(s, S) ==
  LET kept[i \in 0 .. Len(s)] ==
        IF i = 0 THEN <<>>
        ELSE IF s[i] \in S THEN kept[i - 1] ELSE Append(kept[i - 1], s[i])
  IN kept[Len(s)]

-----------------------------------------------------------------------------
\* InitialAwakenings: some households are awake on the first day, each with a
\* window of its own, which is also its getTimeOnMarket.
Init ==
  /\ day = 0 /\ todo = Agents \cup {Injector} /\ mail = {} /\ out = {} /\ market = Nothing
  /\ seller = [a \in Agents |->
       [active |-> a \in Sellers, units |-> Initial[a], onSale |-> Nothing, maxBid |-> Nothing]]
  /\ \E w \in [Households -> 0 .. Window] :
       /\ \A h \in Households : w[h] \in InitialWindow[h]
       /\ household = [h \in Households |->
            [active |-> w[h] > 0, window |-> w[h], timeOnMarket |-> w[h], awakened |-> 0,
             moveIn |-> -1, toBeOwned |-> None, bid |-> NoBid, lastBid |-> 0,
             offMarket |-> FALSE, acceptedBid |-> FALSE, buySell |-> -1,
             home |-> IF Initial[h] = <<>> THEN None ELSE Initial[h][1]]]
  /\ entryDay = EntryDay
  /\ planned = Units \ UNION {SeqRange(Initial[a]) : a \in Agents}
  /\ awakenings = 0 /\ garbled = {}

-----------------------------------------------------------------------------
\* getCurrentExpectation: the number of a unit's expectation on a day.  The
\* first comparison is with > in the code, so that index = size finds none.
Index(a, u, now) == (now - seller[a].onSale[u]) \div Interval

Expectation(a, u, now) ==
  IF Index(a, u, now) > NumExpectations THEN NumExpectations - 1 ELSE Index(a, u, now)

Available(a, u, now) ==
  u \in DOMAIN seller[a].onSale /\ Expectation(a, u, now) < NumExpectations

\* A unit that is built to order has the same price in all its expectations.
Price(u, e) == IF u \in Bto THEN 0 ELSE e

Satisfies(value, a, u, now) == value >= Target[Price(u, Expectation(a, u, now))]

Response(h, u, what) == [to |-> h, kind |-> "response", unit |-> u, response |-> what]
Add(u, owner, open, price) ==
  [to |-> "market", kind |-> "add", unit |-> u, owner |-> owner, open |-> open, price |-> price]
Remove(u) == [to |-> "market", kind |-> "remove", unit |-> u]
Event(h, what) == [to |-> h, kind |-> "event", event |-> what]

\* Messages are handled before events.
Handle(m) ==
  /\ m \in mail
  /\ m.kind = "event" => \A n \in mail : n.to = m.to => n.kind = "event"
  /\ mail' = mail \ {m}

\* HouseholdSellerRole::handleReceivedBid and RealEstateSellerRole's handler: the
\* role's currentTime is still the day of its last update.  The answer is always
\* one response at most; a bidder that has won elsewhere gets none.
Won(h) == household[h].lastBid = 1 \/ household[h].offMarket

Answer(a, u, best, to, what) ==
  /\ seller' = [seller EXCEPT ![a].maxBid = best]
  /\ out' = out \cup {Response(to, u, what)}

Best(a, u, b) == [v \in DOMAIN seller[a].maxBid \cup {u} |->
                    IF v = u THEN [bidder |-> b.bidder, value |-> b.value]
                             ELSE seller[a].maxBid[v]]

CompareBids(a, u, b) ==
  LET maxBid == seller[a].maxBid IN
  IF u \notin DOMAIN maxBid
  THEN seller' = [seller EXCEPT ![a].maxBid = Best(a, u, b)] /\ UNCHANGED out
  ELSE \/ /\ b.value >= maxBid[u].value
          /\ Answer(a, u, Best(a, u, b), maxBid[u].bidder, "BETTER_OFFER")
       \/ /\ b.value <= maxBid[u].value
          /\ Answer(a, u, maxBid, b.bidder, "BETTER_OFFER")

ReceiveBid(a, m) ==
  LET u == m.unit
      now == day - 1 IN
  /\ Handle(m) /\ m.to = a /\ m.kind = "bid"
  /\ \/ ~ seller[a].active /\ UNCHANGED <<seller, out>>
     \/ /\ seller[a].active /\ ~ Available(a, u, now)
        /\ Answer(a, u, seller[a].maxBid, m.bidder, "NOT_AVAILABLE")
     \/ /\ seller[a].active /\ Available(a, u, now) /\ ~ Satisfies(m.value, a, u, now)
        /\ Answer(a, u, seller[a].maxBid, m.bidder, "NOT_ACCEPTED")
     \/ /\ seller[a].active /\ Available(a, u, now) /\ Satisfies(m.value, a, u, now)
        /\ IF a \notin Developers /\ Won(m.bidder)
           THEN UNCHANGED <<seller, out>> ELSE CompareBids(a, u, m)
  /\ UNCHANGED <<day, todo, market, household, entryDay, planned, awakenings, garbled>>

\* HouseholdBidderRole::HandleMessage; day is the day of the role's last update,
\* which does not take place while the household waits to move in.  The unit's date of
\* occupancy is never ahead: every reply to a bid for it sets it to the bid's day.  A
\* move past the end of the simulation is pending, and its days are counted from there.
BidderDay(h) == IF household[h].moveIn > 0 THEN day - 2 ELSE day - 1

\* Mutant: every move is taken for one past the end.
MoveInWaitFromEnd(h) == MoveInDays + BidderDay(h) - EndDay

MoveInWait(h) == IF EndDay < MoveInDays + BidderDay(h)
                 THEN MoveInDays + BidderDay(h) - EndDay ELSE MoveInDays

Accepted(h, u) ==
  [household[h] EXCEPT !.toBeOwned = u, !.moveIn = MoveInWait(h), !.lastBid = 1,
                       !.offMarket = TRUE, !.acceptedBid = TRUE,
                       !.home = IF EndDay < MoveInDays + BidderDay(h) THEN u ELSE @]

ReceiveResponse(h, m) ==
  LET hh == household[h] IN
  /\ Handle(m) /\ m.to = h /\ m.kind = "response"
  /\ household' = [household EXCEPT ![h] =
       CASE hh.active /\ m.response = "ACCEPTED" -> Accepted(h, m.unit)
         [] hh.active /\ m.response = "NOT_ACCEPTED" ->
              [hh EXCEPT !.lastBid = 2, !.offMarket = @ \/ hh.window = 0]
         [] hh.active /\ m.response = "NOT_AVAILABLE" -> [hh EXCEPT !.bid = NoBid]
         [] OTHER -> hh]
  /\ UNCHANGED <<day, todo, out, market, seller, entryDay, planned, awakenings, garbled>>

\* HouseholdSellerRole::HandleMessage, LTMID_HM_TRANSFER_UNIT.
ReceiveTransfer(a, m) ==
  /\ Handle(m) /\ m.to = a /\ m.kind = "transfer"
  /\ seller' = IF seller[a].active
               THEN [seller EXCEPT ![a].units = Append(@, m.unit)] ELSE seller
  /\ UNCHANGED <<day, todo, out, market, household, entryDay, planned, awakenings, garbled>>

\* HouseholdAgent::processEvent: an awakening by the injector, or by the launch of
\* units, which awakens a household with some probability.
Awakened(h, what) ==
  [household[h] EXCEPT !.active = TRUE, !.moveIn = -1, !.buySell = BuySellOffset,
                       !.window = IF what = "bto" THEN BTOWindow ELSE Window]

ReceiveEvent(h, m) ==
  /\ Handle(m) /\ m.to = h /\ m.kind = "event"
  /\ \/ household' = [household EXCEPT ![h] = Awakened(h, m.event)]
     \/ m.event # "job" /\ UNCHANGED household
  /\ UNCHANGED <<day, todo, out, market, seller, entryDay, planned, awakenings, garbled>>

\* RealEstateAgent::HandleMessage, LT_DEV_BTO_UNIT_ADDED and
\* LT_DEV_PRIVATE_PRESALE_UNIT_ADDED, posted by the developer model.
Launch(d, u) ==
  /\ d \in todo /\ u \in planned /\ day = LaunchDay[u]
  /\ planned' = planned \ {u}
  /\ seller' = [seller EXCEPT ![d].units = Append(@, u)]
  /\ entryDay' = [entryDay EXCEPT ![u] = day - 1]
  /\ out' = out \cup IF u \in Bto THEN {Event(h, "bto") : h \in Eligible}
                                  ELSE {Event(h, "presale") : h \in Households}
  /\ UNCHANGED <<day, todo, mail, market, household, awakenings, garbled>>

-----------------------------------------------------------------------------
\* An agent is updated when its worker has handled its messages, in its turn.
Enter(a) ==
  /\ a \in todo
  /\ \A c \in Crews : a \in SeqRange(c) =>
       /\ \A m \in mail : m.to \notin SeqRange(c)
       /\ a \in Developers => \A u \in planned : day # LaunchDay[u]
       /\ \A i, j \in DOMAIN c : i < j /\ c[j] = a => c[i] \notin todo
  /\ todo' = todo \ {a}

\* notifyWinnerBidders: the best bids of the last day that are accepted.  The
\* developer's role ignores a missing expectation (whose target is zero) and the
\* bidder's other wins.
Sold(a) ==
  {u \in DOMAIN seller[a].maxBid :
     LET b == seller[a].maxBid[u] IN
     IF a \in Developers
     THEN Available(a, u, day) => Satisfies(b.value, a, u, day)
     ELSE ~ Won(b.bidder) /\ Available(a, u, day) /\ Satisfies(b.value, a, u, day)}

\* Mutant: removeUnitId is forgotten.
UnsoldKept(a) == seller[a].units

Unsold(a) == Without(seller[a].units, Sold(a))

\* Mutant: only the accepted bids are cleared.
BestLeft(a) == [u \in DOMAIN seller[a].maxBid \ Sold(a) |-> seller[a].maxBid[u]]

\* maxBidsOfDay.clear(): the other bids of the day are forgotten without an answer.
BestAfter(a) == Nothing

\* What is both for sale by its owner and in the market.
Offered(a, m) == SeqRange(Unsold(a)) \cap DOMAIN seller[a].onSale \cap DOMAIN m

\* adjustNotSoldUnits: the units whose time on the market is over (a household's
\* never is), and those whose asking price has changed.
Expired(a, m) == IF a \in Households THEN {}
                 ELSE {u \in Offered(a, m) : day > entryDay[u] + TimeOnMarket}

Repriced(a, m) ==
  {u \in Offered(a, m) \ Expired(a, m) :
     Available(a, u, day) /\ Price(u, Expectation(a, u, day)) # m[u].price}

ReentryDay(a) == day + TimeOffMarket + IF a \in Developers THEN 1 ELSE 0

\* update: the units that are put on sale.  A household's are at once, a freelance
\* agent's on their entry day, a developer's on the day after.
NewEntryDay(a, m) == [u \in Units |-> IF u \in Expired(a, m) THEN ReentryDay(a) ELSE entryDay[u]]

Listed(a, m) ==
  {u \in SeqRange(Unsold(a)) :
     /\ u \notin DOMAIN seller[a].onSale \ Expired(a, m)
     /\ a \in Freelance => day = NewEntryDay(a, m)[u]
     /\ a \in Developers => day = NewEntryDay(a, m)[u] + 1}

OnSale(a, m) ==
  [u \in (DOMAIN seller[a].onSale \ (Sold(a) \cup Expired(a, m))) \cup Listed(a, m) |->
     IF u \in Listed(a, m) THEN day ELSE seller[a].onSale[u]]

Winners(a) == {seller[a].maxBid[u].bidder : u \in Sold(a)}

SellerMail(a, m) ==
  {Response(seller[a].maxBid[u].bidder, u, "ACCEPTED") : u \in Sold(a)}
    \cup {Remove(u) : u \in Sold(a) \cup Expired(a, m)}
    \cup {Add(u, m[u].owner, m[u].open, Price(u, Expectation(a, u, day))) : u \in Repriced(a, m)}
    \cup {Add(u, a, a \notin Households, 0) : u \in Listed(a, m)}

\* notifyWinnerBidders sets the status of the households themselves.
Notified(a, hs) ==
  IF a \in Developers THEN hs
  ELSE [h \in Households |-> IF h \in Winners(a)
                             THEN [hs[h] EXCEPT !.lastBid = 1, !.offMarket = TRUE] ELSE hs[h]]

\* HouseholdSellerRole::update of a freelance agent, RealEstateSellerRole::update.
UpdateSeller(a) ==
  /\ Enter(a) /\ seller[a].active
  /\ seller' = [seller EXCEPT ![a] =
       [active |-> a \in Developers \/ Unsold(a) # <<>>,
        units |-> Unsold(a), onSale |-> OnSale(a, market), maxBid |-> BestAfter(a)]]
  /\ entryDay' = NewEntryDay(a, market)
  /\ household' = Notified(a, household)
  /\ out' = out \cup SellerMail(a, market)
  /\ UNCHANGED <<day, mail, market, planned, awakenings, garbled>>

-----------------------------------------------------------------------------
\* HouseholdAgent::onFrameTick, in the order of the code.  Its own entries are
\* opened in the market in place, not by a message.
Opened(h) ==
  LET hh == household[h]
      opens == \/ hh.active /\ hh.buySell = 0
               \/ hh.acceptedBid /\ hh.moveIn <= AdvanceOffset IN
  [u \in DOMAIN market |->
     IF opens /\ u \in SeqRange(seller[h].units) THEN [market[u] EXCEPT !.open = TRUE]
                                                 ELSE market[u]]

\* HouseholdBidderRole::bidUnit and pickEntryToBid: a valid entry that is still in
\* the market is bid for again, for more unless its price is reached; otherwise any
\* open entry, or that of the household's home, is picked, or none.  The awakening
\* day has always passed after the first day.
MayBid(h) == household[h].moveIn <= 0 /\ household[h].window > 0 /\ day > 0

Bids(h, m) ==
  LET b == household[h].bid IN
  IF b # NoBid /\ b.unit \in DOMAIN m
  THEN {[b EXCEPT !.value = v] : v \in {v \in Values : v >= b.value}}
  ELSE {NoBid} \cup {[unit |-> u, value |-> v] :
                       u \in {u \in DOMAIN m : m[u].open \/ u = household[h].home}, v \in Values}

BidMail(h, b, m) ==
  IF b = NoBid \/ m[b.unit].owner = h THEN {}
  ELSE {[to |-> m[b.unit].owner, kind |-> "bid", unit |-> b.unit,
         bidder |-> h, value |-> b.value]}

\* TransferUnitToFreelanceAgent erases each unit from the vector before it posts the
\* unit now at the same place (the erased one, if it was the last): of several units,
\* those at odd places leave, and those at even places are posted, yet stay.
Odd(s) == {i \in DOMAIN s : i % 2 = 1}
Erased(s) == {s[i] : i \in Odd(s)}
Posted(s) == {s[i] : i \in (DOMAIN s \ Odd(s)) \cup (Odd(s) \cap {Len(s)})}

\* What remains to be done when the seller's and the bidder's updates are over.
Waited(h) == household[h].moveIn - IF household[h].moveIn > 0 THEN 1 ELSE 0

WindowLeft(h) == household[h].window - IF MayBid(h) THEN 1 ELSE 0

Leaves(h) == Waited(h) = 0 \/ (Waited(h) = -1 /\ WindowLeft(h) = 0)

Transfers(h) == Leaves(h) /\ household[h].lastBid = 1

\* Mutant: ownership is taken whenever the household leaves after a win.
UnitsAfterAnyWin(h) ==
  (IF Transfers(h) THEN Without(Unsold(h), Erased(Unsold(h))) ELSE Unsold(h))
    \o IF Leaves(h) /\ household[h].toBeOwned # None THEN <<household[h].toBeOwned>> ELSE <<>>

UnitsAfter(h) ==
  (IF Transfers(h) THEN Without(Unsold(h), Erased(Unsold(h))) ELSE Unsold(h))
    \o IF Waited(h) = 0 THEN <<household[h].toBeOwned>> ELSE <<>>

\* Mutant: a unit that is transferred is to enter the market at once.
EntryDayAtOnce(h) ==
  [u \in Units |-> IF Transfers(h) /\ u \in Erased(Unsold(h)) THEN day ELSE entryDay[u]]

\* The entry day is set when the seller's role becomes active, when a unit is
\* transferred and, last, when one is taken.
EntryDayAfter(h) ==
  [u \in Units |->
     IF Waited(h) = 0 /\ u = household[h].toBeOwned THEN day + TimeOffMarket
     ELSE IF \/ Transfers(h) /\ u \in Erased(Unsold(h))
             \/ ~ seller[h].active /\ u \in SeqRange(seller[h].units)
          THEN day + 1
     ELSE entryDay[u]]

\* removeAllEntries, then the transfer.
LeavingMail(h, f) ==
  (IF Leaves(h) THEN {Remove(u) : u \in SeqRange(Unsold(h)) \cap DOMAIN OnSale(h, Opened(h))}
                ELSE {})
    \cup IF Transfers(h)
         THEN {[to |-> f, kind |-> "transfer", unit |-> u] : u \in Posted(Unsold(h))} ELSE {}

HouseholdAfter(h, b) ==
  [household[h] EXCEPT
     !.active = ~ Leaves(h), !.moveIn = Waited(h), !.window = WindowLeft(h),
     !.buySell = IF @ = -1 THEN -1 ELSE @ - 1,
     !.bid = IF Waited(h) = 0 THEN NoBid ELSE b,
     !.home = IF Waited(h) = 0 THEN household[h].toBeOwned ELSE @]

UpdateHousehold(h, f) ==
  /\ Enter(h) /\ household[h].active
  /\ market' = Opened(h)
  /\ seller' = [seller EXCEPT ![h] =
       [active |-> ~ Leaves(h) /\ Unsold(h) # <<>>, units |-> UnitsAfter(h),
        onSale |-> IF Transfers(h) THEN Nothing ELSE OnSale(h, market'),
        maxBid |-> BestAfter(h)]]
  /\ entryDay' = EntryDayAfter(h)
  /\ \E b \in IF MayBid(h) THEN Bids(h, market') ELSE {household[h].bid} :
       /\ household' = Notified(h, [household EXCEPT ![h] = HouseholdAfter(h, b)])
       /\ out' = out \cup SellerMail(h, market') \cup LeavingMail(h, f)
                     \cup IF MayBid(h) THEN BidMail(h, b, market') ELSE {}
  /\ garbled' = garbled \cup
       IF Transfers(h) /\ Len(Unsold(h)) > 1 THEN SeqRange(Unsold(h)) ELSE {}
  /\ UNCHANGED <<day, mail, planned, awakenings>>

\* An agent whose roles are not active; a household's offset goes on all the same.
UpdateIdle(a) ==
  /\ Enter(a)
  /\ IF a \in Households
     THEN /\ ~ household[a].active
          /\ market' = Opened(a)
          /\ household' = [household EXCEPT ![a].buySell = IF @ = -1 THEN -1 ELSE @ - 1]
     ELSE ~ seller[a].active /\ UNCHANGED <<market, household>>
  /\ UNCHANGED <<day, mail, out, seller, entryDay, planned, awakenings, garbled>>

\* EventsInjector::update and DailyAwakenings, in a worker of another group.  The
\* status and the window of the household are set at once, the rest by the event.
MayAwaken(h) ==
  LET hh == household[h] IN
  /\ hh.lastBid = 0 => day >= hh.awakened + hh.timeOnMarket
  /\ hh.lastBid = 1 => hh.awakened + OffSuccessful >= day
  /\ hh.lastBid = 2 => hh.awakened + OffUnsuccessful >= day

Awaken(h) ==
  /\ Injector \in todo /\ awakenings < MaxAwakenings /\ MayAwaken(h)
  /\ awakenings' = awakenings + 1
  /\ household' = [household EXCEPT ![h] =
       [@ EXCEPT !.lastBid = 0, !.window = Window, !.timeOnMarket = Window, !.awakened = day]]
  /\ out' = out \cup {Event(h, "job")}
  /\ UNCHANGED <<day, todo, mail, market, seller, entryDay, planned, garbled>>

UpdateInjector ==
  /\ Injector \in todo /\ todo' = todo \ {Injector}
  /\ UNCHANGED <<day, mail, out, market, seller, household, entryDay, planned, awakenings,
                 garbled>>

\* The messages of the day are distributed.  The main thread handles those to the
\* market, in any order: the last one to a unit decides, and an entry that is there
\* already keeps its flag (HousingMarket::HandleMessage).
Entry(m, removed) ==
  [owner |-> m.owner, price |-> m.price,
   open |-> IF m.unit \in DOMAIN market /\ ~ removed THEN market[m.unit].open ELSE m.open]

Distribute ==
  LET posts == {m \in out : m.to = "market"}
      touched == {m.unit : m \in posts}
      removed == {m.unit : m \in {n \in posts : n.kind = "remove"}} IN
  /\ todo = {} /\ mail = {} /\ day + 1 < EndDay
  /\ day' = day + 1 /\ todo' = Agents \cup {Injector}
  /\ mail' = out \ posts /\ out' = {}
  /\ \E last \in [touched -> posts] :
       /\ \A u \in touched : last[u].unit = u
       /\ market' = [u \in (DOMAIN market \ touched)
                             \cup {u \in touched : last[u].kind = "add"} |->
                       IF u \in touched THEN Entry(last[u], u \in removed) ELSE market[u]]
  /\ UNCHANGED <<seller, household, entryDay, planned, awakenings, garbled>>

Next ==
  \/ \E m \in mail : \/ ReceiveBid(m.to, m) \/ ReceiveTransfer(m.to, m)
                     \/ ReceiveResponse(m.to, m) \/ ReceiveEvent(m.to, m)
  \/ \E d \in Developers, u \in Units : Launch(d, u)
  \/ \E a \in Sellers : UpdateSeller(a)
  \/ \E h \in Households, f \in Freelance : UpdateHousehold(h, f)
  \/ \E a \in Agents : UpdateIdle(a)
  \/ \E h \in Households : Awaken(h)
  \/ UpdateInjector
  \/ Distribute

Spec == Init /\ [][Next]_vars
=============================================================================
