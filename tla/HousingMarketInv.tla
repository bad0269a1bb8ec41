-------------------------- MODULE HousingMarketInv ---------------------------
(***************************************************************************)
(* Properties of HousingMarket.tla.                                        *)
(***************************************************************************)
EXTENDS HousingMarket

\* Type correctness: what is recorded of agents, units and messages stays within its
\* range, and a household sells only while it bids (the roles of HouseholdAgent).
TypeOK ==
  /\ day \in Nat /\ todo \subseteq Agents \cup {Injector}
  /\ \A m \in mail \cup out : m.kind \in {"bid", "response", "transfer", "event", "add", "remove"}
  /\ \A m \in mail : m.to \in Agents
  /\ \A u \in DOMAIN market : u \in Units /\ market[u].owner \in Agents /\ market[u].open \in BOOLEAN
  /\ \A a \in Agents :
       /\ seller[a].active \in BOOLEAN /\ seller[a].units \in Seq(Units)
       /\ DOMAIN seller[a].onSale \subseteq Units /\ DOMAIN seller[a].maxBid \subseteq Units
  /\ \A h \in Households :
       LET hh == household[h] IN
       /\ hh.active \in BOOLEAN /\ hh.lastBid \in 0 .. 2 /\ hh.window \in Nat
       /\ hh.moveIn >= -1 /\ hh.buySell >= -1 /\ (hh.moveIn >= 0 => hh.toBeOwned \in Units)
       /\ seller[h].active => hh.active
  /\ entryDay \in [Units -> Nat] /\ planned \subseteq Units /\ garbled \subseteq Units

\* No unit has two claims: it is in the list of one agent, once, or in a TransferUnit
\* message, or promised to one household, by a response on its way or by a household
\* that waits to move in.  (Several units transferred at once are an exception: see
\* TransferUnitToFreelanceAgent.)
Claims(u) ==
  (UNION {{<<"held", a, i>> : i \in {i \in DOMAIN seller[a].units : seller[a].units[i] = u}}
          : a \in Agents})
    \cup {<<"promised", m.to>> : m \in {m \in mail \cup out : m.kind = "response"
                                         /\ m.unit = u /\ m.response = "ACCEPTED"}}
    \cup {<<"promised", h>> : h \in {h \in Households : household[h].moveIn > 0
                                                      /\ household[h].toBeOwned = u}}
    \cup {<<"moving", m.to>> : m \in {m \in mail \cup out : m.kind = "transfer" /\ m.unit = u}}

OneClaim == \A u \in Units \ garbled : Cardinality(Claims(u)) <= 1

\* A household has one bid in play: on its way to a seller or as the best of the day.
\* This alone is why two sellers, on two workers, that both check and set the status
\* of a bidder without a lock never both accept its bids.
BidsInPlay(h) ==
  {<<"sent", m.to, m.unit>> : m \in {m \in mail : m.kind = "bid" /\ m.bidder = h}}
    \cup UNION {{<<"best", a, u>> : u \in {u \in DOMAIN seller[a].maxBid :
                                             seller[a].maxBid[u].bidder = h}}
                : a \in Agents}

OneBidInPlay == \A h \in Households : \A x, y \in BidsInPlay(h) : x = y

\* No unit of an active freelance or real-estate agent misses the day on which it is
\* listed: the agents compare that day with the current one for equality, so that a
\* unit that is late by one day would stay off the market for ever.  (Again except
\* for several units transferred at once.)
ListingDay(a, u) == entryDay[u] + IF a \in Developers THEN 1 ELSE 0

NeverStranded ==
  \A a \in Sellers : seller[a].active =>
    \A u \in SeqRange(seller[a].units) \ (DOMAIN seller[a].onSale \cup garbled) :
      IF a \in todo THEN ListingDay(a, u) >= day ELSE ListingDay(a, u) > day

\* Units change hands as UnitTitle.tla says.
TitleOf(u) ==
  LET of(kind) == {c[2] : c \in {c \in Claims(u) : c[1] = kind}} IN
  IF u \in garbled THEN [is |-> "muddled", by |-> "none"]
  ELSE IF u \in planned THEN [is |-> "planned", by |-> "none"]
  ELSE IF of("held") # {} THEN [is |-> "held", by |-> CHOOSE a \in of("held") : TRUE]
  ELSE IF of("promised") # {} THEN [is |-> "promised", by |-> CHOOSE h \in of("promised") : TRUE]
  ELSE IF of("moving") # {} THEN [is |-> "moving", by |-> CHOOSE f \in of("moving") : TRUE]
  ELSE [is |-> "lost", by |-> "none"]

Title == INSTANCE UnitTitle WITH title <- [u \in Units |-> TitleOf(u)]

TitleSpec == Title!Spec
=============================================================================
