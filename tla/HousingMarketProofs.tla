------------------------- MODULE HousingMarketProofs -------------------------
(***************************************************************************)
(* A household has one bid in play, whatever the numbers of agents, units, *)
(* workers and days.  The argument: a household posts a bid when it is     *)
(* updated, which is once a day; the bids of a day are all delivered on    *)
(* the next, before their sellers are updated; and a seller that keeps a   *)
(* bid is active, so that its update, on that day, clears it.              *)
(***************************************************************************)
EXTENDS HousingMarketInv, TLAPS

\* What the argument needs of types: who is in the tables, and two fields.
Tables ==
  /\ DOMAIN seller = Agents /\ DOMAIN household = Households
  /\ \A a \in Agents : {"active", "maxBid"} \subseteq DOMAIN seller[a]
  /\ \A h \in Households : "active" \in DOMAIN household[h]

\* A best bid of the day is cleared on the day: its seller is active, and still to be
\* updated, as is every agent that has mail.
Cleared ==
  \A a \in Agents :
    /\ a \notin todo => DOMAIN seller[a].maxBid = {} /\ \A m \in mail : m.to # a
    /\ DOMAIN seller[a].maxBid # {} => seller[a].active

\* HouseholdAgent keeps its seller active only while its bidder is.
RolesTogether == \A h \in Households : seller[h].active => household[h].active

\* A household posts at most one bid on a day, when it is updated.
IsBid(m, h) == m.kind = "bid" /\ m.bidder = h

OnePosted ==
  \A h \in Households : \A m \in out : IsBid(m, h) =>
    h \notin todo /\ \A n \in out : IsBid(n, h) => n = m

\* Its bid of the day before is in the mail, or the best one for one unit, or gone.
IsBest(a, u, h) == u \in DOMAIN seller[a].maxBid /\ seller[a].maxBid[u].bidder = h

OneSent ==
  \A h \in Households : \A m \in mail : IsBid(m, h) =>
    /\ \A n \in mail : IsBid(n, h) => n = m
    /\ \A a \in Agents : \A u : ~ IsBest(a, u, h)

OneBest ==
  \A h \in Households : \A a, b \in Agents : \A u, v :
    IsBest(a, u, h) /\ IsBest(b, v, h) => a = b /\ u = v

IInv == Tables /\ Cleared /\ RolesTogether /\ OnePosted /\ OneSent /\ OneBest

-----------------------------------------------------------------------------
\* The invariant says of the bids in play what is to be shown.
LEMMA InPlay == IInv => OneBidInPlay
<1> SUFFICES ASSUME IInv, NEW h \in Households, NEW x \in BidsInPlay(h), NEW y \in BidsInPlay(h)
             PROVE  x = y
  BY DEF OneBidInPlay
<1>1. ASSUME NEW z \in BidsInPlay(h)
      PROVE  \/ \E m \in mail : IsBid(m, h) /\ z = <<"sent", m.to, m.unit>>
             \/ \E a \in Agents : \E u : IsBest(a, u, h) /\ z = <<"best", a, u>>
  BY <1>1 DEF BidsInPlay, IsBid, IsBest
<1>2. CASE \E m \in mail : IsBid(m, h) /\ x = <<"sent", m.to, m.unit>>
  BY <1>1, <1>2 DEF IInv, OneSent
<1>3. CASE \E a \in Agents : \E u : IsBest(a, u, h) /\ x = <<"best", a, u>>
  BY <1>1, <1>3 DEF IInv, OneSent, OneBest
<1>4. QED BY <1>1, <1>2, <1>3

LEMMA InitInv == ASSUME Init PROVE IInv
<1>1. Tables BY DEF Init, Tables, Agents
<1>2. \A a \in Agents : DOMAIN seller[a].maxBid = {} /\ a \in todo
  BY DEF Init, Nothing
<1>3. mail = {} /\ out = {} /\ \A h \in Households : ~ seller[h].active
  BY MarketAssumption DEF Init, Agents, Sellers
<1>4. Cleared /\ RolesTogether /\ OnePosted /\ OneSent /\ OneBest
  BY <1>2, <1>3 DEF Cleared, RolesTogether, OnePosted, OneSent, OneBest, IsBest
<1>5. QED BY <1>1, <1>4 DEF IInv

-----------------------------------------------------------------------------
\* Most steps add no bid to what is posted: their messages are of other kinds.
NoBidIn(S) == \A m \in S : m.kind # "bid"

LEMMA SellerMailKinds == ASSUME NEW a, NEW k PROVE NoBidIn(SellerMail(a, k))
BY DEF SellerMail, NoBidIn, Response, Remove, Add

LEMMA LeavingMailKinds == ASSUME NEW h, NEW f PROVE NoBidIn(LeavingMail(h, f))
BY DEF LeavingMail, NoBidIn, Remove

\* What a step that handles no bid must keep, for the invariant to be kept: the best
\* bids are the same or cleared, and what is new in the mail and posted is no bid.
Quiet(S) ==
  /\ out' = out \cup S /\ NoBidIn(S)
  /\ mail' \subseteq mail
  /\ todo' \subseteq todo
  /\ \A a \in Agents : \/ seller'[a].maxBid = seller[a].maxBid
                       \/ DOMAIN seller'[a].maxBid = {}

LEMMA QuietStep ==
  ASSUME IInv, NEW S, Quiet(S) PROVE OnePosted' /\ OneSent' /\ OneBest'
<1>1. ASSUME NEW a \in Agents, NEW u, NEW h, IsBest(a, u, h)' PROVE IsBest(a, u, h)
  BY <1>1 DEF Quiet, IsBest
<1>2. ASSUME NEW m \in out', NEW h, IsBid(m, h) PROVE m \in out
  BY <1>2 DEF Quiet, NoBidIn, IsBid
<1>3. OnePosted'
  BY <1>2 DEF IInv, OnePosted, Quiet, IsBid
<1>4. OneSent'
  BY <1>1 DEF IInv, OneSent, Quiet, IsBid
<1>5. OneBest'
  BY <1>1 DEF IInv, OneBest
<1>6. QED BY <1>3, <1>4, <1>5

\* The tables of a step that changes one seller's record.
LEMMA SellerTable ==
  ASSUME Tables, NEW a \in Agents, NEW best,
         seller' = [seller EXCEPT ![a].maxBid = best]
  PROVE  /\ DOMAIN seller' = Agents
         /\ \A b \in Agents : DOMAIN seller'[b] = DOMAIN seller[b]
                              /\ seller'[b].active = seller[b].active
         /\ \A b \in Agents \ {a} : seller'[b] = seller[b]
         /\ seller'[a].maxBid = best
BY DEF Tables

\* A bid is received: it leaves the mail, and may become the best one for its unit.
Keeps(a, m, best) ==
  /\ seller' = [seller EXCEPT ![a].maxBid = best]
  /\ seller[a].active
  /\ best = Best(a, m.unit, m) \/ best = seller[a].maxBid

LEMMA ReceiveCases ==
  ASSUME NEW a \in Agents, NEW m, ReceiveBid(a, m)
  PROVE  /\ m \in mail /\ mail' = mail \ {m} /\ m.to = a /\ m.kind = "bid"
         /\ seller' = seller \/ \E best : Keeps(a, m, best)
         /\ \E S : out' = out \cup S /\ NoBidIn(S)
         /\ todo' = todo /\ household' = household
<1>1. m \in mail /\ mail' = mail \ {m} /\ m.to = a /\ m.kind = "bid" /\ todo' = todo
        /\ household' = household
  BY DEF ReceiveBid, Handle
<1>2. \A t, u, w : NoBidIn({Response(t, u, w)})
  BY DEF NoBidIn, Response
<1>3. NoBidIn({}) BY DEF NoBidIn
<1>4. \/ UNCHANGED <<seller, out>>
      \/ seller[a].active /\ \E t, w : Answer(a, m.unit, seller[a].maxBid, t, w)
      \/ seller[a].active /\ CompareBids(a, m.unit, m)
  BY DEF ReceiveBid
<1>5. ASSUME NEW best, NEW t, NEW w, Answer(a, m.unit, best, t, w), seller[a].active,
             best = Best(a, m.unit, m) \/ best = seller[a].maxBid
      PROVE  (\E b : Keeps(a, m, b)) /\ \E S : out' = out \cup S /\ NoBidIn(S)
  BY <1>2, <1>5 DEF Answer, Keeps
<1>6. ASSUME seller[a].active, CompareBids(a, m.unit, m)
      PROVE  (\E b : Keeps(a, m, b)) /\ \E S : out' = out \cup S /\ NoBidIn(S)
  <2>1. CASE m.unit \notin DOMAIN seller[a].maxBid
    <3>1. seller' = [seller EXCEPT ![a].maxBid = Best(a, m.unit, m)] /\ out' = out
      BY <1>6, <2>1 DEF CompareBids
    <3>2. out' = out \cup {} BY <3>1
    <3>3. Keeps(a, m, Best(a, m.unit, m)) BY <1>6, <3>1 DEF Keeps
    <3>4. QED BY <1>3, <3>2, <3>3
  <2>2. CASE m.unit \in DOMAIN seller[a].maxBid
    <3>1. \/ \E t, w : Answer(a, m.unit, Best(a, m.unit, m), t, w)
          \/ \E t, w : Answer(a, m.unit, seller[a].maxBid, t, w)
      BY <1>6, <2>2 DEF CompareBids
    <3>2. QED BY <3>1, <1>5, <1>6
  <2>3. QED BY <2>1, <2>2
<1>7. CASE UNCHANGED <<seller, out>>
  <2>1. out' = out \cup {} BY <1>7
  <2>2. QED BY <1>1, <1>3, <1>7, <2>1
<1>8. QED BY <1>1, <1>4, <1>5, <1>6, <1>7

LEMMA ReceiveBidInv ==
  ASSUME IInv, NEW a \in Agents, NEW m, ReceiveBid(a, m) PROVE IInv'
<1>1. /\ m \in mail /\ mail' = mail \ {m} /\ m.to = a /\ m.kind = "bid"
      /\ seller' = seller \/ \E best : Keeps(a, m, best)
      /\ \E S : out' = out \cup S /\ NoBidIn(S)
      /\ todo' = todo /\ household' = household
  BY ReceiveCases
<1>2. PICK S : out' = out \cup S /\ NoBidIn(S) BY <1>1
<1>3. a \in todo BY <1>1 DEF IInv, Cleared
<1>4. CASE seller' = seller
  <2>1. Quiet(S) BY <1>1, <1>2, <1>4 DEF Quiet
  <2>2. Tables' /\ Cleared' /\ RolesTogether'
    BY <1>1, <1>4 DEF IInv, Tables, Cleared, RolesTogether
  <2>3. QED BY <2>1, <2>2, QuietStep DEF IInv
<1>5. ASSUME NEW best, Keeps(a, m, best) PROVE IInv'
  <2>1. /\ DOMAIN seller' = Agents
        /\ \A b \in Agents : DOMAIN seller'[b] = DOMAIN seller[b]
                             /\ seller'[b].active = seller[b].active
        /\ \A b \in Agents \ {a} : seller'[b] = seller[b]
        /\ seller'[a].maxBid = best
    BY <1>5, SellerTable DEF IInv, Keeps
  <2>2. Tables' BY <1>1, <2>1 DEF IInv, Tables
  <2>3. Cleared' BY <1>1, <1>3, <1>5, <2>1 DEF IInv, Cleared, Keeps
  <2>4. RolesTogether' BY <1>1, <2>1 DEF IInv, RolesTogether, Agents
  <2>5. OnePosted' BY <1>1, <1>2 DEF IInv, OnePosted, NoBidIn, IsBid
  <2>6. ASSUME NEW b \in Agents, NEW u, NEW h, IsBest(b, u, h)'
        PROVE  IsBest(b, u, h) \/ (b = a /\ u = m.unit /\ IsBid(m, h))
    <3>1. CASE b # a \/ best = seller[a].maxBid BY <2>1, <2>6, <3>1 DEF IsBest
    <3>2. CASE b = a /\ best = Best(a, m.unit, m)
      <4>1. u \in DOMAIN best /\ best[u].bidder = h BY <2>1, <2>6, <3>2 DEF IsBest
      <4>2. CASE u = m.unit
        <5>1. best[u] = [bidder |-> m.bidder, value |-> m.value]
          BY <3>2, <4>1, <4>2 DEF Best
        <5>2. QED BY <1>1, <3>2, <4>1, <4>2, <5>1 DEF IsBid
      <4>3. CASE u # m.unit
        <5>1. u \in DOMAIN seller[a].maxBid /\ best[u] = seller[a].maxBid[u]
          BY <3>2, <4>1, <4>3 DEF Best
        <5>2. QED BY <3>2, <4>1, <5>1 DEF IsBest
      <4>4. QED BY <4>2, <4>3
    <3>3. QED BY <1>5, <3>1, <3>2 DEF Keeps
  <2>7. OneSent' BY <1>1, <2>6 DEF IInv, OneSent, IsBid
  <2>8. ASSUME NEW h \in Households, NEW b \in Agents, NEW c \in Agents, NEW u, NEW v,
               IsBest(b, u, h)', IsBest(c, v, h)'
        PROVE  b = c /\ u = v
    <3>1. CASE IsBid(m, h)
      BY <1>1, <2>6, <2>8, <3>1 DEF IInv, OneSent
    <3>2. CASE ~ IsBid(m, h)
      BY <2>6, <2>8, <3>2 DEF IInv, OneBest
    <3>3. QED BY <3>1, <3>2
  <2>9. QED BY <2>2, <2>3, <2>4, <2>5, <2>7, <2>8 DEF IInv, OneBest
<1>6. QED BY <1>1, <1>4, <1>5

-----------------------------------------------------------------------------
\* A step that handles no bid keeps the invariant if it also clears the best bids of
\* whom it updates, and leaves no best bid with an agent that is not active.
LEMMA QuietInv ==
  ASSUME IInv, NEW S, Quiet(S), Tables', RolesTogether',
         \A a \in Agents : DOMAIN seller'[a].maxBid = {} \/ seller'[a].active,
         \A a \in Agents : a \in todo /\ a \notin todo' =>
           DOMAIN seller'[a].maxBid = {} /\ \A m \in mail : m.to # a
  PROVE  IInv'
<1>1. Cleared' BY DEF IInv, Cleared, Quiet
<1>2. QED BY <1>1, QuietStep DEF IInv

\* The same for a step that leaves the sellers alone, and the households' "active"
\* where it was true.
LEMMA SameSellers ==
  ASSUME IInv, NEW S, Quiet(S), UNCHANGED seller,
         DOMAIN household' = Households,
         \A h \in Households : "active" \in DOMAIN household'[h],
         \A h \in Households : household[h].active => household'[h].active,
         \A a \in Agents : a \in todo /\ a \notin todo' =>
           DOMAIN seller[a].maxBid = {} /\ \A m \in mail : m.to # a
  PROVE  IInv'
<1>1. Tables' BY DEF IInv, Tables
<1>2. RolesTogether' BY DEF IInv, RolesTogether
<1>3. QED BY <1>1, <1>2, QuietInv DEF IInv, Cleared

LEMMA NoBidInNone == NoBidIn({}) BY DEF NoBidIn

\* A bid to nobody cannot be kept.
LEMMA ReceiveBidNobody ==
  ASSUME IInv, NEW a, a \notin Agents, NEW m, ReceiveBid(a, m) PROVE IInv'
<1>1. mail' \subseteq mail /\ todo' = todo /\ household' = household
  BY DEF ReceiveBid, Handle
<1>2. \E S : out' = out \cup S /\ NoBidIn(S)
  <2>1. \/ out' = out \/ \E t, u, w : out' = out \cup {Response(t, u, w)}
    BY DEF ReceiveBid, CompareBids, Answer
  <2>2. \A t, u, w : NoBidIn({Response(t, u, w)}) BY DEF NoBidIn, Response
  <2>3. out = out \cup {} OBVIOUS
  <2>4. QED BY <2>1, <2>2, <2>3, NoBidInNone
<1>3. seller' = seller \/ \E best : seller' = [seller EXCEPT ![a].maxBid = best]
  BY DEF ReceiveBid, CompareBids, Answer
<1>4. /\ DOMAIN seller' = Agents
      /\ \A b \in Agents : seller'[b] = seller[b]
  BY <1>3 DEF IInv, Tables
<1>5. PICK S : out' = out \cup S /\ NoBidIn(S) BY <1>2
<1>6. Quiet(S) BY <1>1, <1>4, <1>5 DEF Quiet
<1>7. Tables' /\ RolesTogether' BY <1>1, <1>4 DEF IInv, Tables, RolesTogether, Agents
<1>8. QED BY <1>1, <1>4, <1>6, <1>7, QuietInv DEF IInv, Cleared

\* The other messages.
LEMMA ReceiveResponseInv ==
  ASSUME IInv, NEW h, NEW m, ReceiveResponse(h, m) PROVE IInv'
<1>1. Quiet({}) BY NoBidInNone DEF ReceiveResponse, Handle, Quiet
<1>2. seller' = seller /\ todo' = todo BY DEF ReceiveResponse
<1>3. \E hh : household' = [household EXCEPT ![h] = hh]
              /\ (h \in Households => "active" \in DOMAIN hh /\ hh.active = household[h].active)
  <2> DEFINE r == household[h]
             s == CASE r.active /\ m.response = "ACCEPTED" -> Accepted(h, m.unit)
                    [] r.active /\ m.response = "NOT_ACCEPTED" ->
                         [r EXCEPT !.lastBid = 2, !.offMarket = @ \/ r.window = 0]
                    [] r.active /\ m.response = "NOT_AVAILABLE" -> [r EXCEPT !.bid = NoBid]
                    [] OTHER -> r
  <2>1. household' = [household EXCEPT ![h] = s] BY DEF ReceiveResponse
  <2>2. ASSUME h \in Households PROVE "active" \in DOMAIN r BY <2>2 DEF IInv, Tables
  <2>3. DOMAIN Accepted(h, m.unit) = DOMAIN r /\ ("active" \in DOMAIN r => Accepted(h, m.unit).active = r.active)
    BY DEF Accepted
  <2>4. \/ s = Accepted(h, m.unit)
        \/ s = [r EXCEPT !.lastBid = 2, !.offMarket = @ \/ r.window = 0]
        \/ s = [r EXCEPT !.bid = NoBid] \/ s = r
    OBVIOUS
  <2>5. DOMAIN s = DOMAIN r /\ ("active" \in DOMAIN r => s.active = r.active)
    BY <2>3, <2>4
  <2>6. QED BY <2>1, <2>2, <2>5
<1>4. /\ DOMAIN household' = Households
      /\ \A g \in Households : "active" \in DOMAIN household'[g]
                               /\ household'[g].active = household[g].active
  BY <1>3 DEF IInv, Tables
<1>5. QED BY <1>1, <1>2, <1>4, SameSellers

LEMMA ReceiveEventInv ==
  ASSUME IInv, NEW h, NEW m, ReceiveEvent(h, m) PROVE IInv'
<1>1. Quiet({}) BY NoBidInNone DEF ReceiveEvent, Handle, Quiet
<1>2. seller' = seller /\ todo' = todo BY DEF ReceiveEvent
<1>3. household' = household \/ household' = [household EXCEPT ![h] = Awakened(h, m.event)]
  BY DEF ReceiveEvent
<1>4. h \in Households => "active" \in DOMAIN household[h] BY DEF IInv, Tables
<1>5. DOMAIN Awakened(h, m.event) = DOMAIN household[h]
      /\ ("active" \in DOMAIN household[h] => Awakened(h, m.event).active)
  BY DEF Awakened
<1>6. /\ DOMAIN household' = Households
      /\ \A g \in Households : "active" \in DOMAIN household'[g]
                               /\ (household[g].active => household'[g].active)
  BY <1>3, <1>4, <1>5 DEF IInv, Tables
<1>7. QED BY <1>1, <1>2, <1>6, SameSellers

LEMMA ReceiveTransferInv ==
  ASSUME IInv, NEW a, NEW m, ReceiveTransfer(a, m) PROVE IInv'
<1>1. /\ mail' \subseteq mail /\ todo' = todo /\ out' = out /\ household' = household
  BY DEF ReceiveTransfer, Handle
<1>2. seller' = seller \/ \E us : seller' = [seller EXCEPT ![a].units = us]
  BY DEF ReceiveTransfer
<1>3. /\ DOMAIN seller' = Agents
      /\ \A b \in Agents : /\ DOMAIN seller'[b] = DOMAIN seller[b]
                           /\ seller'[b].active = seller[b].active
                           /\ seller'[b].maxBid = seller[b].maxBid
  BY <1>2 DEF IInv, Tables
<1>4. Quiet({}) BY <1>1, <1>3, NoBidInNone DEF Quiet
<1>5. Tables' /\ RolesTogether' BY <1>1, <1>3 DEF IInv, Tables, RolesTogether, Agents
<1>6. QED BY <1>1, <1>3, <1>4, <1>5, QuietInv DEF IInv, Cleared

-----------------------------------------------------------------------------
LEMMA LaunchInv ==
  ASSUME IInv, NEW d, NEW u, Launch(d, u) PROVE IInv'
<1>1. mail' = mail /\ todo' = todo /\ household' = household BY DEF Launch
<1>2. \E us : seller' = [seller EXCEPT ![d].units = us] BY DEF Launch
<1>3. /\ DOMAIN seller' = Agents
      /\ \A b \in Agents : /\ DOMAIN seller'[b] = DOMAIN seller[b]
                           /\ seller'[b].active = seller[b].active
                           /\ seller'[b].maxBid = seller[b].maxBid
  BY <1>2 DEF IInv, Tables
<1>4. PICK S : out' = out \cup S /\ NoBidIn(S)
  <2>1. \/ out' = out \cup {Event(h, "bto") : h \in Eligible}
        \/ out' = out \cup {Event(h, "presale") : h \in Households}
    BY DEF Launch
  <2>2. NoBidIn({Event(h, "bto") : h \in Eligible}) BY DEF NoBidIn, Event
  <2>3. NoBidIn({Event(h, "presale") : h \in Households}) BY DEF NoBidIn, Event
  <2>4. QED BY <2>1, <2>2, <2>3
<1>5. Quiet(S) BY <1>1, <1>3, <1>4 DEF Quiet
<1>6. Tables' /\ RolesTogether' BY <1>1, <1>3 DEF IInv, Tables, RolesTogether, Agents
<1>7. QED BY <1>1, <1>3, <1>5, <1>6, QuietInv DEF IInv, Cleared

LEMMA AwakenInv == ASSUME IInv, NEW h, Awaken(h) PROVE IInv'
<1>1. mail' = mail /\ todo' = todo /\ seller' = seller /\ out' = out \cup {Event(h, "job")}
  BY DEF Awaken
<1>2. NoBidIn({Event(h, "job")}) BY DEF NoBidIn, Event
<1>3. Quiet({Event(h, "job")}) BY <1>1, <1>2 DEF Quiet
<1>4. \E w, t, d : household' = [household EXCEPT ![h] =
        [@ EXCEPT !.lastBid = 0, !.window = w, !.timeOnMarket = t, !.awakened = d]]
  BY DEF Awaken
<1>5. /\ DOMAIN household' = Households
      /\ \A g \in Households : "active" \in DOMAIN household'[g]
                               /\ household'[g].active = household[g].active
  BY <1>4 DEF IInv, Tables
<1>6. QED BY <1>1, <1>3, <1>5, SameSellers

LEMMA InjectorInv == ASSUME IInv, UpdateInjector PROVE IInv'
<1>1. /\ UNCHANGED <<mail, out, seller, household>> /\ todo' = todo \ {Injector}
  BY DEF UpdateInjector
<1>2. Injector \notin Agents BY MarketAssumption
<1>3. Quiet({}) BY <1>1, NoBidInNone DEF Quiet
<1>4. QED BY <1>1, <1>2, <1>3, SameSellers DEF IInv, Tables

\* An agent is updated when it has no mail.
LEMMA EnterNoMail ==
  ASSUME NEW a \in Agents, Enter(a)
  PROVE  a \in todo /\ todo' = todo \ {a} /\ \A m \in mail : m.to # a
<1>1. PICK c \in Crews : \E i \in DOMAIN c : c[i] = a BY MarketAssumption
<1>2. a \in SeqRange(c) BY <1>1 DEF SeqRange
<1>3. QED BY <1>1, <1>2 DEF Enter

LEMMA IdleInv == ASSUME IInv, NEW a \in Agents, UpdateIdle(a) PROVE IInv'
<1>1. /\ UNCHANGED <<mail, out, seller>> BY DEF UpdateIdle
<1>2. a \in todo /\ todo' = todo \ {a} /\ \A m \in mail : m.to # a
  BY EnterNoMail DEF UpdateIdle
<1>3. Quiet({}) BY <1>1, <1>2, NoBidInNone DEF Quiet
<1>4. ~ seller[a].active BY DEF UpdateIdle, IInv, RolesTogether
<1>5. DOMAIN seller[a].maxBid = {} BY <1>4 DEF IInv, Cleared
<1>6. household' = household \/ \E b : household' = [household EXCEPT ![a].buySell = b]
  BY DEF UpdateIdle
<1>7. /\ DOMAIN household' = Households
      /\ \A g \in Households : "active" \in DOMAIN household'[g]
                               /\ household'[g].active = household[g].active
  BY <1>6 DEF IInv, Tables
<1>8. QED BY <1>1, <1>2, <1>3, <1>5, <1>7, SameSellers

\* The status that a seller sets leaves "active" alone.
LEMMA NotifiedActive ==
  ASSUME NEW a, NEW hs, DOMAIN hs = Households,
         \A h \in Households : "active" \in DOMAIN hs[h]
  PROVE  /\ DOMAIN Notified(a, hs) = Households
         /\ \A h \in Households : /\ "active" \in DOMAIN Notified(a, hs)[h]
                                  /\ Notified(a, hs)[h].active = hs[h].active
<1>1. CASE a \in Developers BY <1>1 DEF Notified
<1>2. CASE a \notin Developers
  <2>1. Notified(a, hs) = [h \in Households |-> IF h \in Winners(a)
                             THEN [hs[h] EXCEPT !.lastBid = 1, !.offMarket = TRUE] ELSE hs[h]]
    BY <1>2 DEF Notified
  <2>2. \A h : LET r == [hs[h] EXCEPT !.lastBid = 1, !.offMarket = TRUE] IN
               DOMAIN r = DOMAIN hs[h] /\ ("active" \in DOMAIN hs[h] => r.active = hs[h].active)
    OBVIOUS
  <2>3. DOMAIN Notified(a, hs) = Households BY ONLY <2>1
  <2>4. ASSUME NEW h \in Households
        PROVE  /\ "active" \in DOMAIN Notified(a, hs)[h]
               /\ Notified(a, hs)[h].active = hs[h].active
    <3>1. Notified(a, hs)[h] = IF h \in Winners(a)
            THEN [hs[h] EXCEPT !.lastBid = 1, !.offMarket = TRUE] ELSE hs[h]
      BY ONLY <2>1, h \in Households
    <3>2. CASE h \in Winners(a) BY <2>2, <3>1, <3>2
    <3>3. CASE h \notin Winners(a) BY <3>1, <3>3
    <3>4. QED BY <3>2, <3>3
  <2>5. QED BY <2>3, <2>4
<1>3. QED BY <1>1, <1>2

LEMMA BestCleared == \A a : DOMAIN BestAfter(a) = {} BY DEF BestAfter, Nothing

LEMMA UpdateSellerInv ==
  ASSUME IInv, NEW a \in Sellers, UpdateSeller(a) PROVE IInv'
<1>0. a \in Agents BY DEF Agents
<1>1. a \in todo /\ todo' = todo \ {a} /\ \A m \in mail : m.to # a
  BY <1>0, EnterNoMail DEF UpdateSeller
<1>2. mail' = mail /\ out' = out \cup SellerMail(a, market) /\ household' = Notified(a, household)
  BY DEF UpdateSeller
<1>3. PICK act, us, on : seller' = [seller EXCEPT ![a] =
        [active |-> act, units |-> us, onSale |-> on, maxBid |-> BestAfter(a)]]
  BY DEF UpdateSeller
<1>4. /\ DOMAIN seller' = Agents /\ \A b \in Agents \ {a} : seller'[b] = seller[b]
      /\ {"active", "maxBid"} \subseteq DOMAIN seller'[a] /\ DOMAIN seller'[a].maxBid = {}
  BY <1>0, <1>3, BestCleared DEF IInv, Tables
<1>5. Quiet(SellerMail(a, market)) BY <1>1, <1>2, <1>4, SellerMailKinds DEF Quiet
<1>6. /\ DOMAIN household' = Households
      /\ \A h \in Households : /\ "active" \in DOMAIN household'[h]
                               /\ household'[h].active = household[h].active
  BY <1>2, NotifiedActive DEF IInv, Tables
<1>7. Tables' BY <1>4, <1>6 DEF IInv, Tables
<1>8. a \notin Households BY MarketAssumption
<1>9. RolesTogether' BY <1>4, <1>6, <1>8 DEF IInv, RolesTogether, Agents
<1>10. QED BY <1>1, <1>4, <1>5, <1>7, <1>9, QuietInv DEF IInv, Cleared

\* A household posts one bid at most, when it is updated, and is not updated again.
LEMMA OneBidMail ==
  ASSUME NEW h, NEW b, NEW k
  PROVE  \A m, n \in BidMail(h, b, k) : m = n /\ (m.kind = "bid" /\ m.bidder = h)
BY DEF BidMail

LEMMA UpdateHouseholdInv ==
  ASSUME IInv, NEW h \in Households, NEW f, UpdateHousehold(h, f) PROVE IInv'
<1>0. h \in Agents BY DEF Agents
<1>1. h \in todo /\ todo' = todo \ {h} /\ \A m \in mail : m.to # h
  BY <1>0, EnterNoMail DEF UpdateHousehold
<1>2. mail' = mail BY DEF UpdateHousehold
<1>3. PICK us, on : seller' = [seller EXCEPT ![h] =
        [active |-> ~ Leaves(h) /\ Unsold(h) # <<>>, units |-> us, onSale |-> on,
         maxBid |-> BestAfter(h)]]
  BY DEF UpdateHousehold
<1>4. /\ DOMAIN seller' = Agents /\ \A b \in Agents \ {h} : seller'[b] = seller[b]
      /\ {"active", "maxBid"} \subseteq DOMAIN seller'[h] /\ DOMAIN seller'[h].maxBid = {}
      /\ seller'[h].active => ~ Leaves(h)
  BY <1>0, <1>3, BestCleared DEF IInv, Tables
<1>5. PICK b :
        /\ household' = Notified(h, [household EXCEPT ![h] = HouseholdAfter(h, b)])
        /\ out' = out \cup SellerMail(h, market') \cup LeavingMail(h, f)
                      \cup IF MayBid(h) THEN BidMail(h, b, market') ELSE {}
  BY DEF UpdateHousehold
<1> DEFINE S == SellerMail(h, market') \cup LeavingMail(h, f)
           B == IF MayBid(h) THEN BidMail(h, b, market') ELSE {}
<1>6. NoBidIn(S) BY SellerMailKinds, LeavingMailKinds DEF NoBidIn
<1>7. \A m, n \in B : m = n /\ IsBid(m, h) BY OneBidMail DEF IsBid
<1>8. out' = (out \cup S) \cup B BY <1>5
<1> HIDE DEF S, B
<1>9. OnePosted'
  <2>1. SUFFICES ASSUME NEW g \in Households, NEW m \in out', IsBid(m, g), NEW n \in out', IsBid(n, g)
                 PROVE  g \notin todo' /\ n = m
    BY DEF OnePosted, IsBid
  <2>2. CASE g = h
    <3>1. m \in B /\ n \in B
      BY <1>1, <1>6, <1>8, <2>1, <2>2 DEF IInv, OnePosted, NoBidIn, IsBid
    <3>2. QED BY <1>1, <1>7, <2>2, <3>1
  <2>3. CASE g # h
    <3>1. m \in out /\ n \in out BY <1>6, <1>7, <1>8, <2>1, <2>3 DEF NoBidIn, IsBid
    <3>2. QED BY <1>1, <2>1, <3>1 DEF IInv, OnePosted
  <2>4. QED BY <2>2, <2>3
<1>10. \A a \in Agents : \A u, g : IsBest(a, u, g)' => IsBest(a, u, g)
  BY <1>4 DEF IsBest
<1>11. OneSent' /\ OneBest'
  <2>1. OneSent' BY <1>2, <1>10 DEF IInv, OneSent, IsBid
  <2>2. OneBest' BY <1>10 DEF IInv, OneBest
  <2>3. QED BY <2>1, <2>2
<1>12. Cleared' BY <1>0, <1>1, <1>2, <1>4 DEF IInv, Cleared
<1>13. /\ DOMAIN household' = Households
       /\ \A g \in Households : "active" \in DOMAIN household'[g]
       /\ household'[h].active = ~ Leaves(h)
       /\ \A g \in Households \ {h} : household'[g].active = household[g].active
  <2> DEFINE hs == [household EXCEPT ![h] = HouseholdAfter(h, b)]
  <2>1. "active" \in DOMAIN household[h] /\ DOMAIN household = Households
    BY DEF IInv, Tables
  <2>2. "active" \in DOMAIN HouseholdAfter(h, b) /\ HouseholdAfter(h, b).active = ~ Leaves(h)
    BY <2>1 DEF HouseholdAfter
  <2>3. /\ DOMAIN hs = Households /\ hs[h] = HouseholdAfter(h, b)
        /\ \A g \in Households \ {h} : hs[g] = household[g]
    BY <2>1
  <2>4. \A g \in Households : "active" \in DOMAIN hs[g]
    BY <2>2, <2>3 DEF IInv, Tables
  <2> HIDE DEF hs
  <2>5. /\ DOMAIN Notified(h, hs) = Households
        /\ \A g \in Households : /\ "active" \in DOMAIN Notified(h, hs)[g]
                                 /\ Notified(h, hs)[g].active = hs[g].active
    BY <2>3, <2>4, NotifiedActive
  <2>6. household' = Notified(h, hs) BY <1>5 DEF hs
  <2>7. QED BY <2>2, <2>3, <2>5, <2>6
<1>14. RolesTogether' BY <1>0, <1>4, <1>13 DEF IInv, RolesTogether, Agents
<1>15. Tables' BY <1>4, <1>13 DEF IInv, Tables
<1>16. QED BY <1>9, <1>11, <1>12, <1>14, <1>15 DEF IInv

-----------------------------------------------------------------------------
\* When the day ends all are updated, so that no best bid is left of it, and what was
\* posted becomes the mail.
LEMMA DistributeInv == ASSUME IInv, Distribute PROVE IInv'
<1>1. /\ todo = {} /\ mail = {} /\ todo' = Agents \cup {Injector} /\ out' = {}
      /\ mail' \subseteq out /\ seller' = seller /\ household' = household
  BY DEF Distribute
<1>2. \A a \in Agents : DOMAIN seller[a].maxBid = {} BY <1>1 DEF IInv, Cleared
<1>3. \A a \in Agents : \A u, h : ~ IsBest(a, u, h)' BY <1>1, <1>2 DEF IsBest
<1>4. Tables' /\ RolesTogether' BY <1>1 DEF IInv, Tables, RolesTogether
<1>5. Cleared' BY <1>1, <1>2 DEF Cleared
<1>6. OnePosted' BY <1>1 DEF OnePosted
<1>7. OneSent' BY <1>1, <1>3 DEF IInv, OnePosted, OneSent, IsBid
<1>8. OneBest' BY <1>3 DEF OneBest
<1>9. QED BY <1>4, <1>5, <1>6, <1>7, <1>8 DEF IInv

LEMMA StepInv == ASSUME IInv, [Next]_vars PROVE IInv'
<1>1. ASSUME NEW m \in mail, ReceiveBid(m.to, m) PROVE IInv'
  BY <1>1, ReceiveBidInv, ReceiveBidNobody
<1>2. ASSUME NEW m \in mail,
             ReceiveTransfer(m.to, m) \/ ReceiveResponse(m.to, m) \/ ReceiveEvent(m.to, m)
      PROVE  IInv'
  BY <1>2, ReceiveTransferInv, ReceiveResponseInv, ReceiveEventInv
<1>3. ASSUME NEW d \in Developers, NEW u \in Units, Launch(d, u) PROVE IInv'
  BY <1>3, LaunchInv
<1>4. ASSUME NEW a \in Sellers, UpdateSeller(a) PROVE IInv'
  BY <1>4, UpdateSellerInv
<1>5. ASSUME NEW h \in Households, NEW f \in Freelance, UpdateHousehold(h, f) PROVE IInv'
  BY <1>5, UpdateHouseholdInv
<1>6. ASSUME NEW a \in Agents, UpdateIdle(a) PROVE IInv'
  BY <1>6, IdleInv
<1>7. ASSUME NEW h \in Households, Awaken(h) PROVE IInv'
  BY <1>7, AwakenInv
<1>8. CASE UpdateInjector BY <1>8, InjectorInv
<1>9. CASE Distribute BY <1>9, DistributeInv
<1>10. CASE UNCHANGED vars
  BY <1>10 DEF vars, IInv, Tables, Cleared, RolesTogether, OnePosted, OneSent, OneBest, IsBest
<1>11. QED BY <1>1, <1>2, <1>3, <1>4, <1>5, <1>6, <1>7, <1>8, <1>9, <1>10 DEF Next

\* A household never has two bids in play, of whatever days, units and sellers.  What
\* follows for the code: notifyWinnerBidders of two sellers, on two workers, never
\* accept two bids of one household, although neither takes a lock.
THEOREM OneBid == Spec => []OneBidInPlay
<1>1. Init => IInv BY InitInv
<1>2. IInv /\ [Next]_vars => IInv' BY StepInv
<1>3. IInv => OneBidInPlay BY InPlay
<1>4. QED BY <1>1, <1>2, <1>3, PTL DEF Spec
=============================================================================
