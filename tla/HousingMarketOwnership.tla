----------------------- MODULE HousingMarketOwnership -----------------------
(***************************************************************************)
(* Who has the units of the housing market, whatever the numbers of agents,*)
(* units, workers and days.  Three invariants, each on top of the last,    *)
(* and the refinement:                                                     *)
(*   - Typed: what messages, lists and tables say is sensible; for this,   *)
(*     Without is shown, by induction, to keep what it is to keep, once;   *)
(*   - Unplanned and Single: at most one claim to a unit.  A step drops a  *)
(*     claim, or puts one in its place; only a launch adds one, to a unit  *)
(*     without any;                                                        *)
(*   - HandedOver and NeverStranded: on every way into the list of a       *)
(*     seller, a unit's entry day is still to come;                        *)
(*   - Traced: each claim after a step comes from one before it, from which*)
(*     its title may go on, so that the market implements UnitTitle.       *)
(***************************************************************************)
EXTENDS HousingMarketProofs, FiniteSetTheorems, SequenceTheorems

-----------------------------------------------------------------------------
(* Lists. *)

\* The least element of a set of numbers, from the well-founded order of finite sets.
LEMMA Least ==
  ASSUME NEW T, T \subseteq Nat, T # {} PROVE \E x \in T : \A y \in T : ~ (y < x)
<1> DEFINE Upto(n) == 1 .. n
           C == {Upto(n) : n \in T}
           R == StrictSubsetOrdering(Nat)
           S == FiniteSubsetsOf(Nat)
<1>1. \A n \in T : Upto(n) \in S BY FS_Interval DEF FiniteSubsetsOf
<1>2. C # {} /\ C \subseteq S BY <1>1
<1>3. IsWellFoundedOn(R, S) BY FS_StrictSubsetOrderingWellFounded
<1> HIDE DEF C, S, R
<1>4. \E X \in C : \A Y \in C : ~ (<<Y, X>> \in R)
  BY ONLY <1>2, <1>3, WFMin
<1> USE DEF C, S, R
<1>5. PICK x \in T : \A y \in T : <<Upto(y), Upto(x)>> \notin R BY <1>4
<1>6. ASSUME NEW y \in T, y < x PROVE FALSE
  <2>1. Upto(y) \subseteq Upto(x) /\ Upto(y) # Upto(x) BY <1>6
  <2>2. <<Upto(y), Upto(x)>> \in R
    BY <1>1, <2>1 DEF StrictSubsetOrdering, FiniteSubsetsOf
  <2>3. QED BY <1>5, <2>2
<1>7. QED BY <1>6

\* Induction over the natural numbers, for a set.
LEMMA Induction ==
  ASSUME NEW T, 0 \in T, \A n \in Nat : n \in T => n + 1 \in T PROVE Nat \subseteq T
<1> SUFFICES ASSUME Nat \ T # {} PROVE FALSE
  OBVIOUS
<1>1. PICK x \in Nat \ T : \A y \in Nat \ T : ~ (y < x) BY Least
<1>2. x # 0 /\ x - 1 \in Nat /\ x - 1 < x /\ (x - 1) + 1 = x BY <1>1
<1>3. QED BY <1>1, <1>2

\* What Without goes through, element by element.
KeptOf(s, S, n, k) ==
  k = [i \in 0 .. n |-> IF i = 0 THEN <<>>
                        ELSE IF s[i] \in S THEN k[i - 1] ELSE Append(k[i - 1], s[i])]

\* Such a function exists, for every length.
LEMMA KeptExists ==
  ASSUME NEW s, NEW S, NEW m \in Nat PROVE \E k : KeptOf(s, S, m, k)
<1> DEFINE T == {n \in Nat : \E k : KeptOf(s, S, n, k)}
<1>1. 0 \in T
  <2>1. KeptOf(s, S, 0, [i \in {0} |-> <<>>]) BY DEF KeptOf
  <2>2. QED BY <2>1
<1>2. ASSUME NEW n \in Nat, n \in T PROVE n + 1 \in T
  <2>1. PICK k : KeptOf(s, S, n, k) BY <1>2
  <2> DEFINE l == [i \in 0 .. n + 1 |-> IF i \in 0 .. n THEN k[i]
                     ELSE IF s[i] \in S THEN k[i - 1] ELSE Append(k[i - 1], s[i])]
  <2>2. ASSUME NEW i \in 0 .. n + 1
        PROVE  l[i] = IF i = 0 THEN <<>> ELSE IF s[i] \in S THEN l[i - 1] ELSE Append(l[i - 1], s[i])
    <3>1. CASE i = 0 BY <2>1, <3>1 DEF KeptOf
    <3>2. CASE i \in 1 .. n
      <4>1. l[i] = k[i] /\ l[i - 1] = k[i - 1] BY <3>2
      <4>2. i \in 0 .. n BY <3>2
      <4>3. k[i] = IF i = 0 THEN <<>> ELSE IF s[i] \in S THEN k[i - 1] ELSE Append(k[i - 1], s[i])
        BY ONLY <2>1, <4>2 DEF KeptOf
      <4>4. QED BY <4>1, <4>3
    <3>3. CASE i = n + 1
      <4>1. l[i - 1] = k[i - 1] BY <3>3
      <4>2. QED BY <3>3, <4>1
    <3>4. QED BY <3>1, <3>2, <3>3
  <2>3. KeptOf(s, S, n + 1, l) BY <2>2 DEF KeptOf
  <2>4. QED BY <2>3
<1>3. Nat \subseteq T
  <2> HIDE DEF T
  <2>1. QED BY <1>1, <1>2, Induction
<1>4. QED BY <1>3

\* Without is the last value of that function.
LEMMA WithoutKept ==
  ASSUME NEW s, NEW S, Len(s) \in Nat
  PROVE  \E k : KeptOf(s, S, Len(s), k) /\ Without(s, S) = k[Len(s)]
<1> DEFINE F(k) == [i \in 0 .. Len(s) |-> IF i = 0 THEN <<>>
                     ELSE IF s[i] \in S THEN k[i - 1] ELSE Append(k[i - 1], s[i])]
           g == CHOOSE k : k = F(k)
<1>1. \E k : k = F(k)
  <2>1. PICK k : KeptOf(s, S, Len(s), k) BY KeptExists
  <2>2. k = F(k) BY ONLY <2>1 DEF KeptOf
  <2>3. QED BY <2>2
<1>2. g = F(g) BY <1>1
<1>3. Without(s, S) = g[Len(s)] BY DEF Without
<1>4. QED BY <1>2, <1>3 DEF KeptOf

\* Once(s, u): u is in the list s at one place at most.
Once(s, u) == \A i, j \in DOMAIN s : s[i] = u /\ s[j] = u => i = j

\* What an element at the end of a list adds to it.
LEMMA AppendRange ==
  ASSUME NEW U, NEW t \in Seq(U), NEW x \in U
  PROVE  /\ Append(t, x) \in Seq(U) /\ SeqRange(Append(t, x)) = SeqRange(t) \cup {x}
         /\ DOMAIN t = 1 .. Len(t) /\ DOMAIN Append(t, x) = 1 .. Len(t) + 1 /\ Len(t) \in Nat
         /\ \A i \in 1 .. Len(t) : Append(t, x)[i] = t[i]
         /\ Append(t, x)[Len(t) + 1] = x
         /\ \A u : Once(t, u) /\ (x # u \/ u \notin SeqRange(t)) => Once(Append(t, x), u)
<1>1. /\ Append(t, x) \in Seq(U)
      /\ DOMAIN t = 1 .. Len(t) /\ DOMAIN Append(t, x) = 1 .. Len(t) + 1 /\ Len(t) \in Nat
      /\ \A i \in 1 .. Len(t) : Append(t, x)[i] = t[i]
      /\ Append(t, x)[Len(t) + 1] = x
  BY AppendProperties, LenProperties
<1>2. SeqRange(Append(t, x)) = SeqRange(t) \cup {x} BY <1>1 DEF SeqRange
<1>3. ASSUME NEW u, Once(t, u), x # u \/ u \notin SeqRange(t),
             NEW i \in DOMAIN Append(t, x), NEW j \in DOMAIN Append(t, x),
             Append(t, x)[i] = u, Append(t, x)[j] = u
      PROVE  i = j
  <2>1. CASE x # u
    <3>1. i \in 1 .. Len(t) /\ j \in 1 .. Len(t) BY <1>1, <1>3, <2>1
    <3>2. t[i] = u /\ t[j] = u BY <1>1, <1>3, <3>1
    <3>3. QED BY <1>1, <1>3, <3>1, <3>2 DEF Once
  <2>2. CASE u \notin SeqRange(t)
    <3>1. i \notin 1 .. Len(t) /\ j \notin 1 .. Len(t) BY <1>1, <1>3, <2>2 DEF SeqRange
    <3>2. QED BY <1>1, <1>3, <3>1
  <2>3. QED BY <1>3, <2>1, <2>2
<1>4. QED BY <1>1, <1>2, <1>3 DEF Once

\* Without keeps the order and the number of the elements it keeps; what matters here is
\* which they are, and that none becomes a double.
LEMMA WithoutProperties ==
  ASSUME NEW U, NEW s \in Seq(U), NEW S
  PROVE  /\ Without(s, S) \in Seq(U)
         /\ SeqRange(Without(s, S)) = SeqRange(s) \ S
         /\ \A u : Once(s, u) => Once(Without(s, S), u)
<1>1. Len(s) \in Nat /\ DOMAIN s = 1 .. Len(s) /\ \A i \in 1 .. Len(s) : s[i] \in U
  BY LenProperties, ElementOfSeq
<1>2. PICK k : KeptOf(s, S, Len(s), k) /\ Without(s, S) = k[Len(s)] BY <1>1, WithoutKept
<1>3. \A i \in 0 .. Len(s) :
        k[i] = IF i = 0 THEN <<>> ELSE IF s[i] \in S THEN k[i - 1] ELSE Append(k[i - 1], s[i])
  BY ONLY <1>2 DEF KeptOf
<1> DEFINE Before(i) == {s[p] : p \in 1 .. i}
           Good(i) == /\ k[i] \in Seq(U)
                      /\ SeqRange(k[i]) = Before(i) \ S
                      /\ \A u : (\A p, q \in 1 .. i : s[p] = u /\ s[q] = u => p = q)
                                => Once(k[i], u)
           T == {i \in Nat : i <= Len(s) => Good(i)}
<1>4. 0 \in T
  <2>1. k[0] = <<>> BY <1>1, <1>3
  <2>2. <<>> \in Seq(U) /\ DOMAIN <<>> = {}
    <3>1. <<>> \in Seq(U) /\ Len(<<>>) = 0 BY EmptySeq
    <3>2. DOMAIN <<>> = 1 .. 0 BY <3>1, LenProperties
    <3>3. QED BY <3>1, <3>2
  <2>3. SeqRange(k[0]) = {} /\ \A u : Once(k[0], u) BY <2>1, <2>2 DEF SeqRange, Once
  <2>4. Before(0) = {} OBVIOUS
  <2>5. Good(0) BY ONLY <2>1, <2>2, <2>3, <2>4
  <2> HIDE DEF Good
  <2>6. QED BY <2>5
<1>5. ASSUME NEW n \in Nat, n \in T, n + 1 <= Len(s) PROVE Good(n + 1)
  <2> DEFINE x == s[n + 1]
  <2>1. n + 1 \in 0 .. Len(s) /\ n + 1 # 0 /\ (n + 1) - 1 = n /\ n + 1 \in 1 .. Len(s)
    BY <1>1, <1>5
  <2>2. k[n + 1] = IF x \in S THEN k[n] ELSE Append(k[n], x) BY ONLY <1>3, <2>1
  <2>3. Good(n) BY <1>1, <1>5
  <2>4. x \in U BY <1>1, <2>1
  <2>5. Before(n + 1) = Before(n) \cup {x}
    <3>1. 1 .. n + 1 = (1 .. n) \cup {n + 1} OBVIOUS
    <3>2. QED BY <3>1
  <2>6. ASSUME NEW u, \A p, q \in 1 .. n + 1 : s[p] = u /\ s[q] = u => p = q
        PROVE  Once(k[n], u) /\ (x # u \/ u \notin Before(n))
    <3>1. \A p, q \in 1 .. n : s[p] = u /\ s[q] = u => p = q BY <2>6
    <3>2. \A p \in 1 .. n : s[p] = u => x # u BY <2>6
    <3>3. QED BY <2>3, <3>1, <3>2
  <2> HIDE DEF x
  <2>7. CASE x \in S
    <3>1. k[n + 1] = k[n] BY <2>2, <2>7
    <3>2. SeqRange(k[n + 1]) = Before(n + 1) \ S BY <2>3, <2>5, <2>7, <3>1
    <3>3. QED BY <2>3, <2>6, <3>1, <3>2
  <2>8. CASE x \notin S
    <3>1. k[n + 1] = Append(k[n], x) BY <2>2, <2>8
    <3>2. SeqRange(k[n + 1]) = SeqRange(k[n]) \cup {x} /\ k[n + 1] \in Seq(U)
          /\ \A u : Once(k[n], u) /\ (x # u \/ u \notin SeqRange(k[n])) => Once(k[n + 1], u)
      BY <2>3, <2>4, <3>1, AppendRange
    <3>3. SeqRange(k[n + 1]) = Before(n + 1) \ S BY <2>3, <2>5, <2>8, <3>2
    <3>4. ASSUME NEW u, \A p, q \in 1 .. n + 1 : s[p] = u /\ s[q] = u => p = q
          PROVE  Once(k[n + 1], u)
      <4>1. Once(k[n], u) /\ (x # u \/ u \notin SeqRange(k[n])) BY <2>3, <2>6, <3>4
      <4>2. QED BY <3>2, <4>1
    <3>5. QED BY <3>2, <3>3, <3>4
  <2>9. QED BY <2>7, <2>8
<1>6. Nat \subseteq T
  <2> HIDE DEF Good
  <2>1. \A n \in Nat : n \in T => n + 1 \in T BY <1>1, <1>5
  <2> HIDE DEF T
  <2>2. QED BY <1>4, <2>1, Induction
<1>7. Good(Len(s))
  <2> HIDE DEF Good
  <2>1. QED BY <1>1, <1>6
<1>8. Before(Len(s)) = SeqRange(s) BY <1>1 DEF SeqRange
<1>9. QED BY <1>1, <1>2, <1>7, <1>8 DEF Once

-----------------------------------------------------------------------------
(* Types. *)

\* What a message says, by its kind.  Nobody bids to itself.
Sensible(m) ==
  /\ m.kind \in {"bid", "response", "transfer", "event", "add", "remove"}
  /\ m.to \in Agents \/ m.to = "market"
  /\ m.kind \in {"bid", "response", "transfer", "add"} => m.unit \in Units
  /\ m.kind = "bid" => m.bidder \in Households /\ m.bidder # m.to
  /\ m.kind = "response" => m.to \in Households
  /\ m.kind = "transfer" => m.to \in Freelance
  /\ m.kind = "add" => m.owner \in Agents /\ m.open \in BOOLEAN

MailTyped ==
  /\ \A m \in mail : Sensible(m) /\ m.to \in Agents
  /\ \A m \in out : Sensible(m)

MarketTyped(k) ==
  \A u \in DOMAIN k :
    /\ u \in Units /\ {"owner", "open"} \subseteq DOMAIN k[u]
    /\ k[u].owner \in Agents /\ k[u].open \in BOOLEAN

\* A seller has its lists, offers what it has, and bids are for what it has.
SellerTyped(s) ==
  /\ DOMAIN s = {"active", "units", "onSale", "maxBid"}
  /\ s.active \in BOOLEAN /\ s.units \in Seq(Units)
  /\ DOMAIN s.onSale \subseteq SeqRange(s.units)
  /\ DOMAIN s.maxBid \subseteq SeqRange(s.units)
  /\ \A u \in DOMAIN s.maxBid : s.maxBid[u].bidder \in Households

SellersTyped == DOMAIN seller = Agents /\ \A a \in Agents : SellerTyped(seller[a])

\* A household that waits to move in is active, and has not moved in yet.
HouseholdTyped(h) ==
  /\ DOMAIN h = {"active", "window", "timeOnMarket", "awakened", "moveIn", "toBeOwned",
                 "bid", "lastBid", "offMarket", "acceptedBid", "buySell", "home"}
  /\ h.active \in BOOLEAN /\ h.lastBid \in 0 .. 2 /\ h.window \in Nat
  /\ h.moveIn \in Int /\ h.moveIn >= -1 /\ h.buySell \in Int /\ h.buySell >= -1
  /\ h.moveIn >= 0 => h.toBeOwned \in Units
  /\ DOMAIN h.bid = {"unit", "value"}
  /\ IF h.active THEN h.moveIn # 0 ELSE h.moveIn <= 0

HouseholdsTyped(hs) ==
  DOMAIN hs = Households /\ \A h \in Households : HouseholdTyped(hs[h])

RestTyped ==
  /\ day \in Nat /\ todo \subseteq Agents \cup {Injector}
  /\ entryDay \in [Units -> Nat] /\ planned \subseteq Units /\ garbled \subseteq Units

Typed ==
  MailTyped /\ MarketTyped(market) /\ SellersTyped /\ HouseholdsTyped(household) /\ RestTyped

\* The types of the runs follow from these, and from the roles of a household.
LEMMA TypedIsType == Typed /\ RolesTogether => TypeOK
<1> SUFFICES ASSUME Typed, RolesTogether PROVE TypeOK
  OBVIOUS
<1>1. \A a \in Agents : \A u \in SeqRange(seller[a].units) : u \in Units
  <2>1. SUFFICES ASSUME NEW a \in Agents, NEW u \in SeqRange(seller[a].units) PROVE u \in Units
    OBVIOUS
  <2>2. seller[a].units \in Seq(Units) BY DEF Typed, SellersTyped, SellerTyped
  <2>3. QED BY <2>2, LenProperties, ElementOfSeq DEF SeqRange
<1>2. \A a \in Agents :
        /\ seller[a].active \in BOOLEAN /\ seller[a].units \in Seq(Units)
        /\ DOMAIN seller[a].onSale \subseteq Units /\ DOMAIN seller[a].maxBid \subseteq Units
  BY <1>1 DEF Typed, SellersTyped, SellerTyped
<1>3. \A h \in Households : LET hh == household[h] IN
        /\ hh.active \in BOOLEAN /\ hh.lastBid \in 0 .. 2 /\ hh.window \in Nat
        /\ hh.moveIn >= -1 /\ hh.buySell >= -1 /\ (hh.moveIn >= 0 => hh.toBeOwned \in Units)
        /\ seller[h].active => hh.active
  BY DEF Typed, HouseholdsTyped, HouseholdTyped, RolesTogether
<1>4. QED BY <1>2, <1>3 DEF TypeOK, Typed, MailTyped, Sensible, MarketTyped, RestTyped

\* The input data are typed, as MarketAssumption says.
LEMMA InitTyped == ASSUME Init PROVE Typed
<1>1. MailTyped /\ MarketTyped(market) BY DEF Init, MailTyped, MarketTyped, Nothing
<1>2. SellersTyped
  <2>1. SUFFICES ASSUME NEW a \in Agents PROVE SellerTyped(seller[a])
    BY DEF Init, SellersTyped
  <2>2. seller[a] = [active |-> a \in Sellers, units |-> Initial[a], onSale |-> Nothing,
                     maxBid |-> Nothing]
    BY DEF Init
  <2>3. Initial[a] \in Seq(Units) BY MarketAssumption
  <2>4. DOMAIN Nothing = {} BY DEF Nothing
  <2>5. QED BY <2>2, <2>3, <2>4 DEF SellerTyped
<1>3. HouseholdsTyped(household)
  <2>1. PICK w \in [Households -> 0 .. Window] :
          household = [h \in Households |->
            [active |-> w[h] > 0, window |-> w[h], timeOnMarket |-> w[h], awakened |-> 0,
             moveIn |-> -1, toBeOwned |-> None, bid |-> NoBid, lastBid |-> 0,
             offMarket |-> FALSE, acceptedBid |-> FALSE, buySell |-> -1,
             home |-> IF Initial[h] = <<>> THEN None ELSE Initial[h][1]]]
    BY DEF Init
  <2>2. Window \in Nat BY MarketAssumption
  <2>3. DOMAIN NoBid = {"unit", "value"} BY DEF NoBid
  <2>4. ASSUME NEW h \in Households PROVE HouseholdTyped(household[h])
    <3>1. w[h] \in Nat /\ household[h] =
            [active |-> w[h] > 0, window |-> w[h], timeOnMarket |-> w[h], awakened |-> 0,
             moveIn |-> -1, toBeOwned |-> None, bid |-> NoBid, lastBid |-> 0,
             offMarket |-> FALSE, acceptedBid |-> FALSE, buySell |-> -1,
             home |-> IF Initial[h] = <<>> THEN None ELSE Initial[h][1]]
      BY <2>1, <2>2
    <3>2. QED BY <2>3, <3>1 DEF HouseholdTyped
  <2>5. QED BY <2>1, <2>4 DEF HouseholdsTyped
<1>4. RestTyped BY MarketAssumption DEF Init, RestTyped
<1>5. QED BY <1>1, <1>2, <1>3, <1>4 DEF Typed

-----------------------------------------------------------------------------
\* What an agent that is updated has left, and what it then offers.
LEMMA UnsoldUnits ==
  ASSUME SellersTyped, NEW a \in Agents
  PROVE  /\ Sold(a) \subseteq DOMAIN seller[a].maxBid
         /\ Sold(a) \subseteq SeqRange(seller[a].units) /\ SeqRange(seller[a].units) \subseteq Units
         /\ Unsold(a) \in Seq(Units)
         /\ SeqRange(Unsold(a)) = SeqRange(seller[a].units) \ Sold(a)
         /\ \A u : Once(seller[a].units, u) => Once(Unsold(a), u)
         /\ \A k : DOMAIN OnSale(a, k) \subseteq SeqRange(Unsold(a))
<1>1. SellerTyped(seller[a]) BY DEF SellersTyped
<1>2. Sold(a) \subseteq DOMAIN seller[a].maxBid BY DEF Sold
<1>3. seller[a].units \in Seq(Units) BY <1>1 DEF SellerTyped
<1>4. SeqRange(seller[a].units) \subseteq Units
  BY <1>3, LenProperties, ElementOfSeq DEF SeqRange
<1>5. /\ Unsold(a) \in Seq(Units)
      /\ SeqRange(Unsold(a)) = SeqRange(seller[a].units) \ Sold(a)
      /\ \A u : Once(seller[a].units, u) => Once(Unsold(a), u)
  BY <1>3, WithoutProperties DEF Unsold
<1>6. ASSUME NEW k PROVE DOMAIN OnSale(a, k) \subseteq SeqRange(Unsold(a))
  <2>1. DOMAIN OnSale(a, k) =
          (DOMAIN seller[a].onSale \ (Sold(a) \cup Expired(a, k))) \cup Listed(a, k)
    BY DEF OnSale
  <2>2. Listed(a, k) \subseteq SeqRange(Unsold(a)) BY DEF Listed
  <2>3. DOMAIN seller[a].onSale \subseteq SeqRange(seller[a].units) BY <1>1 DEF SellerTyped
  <2>4. QED BY <1>5, <2>1, <2>2, <2>3
<1>7. QED BY <1>1, <1>2, <1>4, <1>5, <1>6 DEF SellerTyped

\* A response to a bid is a message.
LEMMA ResponseSensible ==
  ASSUME NEW h \in Households, NEW u \in Units, NEW w PROVE Sensible(Response(h, u, w))
BY DEF Sensible, Response, Agents

\* What an updated seller posts: responses, and changes of the market.
LEMMA SellerMailSensible ==
  ASSUME SellersTyped, NEW a \in Agents, NEW k, MarketTyped(k)
  PROVE  \A m \in SellerMail(a, k) : Sensible(m)
<1>1. /\ Sold(a) \subseteq DOMAIN seller[a].maxBid /\ Sold(a) \subseteq Units
      /\ SeqRange(Unsold(a)) \subseteq Units
  BY UnsoldUnits
<1>2. ASSUME NEW u \in Sold(a) PROVE Sensible(Response(seller[a].maxBid[u].bidder, u, "ACCEPTED"))
  <2>1. seller[a].maxBid[u].bidder \in Households BY <1>1 DEF SellersTyped, SellerTyped
  <2>2. QED BY <1>1, <2>1, ResponseSensible
<1>3. \A u : Sensible(Remove(u)) BY DEF Sensible, Remove
<1>4. ASSUME NEW u \in Repriced(a, k), NEW p PROVE Sensible(Add(u, k[u].owner, k[u].open, p))
  <2>1. u \in DOMAIN k BY <1>4 DEF Repriced, Offered
  <2>2. QED BY <2>1 DEF Sensible, Add, MarketTyped
<1>5. ASSUME NEW u \in Listed(a, k) PROVE Sensible(Add(u, a, a \notin Households, 0))
  <2>1. u \in Units BY <1>1 DEF Listed
  <2>2. QED BY <2>1 DEF Sensible, Add
<1>6. QED BY <1>2, <1>3, <1>4, <1>5 DEF SellerMail

\* The entry days of the units are days.
LEMMA EntryDayTyped ==
  ASSUME RestTyped, NEW a, NEW k
  PROVE  /\ NewEntryDay(a, k) \in [Units -> Nat]
         /\ \A u \in Units : IF u \in Expired(a, k) THEN NewEntryDay(a, k)[u] > day
                                                   ELSE NewEntryDay(a, k)[u] = entryDay[u]
<1>1. ReentryDay(a) \in Nat /\ ReentryDay(a) > day
  BY MarketAssumption DEF ReentryDay, RestTyped
<1>2. QED BY <1>1 DEF NewEntryDay, RestTyped

\* The status that a seller sets is all it changes.
LEMMA NotifiedTyped ==
  ASSUME NEW a, NEW hs, HouseholdsTyped(hs)
  PROVE  /\ HouseholdsTyped(Notified(a, hs))
         /\ \A h \in Households : /\ Notified(a, hs)[h].moveIn = hs[h].moveIn
                                  /\ Notified(a, hs)[h].toBeOwned = hs[h].toBeOwned
<1>1. CASE a \in Developers BY <1>1 DEF Notified
<1>2. CASE a \notin Developers
  <2>1. Notified(a, hs) = [h \in Households |-> IF h \in Winners(a)
                             THEN [hs[h] EXCEPT !.lastBid = 1, !.offMarket = TRUE] ELSE hs[h]]
    BY <1>2 DEF Notified
  <2>2. ASSUME NEW h \in Households
        PROVE  LET r == [hs[h] EXCEPT !.lastBid = 1, !.offMarket = TRUE] IN
               HouseholdTyped(r) /\ r.moveIn = hs[h].moveIn /\ r.toBeOwned = hs[h].toBeOwned
    <3>1. HouseholdTyped(hs[h]) BY DEF HouseholdsTyped
    <3>2. QED BY <3>1 DEF HouseholdTyped
  <2>3. QED BY <2>1, <2>2 DEF HouseholdsTyped
<1>3. QED BY <1>1, <1>2

-----------------------------------------------------------------------------
\* A bid is answered, but not accepted, and kept only for what is on sale.
LEMMA ReceiveBidOutcome ==
  ASSUME Typed, NEW m \in mail, NEW a, ReceiveBid(a, m)
  PROVE  /\ a \in Agents /\ m.to = a /\ m.kind = "bid" /\ mail' = mail \ {m}
         /\ \/ out' = out
            \/ \E h \in Households : \E w : w # "ACCEPTED" /\ out' = out \cup {Response(h, m.unit, w)}
         /\ \/ seller' = seller
            \/ seller' = [seller EXCEPT ![a].maxBid = seller[a].maxBid]
            \/ /\ m.unit \in DOMAIN seller[a].onSale
               /\ seller' = [seller EXCEPT ![a].maxBid = Best(a, m.unit, m)]
<1>1. m.to = a /\ m.kind = "bid" /\ mail' = mail \ {m} BY DEF ReceiveBid, Handle
<1>2. a \in Agents /\ m.unit \in Units /\ m.bidder \in Households
  BY <1>1 DEF Typed, MailTyped, Sensible
<1>3. ASSUME NEW u \in DOMAIN seller[a].maxBid PROVE seller[a].maxBid[u].bidder \in Households
  BY <1>2, <1>3 DEF Typed, SellersTyped, SellerTyped
<1>4. \/ UNCHANGED <<seller, out>>
      \/ \E w : w # "ACCEPTED" /\ Answer(a, m.unit, seller[a].maxBid, m.bidder, w)
      \/ m.unit \in DOMAIN seller[a].onSale /\ CompareBids(a, m.unit, m)
  BY DEF ReceiveBid, Available
<1>5. CASE \E w : w # "ACCEPTED" /\ Answer(a, m.unit, seller[a].maxBid, m.bidder, w)
  BY <1>1, <1>2, <1>5 DEF Answer
<1>6. CASE m.unit \in DOMAIN seller[a].onSale /\ CompareBids(a, m.unit, m)
  <2>1. CASE m.unit \notin DOMAIN seller[a].maxBid
    <3>1. seller' = [seller EXCEPT ![a].maxBid = Best(a, m.unit, m)] /\ out' = out
      BY <1>6, <2>1 DEF CompareBids
    <3>2. QED BY <1>1, <1>2, <1>6, <3>1
  <2>2. CASE m.unit \in DOMAIN seller[a].maxBid
    <3>1. \/ Answer(a, m.unit, Best(a, m.unit, m), seller[a].maxBid[m.unit].bidder, "BETTER_OFFER")
          \/ Answer(a, m.unit, seller[a].maxBid, m.bidder, "BETTER_OFFER")
      BY <1>6, <2>2 DEF CompareBids
    <3>2. QED BY <1>1, <1>2, <1>3, <1>6, <2>2, <3>1 DEF Answer
  <2>3. QED BY <2>1, <2>2
<1>7. QED BY <1>1, <1>2, <1>4, <1>5, <1>6

\* The answer to a bid keeps the types.
LEMMA ReceiveBidTyped ==
  ASSUME Typed, NEW m \in mail, NEW a, ReceiveBid(a, m) PROVE Typed'
<1>1. /\ a \in Agents /\ m.to = a /\ m.kind = "bid" /\ mail' = mail \ {m}
      /\ \/ out' = out
         \/ \E h \in Households : \E w : w # "ACCEPTED" /\ out' = out \cup {Response(h, m.unit, w)}
      /\ \/ seller' = seller
         \/ seller' = [seller EXCEPT ![a].maxBid = seller[a].maxBid]
         \/ /\ m.unit \in DOMAIN seller[a].onSale
            /\ seller' = [seller EXCEPT ![a].maxBid = Best(a, m.unit, m)]
  BY ReceiveBidOutcome
<1>2. m.unit \in Units /\ m.bidder \in Households BY <1>1 DEF Typed, MailTyped, Sensible
<1>3. MailTyped' BY <1>1, <1>2, ResponseSensible DEF Typed, MailTyped
<1>4. SellersTyped'
  <2>1. SUFFICES ASSUME NEW best, seller' = [seller EXCEPT ![a].maxBid = best],
                        \/ best = seller[a].maxBid
                        \/ m.unit \in DOMAIN seller[a].onSale /\ best = Best(a, m.unit, m)
                 PROVE  SellersTyped'
    BY <1>1 DEF Typed, SellersTyped
  <2>2. SellerTyped(seller[a]) BY <1>1 DEF Typed, SellersTyped
  <2>3. DOMAIN best \subseteq SeqRange(seller[a].units)
        /\ \A u \in DOMAIN best : best[u].bidder \in Households
    BY <1>2, <2>1, <2>2 DEF SellerTyped, Best
  <2>4. SellerTyped([seller[a] EXCEPT !.maxBid = best]) BY <2>2, <2>3 DEF SellerTyped
  <2>5. /\ DOMAIN seller' = Agents /\ seller'[a] = [seller[a] EXCEPT !.maxBid = best]
        /\ \A b \in Agents \ {a} : seller'[b] = seller[b]
    BY <1>1, <2>1 DEF Typed, SellersTyped
  <2>6. QED BY <2>4, <2>5 DEF Typed, SellersTyped
<1>5. UNCHANGED <<day, todo, market, household, entryDay, planned, garbled>> BY DEF ReceiveBid
<1>6. QED BY <1>3, <1>4, <1>5 DEF Typed, MarketTyped, HouseholdsTyped, RestTyped

\* A household that wins a unit waits one day at least.
LEMMA MoveInWaitTyped ==
  ASSUME RestTyped, NEW h, household[h].moveIn \in Int
  PROVE  MoveInWait(h) \in Nat \ {0}
<1>1. BidderDay(h) \in Int BY DEF BidderDay, RestTyped
<1>2. MoveInDays \in Nat \ {0} /\ EndDay \in Nat BY MarketAssumption
<1>3. QED BY ONLY <1>1, <1>2 DEF MoveInWait

\* The responses and events change the household they are for.
LEMMA ReceiveResponseOutcome ==
  ASSUME Typed, NEW m \in mail, NEW h, ReceiveResponse(h, m)
  PROVE  /\ m.to = h /\ m.kind = "response" /\ mail' = mail \ {m} /\ m.unit \in Units
         /\ \E s : /\ household' = [household EXCEPT ![h] = s]
                   /\ h \in Households =>
                        /\ HouseholdTyped(s)
                        /\ \/ s.moveIn = household[h].moveIn /\ s.toBeOwned = household[h].toBeOwned
                           \/ m.response = "ACCEPTED" /\ s.toBeOwned = m.unit
<1>1. m.to = h /\ m.kind = "response" /\ mail' = mail \ {m} BY DEF ReceiveResponse, Handle
<1>2. m.unit \in Units BY <1>1 DEF Typed, MailTyped, Sensible
<1> DEFINE r == household[h]
           s == CASE r.active /\ m.response = "ACCEPTED" -> Accepted(h, m.unit)
                  [] r.active /\ m.response = "NOT_ACCEPTED" ->
                       [r EXCEPT !.lastBid = 2, !.offMarket = @ \/ r.window = 0]
                  [] r.active /\ m.response = "NOT_AVAILABLE" -> [r EXCEPT !.bid = NoBid]
                  [] OTHER -> r
<1>3. household' = [household EXCEPT ![h] = s] BY DEF ReceiveResponse
<1>4. ASSUME h \in Households
      PROVE  /\ HouseholdTyped(s)
             /\ \/ s.moveIn = household[h].moveIn /\ s.toBeOwned = household[h].toBeOwned
                \/ m.response = "ACCEPTED" /\ s.toBeOwned = m.unit
  <2>1. HouseholdTyped(r) BY <1>4 DEF Typed, HouseholdsTyped
  <2> HIDE DEF r
  <2>2. r.active /\ m.response = "ACCEPTED" => s = Accepted(h, m.unit)
    OBVIOUS
  <2>3. \/ r.active /\ m.response = "ACCEPTED"
        \/ s = [r EXCEPT !.lastBid = 2, !.offMarket = @ \/ r.window = 0]
        \/ s = [r EXCEPT !.bid = NoBid] \/ s = r
    OBVIOUS
  <2> HIDE DEF s
  <2>4. CASE r.active /\ m.response = "ACCEPTED"
    <3>1. MoveInWait(h) \in Nat \ {0} BY <2>1, MoveInWaitTyped DEF HouseholdTyped, Typed, r
    <3>2. s = Accepted(h, m.unit) BY <2>2, <2>4
    <3>3. /\ DOMAIN s = DOMAIN r
          /\ s.toBeOwned = m.unit /\ s.moveIn = MoveInWait(h) /\ s.lastBid = 1
          /\ s.active = r.active /\ s.window = r.window /\ s.buySell = r.buySell /\ s.bid = r.bid
      BY <2>1, <3>2 DEF Accepted, r, HouseholdTyped
    <3>4. r.active BY <2>4
    <3>5. HouseholdTyped(s) BY ONLY <1>2, <2>1, <3>1, <3>3, <3>4 DEF HouseholdTyped
    <3>6. QED BY <2>4, <3>3, <3>5
  <2>5. CASE \/ s = [r EXCEPT !.lastBid = 2, !.offMarket = @ \/ r.window = 0]
             \/ s = [r EXCEPT !.bid = NoBid] \/ s = r
    <3>1. /\ DOMAIN s = DOMAIN r /\ s.toBeOwned = r.toBeOwned /\ s.moveIn = r.moveIn
          /\ s.active = r.active /\ s.window = r.window /\ s.buySell = r.buySell
          /\ s.lastBid \in {r.lastBid, 2} /\ s.bid \in {r.bid, NoBid}
      BY ONLY <2>1, <2>5 DEF HouseholdTyped
    <3>2. HouseholdTyped(s) BY ONLY <2>1, <3>1 DEF HouseholdTyped, NoBid
    <3>3. QED BY <3>1, <3>2 DEF r
  <2>6. QED BY <2>3, <2>4, <2>5
<1>5. QED BY <1>1, <1>2, <1>3, <1>4

\* The answer a bidder gets keeps the types.
LEMMA ReceiveResponseTyped ==
  ASSUME Typed, NEW m \in mail, NEW h, ReceiveResponse(h, m) PROVE Typed'
<1>1. PICK s : /\ household' = [household EXCEPT ![h] = s]
               /\ h \in Households => HouseholdTyped(s)
  BY ReceiveResponseOutcome
<1>2. HouseholdsTyped(household)' BY <1>1 DEF Typed, HouseholdsTyped
<1>3. mail' \subseteq mail /\ UNCHANGED <<day, todo, out, market, seller, entryDay, planned, garbled>>
  BY DEF ReceiveResponse, Handle
<1>4. MailTyped' BY <1>3 DEF Typed, MailTyped
<1>5. QED BY <1>2, <1>3, <1>4 DEF Typed, MarketTyped, SellersTyped, RestTyped

-----------------------------------------------------------------------------
\* A unit is added to the list of an agent.
Gains(a, u) ==
  /\ DOMAIN seller' = Agents /\ \A b \in Agents \ {a} : seller'[b] = seller[b]
  /\ DOMAIN seller'[a] = DOMAIN seller[a]
  /\ seller'[a].active = seller[a].active /\ seller'[a].onSale = seller[a].onSale
  /\ seller'[a].maxBid = seller[a].maxBid
  /\ seller'[a].units = Append(seller[a].units, u)

\* An agent that gains a unit has a list of units.
LEMMA GainsTyped ==
  ASSUME SellersTyped, NEW a \in Agents, NEW u \in Units, Gains(a, u)
  PROVE  SellersTyped'
<1>1. SellerTyped(seller[a]) BY DEF SellersTyped
<1>2. /\ seller'[a].units \in Seq(Units)
      /\ SeqRange(seller'[a].units) = SeqRange(seller[a].units) \cup {u}
  BY <1>1, AppendRange DEF SellerTyped, Gains
<1>3. SellerTyped(seller'[a]) BY <1>1, <1>2 DEF SellerTyped, Gains
<1>4. QED BY <1>3 DEF SellersTyped, Gains

\* A unit appended to the list of one agent is a gain.
LEMMA GainsUnit ==
  ASSUME NEW a \in Agents, NEW u, SellerTyped(seller[a]), DOMAIN seller = Agents,
         seller' = [seller EXCEPT ![a].units = Append(@, u)]
  PROVE  Gains(a, u)
<1> DEFINE r == seller[a]
<1>1. seller' = [seller EXCEPT ![a] = [r EXCEPT !.units = Append(r.units, u)]] OBVIOUS
<1>2. DOMAIN r = {"active", "units", "onSale", "maxBid"} BY DEF SellerTyped
<1> HIDE DEF r
<1>3. seller'[a] = [r EXCEPT !.units = Append(r.units, u)] BY <1>1
<1>4. QED BY <1>1, <1>2, <1>3 DEF Gains, r

\* TransferUnit: a freelance agent that is active gains the unit, an inactive one drops it.
LEMMA ReceiveTransferOutcome ==
  ASSUME Typed, NEW m \in mail, NEW a, ReceiveTransfer(a, m)
  PROVE  /\ a \in Freelance /\ a \in Agents /\ m.unit \in Units
         /\ m.to = a /\ m.kind = "transfer" /\ mail' = mail \ {m}
         /\ \/ seller' = seller /\ ~ seller[a].active
            \/ Gains(a, m.unit) /\ seller[a].active
<1>1. m.to = a /\ m.kind = "transfer" /\ mail' = mail \ {m} BY DEF ReceiveTransfer, Handle
<1>2. a \in Freelance /\ a \in Agents /\ m.unit \in Units
  BY <1>1 DEF Typed, MailTyped, Sensible
<1>3. SellerTyped(seller[a]) /\ DOMAIN seller = Agents BY <1>2 DEF Typed, SellersTyped
<1>4. CASE seller[a].active
  <2>1. seller' = [seller EXCEPT ![a].units = Append(@, m.unit)]
    BY <1>4 DEF ReceiveTransfer
  <2>2. Gains(a, m.unit) BY ONLY <1>2, <1>3, <2>1, GainsUnit
  <2>3. QED BY <1>1, <1>2, <1>4, <2>2
<1>5. CASE ~ seller[a].active
  <2>1. seller' = seller BY <1>5 DEF ReceiveTransfer
  <2>2. QED BY <1>1, <1>2, <1>5, <2>1
<1>6. QED BY <1>4, <1>5

\* A unit that is handed over keeps the types.
LEMMA ReceiveTransferTyped ==
  ASSUME Typed, NEW m \in mail, NEW a, ReceiveTransfer(a, m) PROVE Typed'
<1>1. /\ a \in Agents /\ m.unit \in Units /\ mail' = mail \ {m}
      /\ seller' = seller \/ Gains(a, m.unit)
  BY ReceiveTransferOutcome
<1>2. SellersTyped' BY <1>1, GainsTyped DEF Typed, SellersTyped
<1>3. UNCHANGED <<day, todo, out, market, household, entryDay, planned, garbled>>
  BY DEF ReceiveTransfer
<1>4. MailTyped' BY <1>1, <1>3 DEF Typed, MailTyped
<1>5. QED BY <1>2, <1>3, <1>4 DEF Typed, MarketTyped, HouseholdsTyped, RestTyped

\* An awakened household waits for nothing any more.
LEMMA ReceiveEventOutcome ==
  ASSUME Typed, NEW m \in mail, NEW h, ReceiveEvent(h, m)
  PROVE  /\ mail' = mail \ {m} /\ DOMAIN household' = Households
         /\ \A g \in Households :
              \/ household'[g] = household[g]
              \/ HouseholdTyped(household'[g]) /\ household'[g].moveIn = -1
<1>1. mail' = mail \ {m} BY DEF ReceiveEvent, Handle
<1>2. household' = household \/ household' = [household EXCEPT ![h] = Awakened(h, m.event)]
  BY DEF ReceiveEvent
<1>3. ASSUME h \in Households
      PROVE  HouseholdTyped(Awakened(h, m.event)) /\ Awakened(h, m.event).moveIn = -1
  <2> DEFINE s == Awakened(h, m.event)
             r == household[h]
  <2>1. HouseholdTyped(r) BY <1>3 DEF Typed, HouseholdsTyped
  <2>2. \E w \in {Window, BTOWindow} :
          s = [r EXCEPT !.active = TRUE, !.moveIn = -1, !.buySell = BuySellOffset, !.window = w]
    BY DEF Awakened
  <2> HIDE DEF s, r
  <2>3. /\ DOMAIN s = DOMAIN r /\ s.active \in BOOLEAN /\ s.active /\ s.moveIn = -1 /\ s.buySell = BuySellOffset
        /\ s.window \in {Window, BTOWindow} /\ s.bid = r.bid /\ s.lastBid = r.lastBid
    BY ONLY <2>1, <2>2 DEF HouseholdTyped
  <2>4. Window \in Nat /\ BTOWindow \in Nat /\ BuySellOffset \in Nat BY MarketAssumption
  <2>5. HouseholdTyped(s)
    <3>1. s.window \in Nat /\ s.buySell \in Int /\ s.buySell >= -1 BY ONLY <2>3, <2>4
    <3>2. QED BY ONLY <2>1, <2>3, <3>1 DEF HouseholdTyped
  <2>6. QED BY <2>3, <2>5 DEF s
<1>4. QED BY <1>1, <1>2, <1>3 DEF Typed, HouseholdsTyped

\* An awakening keeps the types.
LEMMA ReceiveEventTyped ==
  ASSUME Typed, NEW m \in mail, NEW h, ReceiveEvent(h, m) PROVE Typed'
<1>1. HouseholdsTyped(household)' BY ReceiveEventOutcome DEF Typed, HouseholdsTyped
<1>2. mail' = mail \ {m} BY ReceiveEventOutcome
<1>3. UNCHANGED <<day, todo, out, market, seller, entryDay, planned, garbled>>
  BY DEF ReceiveEvent
<1>4. MailTyped' BY <1>2, <1>3 DEF Typed, MailTyped
<1>5. QED BY <1>1, <1>3, <1>4 DEF Typed, MarketTyped, SellersTyped, RestTyped

\* A developer launches a unit: it gains a planned one, whose entry day is the day before.
LEMMA LaunchOutcome ==
  ASSUME Typed, NEW d \in Developers, NEW u \in Units, Launch(d, u)
  PROVE  /\ d \in Agents /\ u \in planned /\ planned' = planned \ {u} /\ Gains(d, u)
         /\ \E S : out' = out \cup S /\ \A m \in S : Sensible(m) /\ m.kind = "event"
         /\ day \in Nat \ {0} /\ entryDay' = [entryDay EXCEPT ![u] = day - 1]
<1>1. d \in Agents BY DEF Agents, Sellers
<1>2. SellerTyped(seller[d]) /\ DOMAIN seller = Agents BY <1>1 DEF Typed, SellersTyped
<1>3. seller' = [seller EXCEPT ![d].units = Append(@, u)] BY DEF Launch
<1>4. Gains(d, u) BY ONLY <1>1, <1>2, <1>3, GainsUnit
<1>5. \E S : out' = out \cup S /\ \A m \in S : Sensible(m) /\ m.kind = "event"
  <2>1. \/ out' = out \cup {Event(h, "bto") : h \in Eligible}
        \/ out' = out \cup {Event(h, "presale") : h \in Households}
    BY DEF Launch
  <2>2. \A h \in Households : \A w : Sensible(Event(h, w)) /\ Event(h, w).kind = "event"
    BY DEF Sensible, Event, Agents
  <2>3. Eligible \subseteq Households BY MarketAssumption
  <2>4. CASE out' = out \cup {Event(h, "bto") : h \in Eligible}
    <3> DEFINE S == {Event(h, "bto") : h \in Eligible}
    <3>1. \A m \in S : Sensible(m) /\ m.kind = "event" BY ONLY <2>2, <2>3
    <3>2. out' = out \cup S BY ONLY <2>4
    <3> HIDE DEF S
    <3>3. QED BY ONLY <3>1, <3>2
  <2>5. CASE out' = out \cup {Event(h, "presale") : h \in Households}
    <3> DEFINE S == {Event(h, "presale") : h \in Households}
    <3>1. \A m \in S : Sensible(m) /\ m.kind = "event" BY ONLY <2>2, <2>3
    <3>2. out' = out \cup S BY ONLY <2>5
    <3> HIDE DEF S
    <3>3. QED BY ONLY <3>1, <3>2
  <2>6. QED BY <2>1, <2>4, <2>5
<1>6. day \in Nat \ {0}
  <2>1. day = LaunchDay[u] BY DEF Launch
  <2>2. LaunchDay \in [Units -> Nat \ {0}] BY MarketAssumption
  <2>3. QED BY <2>1, <2>2
<1>7. QED BY <1>1, <1>4, <1>5, <1>6 DEF Launch

\* A launch keeps the types.
LEMMA LaunchTyped ==
  ASSUME Typed, NEW d \in Developers, NEW u \in Units, Launch(d, u) PROVE Typed'
<1>1. /\ d \in Agents /\ planned' = planned \ {u} /\ Gains(d, u)
      /\ \E S : out' = out \cup S /\ \A m \in S : Sensible(m) /\ m.kind = "event"
      /\ day \in Nat \ {0} /\ entryDay' = [entryDay EXCEPT ![u] = day - 1]
  BY LaunchOutcome
<1>2. UNCHANGED <<day, todo, mail, market, household, garbled>> BY DEF Launch
<1>3. MailTyped' BY <1>1, <1>2 DEF Typed, MailTyped
<1>4. SellersTyped' BY <1>1, GainsTyped DEF Typed
<1>5. day - 1 \in Nat BY <1>1
<1>6. RestTyped' BY <1>1, <1>2, <1>5 DEF Typed, RestTyped
<1>7. QED BY <1>2, <1>3, <1>4, <1>6 DEF Typed, MarketTyped, HouseholdsTyped

-----------------------------------------------------------------------------
\* The injector, and an agent without active roles, leave who waits for what alone.
SameWaits ==
  /\ HouseholdsTyped(household)'
  /\ \A h \in Households : /\ household'[h].moveIn = household[h].moveIn
                           /\ household'[h].toBeOwned = household[h].toBeOwned

\* The injector changes nothing of who waits to move in.
LEMMA AwakenOutcome ==
  ASSUME Typed, NEW h \in Households, Awaken(h) PROVE SameWaits
<1> DEFINE r == household[h]
           s == household'[h]
<1>1. HouseholdTyped(r) /\ DOMAIN household = Households BY DEF Typed, HouseholdsTyped
<1>2. household' = [household EXCEPT ![h] =
        [@ EXCEPT !.lastBid = 0, !.window = Window, !.timeOnMarket = Window, !.awakened = day]]
  BY DEF Awaken
<1>3. /\ DOMAIN s = DOMAIN r /\ s.active = r.active /\ s.moveIn = r.moveIn
      /\ s.buySell = r.buySell /\ s.toBeOwned = r.toBeOwned /\ s.bid = r.bid
      /\ s.window = Window /\ s.lastBid = 0
  BY <1>1, <1>2 DEF HouseholdTyped
<1>4. DOMAIN household' = Households /\ \A g \in Households \ {h} : household'[g] = household[g]
  BY <1>1, <1>2
<1>5. HouseholdTyped(s)
  <2> HIDE DEF r, s
  <2>1. QED BY <1>1, <1>3, MarketAssumption DEF HouseholdTyped
<1>6. QED BY <1>3, <1>4, <1>5 DEF SameWaits, Typed, HouseholdsTyped

\* An awakening by the injector keeps the types.
LEMMA AwakenTyped ==
  ASSUME Typed, NEW h \in Households, Awaken(h) PROVE Typed'
<1>1. HouseholdsTyped(household)' BY AwakenOutcome DEF SameWaits
<1>2. out' = out \cup {Event(h, "job")} BY DEF Awaken
<1>3. Sensible(Event(h, "job")) BY DEF Sensible, Event, Agents
<1>4. UNCHANGED <<day, todo, mail, market, seller, entryDay, planned, garbled>> BY DEF Awaken
<1>5. MailTyped' BY <1>2, <1>3, <1>4 DEF Typed, MailTyped
<1>6. QED BY <1>1, <1>4, <1>5 DEF Typed, MarketTyped, SellersTyped, RestTyped

\* The injector's update keeps the types.
LEMMA InjectorTyped == ASSUME Typed, UpdateInjector PROVE Typed'
<1>1. UNCHANGED <<day, mail, out, market, seller, household, entryDay, planned, garbled>>
      /\ todo' \subseteq todo
  BY DEF UpdateInjector
<1>2. QED BY <1>1 DEF Typed, MailTyped, MarketTyped, SellersTyped, HouseholdsTyped, RestTyped

\* Opening entries keeps the market typed.
LEMMA OpenedTyped == ASSUME Typed, NEW h PROVE MarketTyped(Opened(h))
BY DEF Typed, MarketTyped, Opened

\* Nor does an idle agent.
LEMMA IdleOutcome == ASSUME Typed, NEW a \in Agents, UpdateIdle(a) PROVE SameWaits
<1>1. CASE a \in Households
  <2> DEFINE r == household[a]
             s == household'[a]
  <2>1. HouseholdTyped(r) /\ DOMAIN household = Households BY <1>1 DEF Typed, HouseholdsTyped
  <2>2. household' = [household EXCEPT ![a].buySell = IF @ = -1 THEN -1 ELSE @ - 1]
    BY <1>1 DEF UpdateIdle
  <2>3. /\ DOMAIN s = DOMAIN r /\ s.active = r.active /\ s.moveIn = r.moveIn
        /\ s.buySell = (IF r.buySell = -1 THEN -1 ELSE r.buySell - 1)
        /\ s.toBeOwned = r.toBeOwned /\ s.bid = r.bid
        /\ s.window = r.window /\ s.lastBid = r.lastBid
    BY <1>1, <2>1, <2>2 DEF HouseholdTyped
  <2>4. DOMAIN household' = Households /\ \A g \in Households \ {a} : household'[g] = household[g]
    BY <2>1, <2>2
  <2>5. HouseholdTyped(s)
    <3> HIDE DEF r, s
    <3>1. QED BY <2>1, <2>3 DEF HouseholdTyped
  <2>6. QED BY <2>3, <2>4, <2>5 DEF SameWaits, Typed, HouseholdsTyped
<1>2. CASE a \notin Households
  <2>1. household' = household BY <1>2 DEF UpdateIdle
  <2>2. QED BY <2>1 DEF SameWaits, Typed, HouseholdsTyped
<1>3. QED BY <1>1, <1>2

\* An idle agent keeps the types.
LEMMA IdleTyped == ASSUME Typed, NEW a \in Agents, UpdateIdle(a) PROVE Typed'
<1>1. HouseholdsTyped(household)' BY IdleOutcome DEF SameWaits
<1>2. market' = Opened(a) \/ market' = market BY DEF UpdateIdle
<1>3. MarketTyped(market)' BY <1>2, OpenedTyped DEF Typed, MarketTyped
<1>4. UNCHANGED <<day, mail, out, seller, entryDay, planned, garbled>> /\ todo' \subseteq todo
  BY DEF UpdateIdle, Enter
<1>5. QED BY <1>1, <1>3, <1>4 DEF Typed, MailTyped, SellersTyped, RestTyped

-----------------------------------------------------------------------------
\* An agent that is updated writes its record anew.
LEMMA Rewritten ==
  ASSUME SellersTyped, NEW a \in Agents,
         DOMAIN seller' = Agents, \A b \in Agents \ {a} : seller'[b] = seller[b],
         DOMAIN seller'[a] = {"active", "units", "onSale", "maxBid"},
         seller'[a].active \in BOOLEAN, seller'[a].units \in Seq(Units),
         DOMAIN seller'[a].onSale \subseteq SeqRange(seller'[a].units),
         DOMAIN seller'[a].maxBid = {}
  PROVE  SellersTyped'
<1>1. SellerTyped(seller'[a]) BY DEF SellerTyped
<1>2. QED BY <1>1 DEF SellersTyped

\* What UpdateSeller leaves of an agent's list and posts.
LEMMA UpdateSellerOutcome ==
  ASSUME Typed, NEW a \in Sellers, UpdateSeller(a)
  PROVE  /\ a \in Agents /\ a \in todo /\ todo' = todo \ {a} /\ (\A m \in mail : m.to # a)
         /\ SellersTyped' /\ SameWaits
         /\ seller'[a].units = Unsold(a) /\ seller'[a].onSale = OnSale(a, market)
         /\ \A b \in Agents \ {a} : seller'[b] = seller[b]
         /\ out' = out \cup SellerMail(a, market) /\ mail' = mail
         /\ entryDay' = NewEntryDay(a, market)
<1>1. a \in Agents BY DEF Agents
<1>2. a \in todo /\ todo' = todo \ {a} /\ \A m \in mail : m.to # a
  BY <1>1, EnterNoMail DEF UpdateSeller
<1>3. SellersTyped /\ HouseholdsTyped(household) BY DEF Typed
<1>4. Unsold(a) \in Seq(Units) /\ DOMAIN OnSale(a, market) \subseteq SeqRange(Unsold(a))
  BY <1>1, <1>3, UnsoldUnits
<1>5. seller' = [seller EXCEPT ![a] =
        [active |-> a \in Developers \/ Unsold(a) # <<>>,
         units |-> Unsold(a), onSale |-> OnSale(a, market), maxBid |-> BestAfter(a)]]
  BY DEF UpdateSeller
<1>6. /\ SellersTyped' /\ seller'[a].units = Unsold(a) /\ seller'[a].onSale = OnSale(a, market)
      /\ \A b \in Agents \ {a} : seller'[b] = seller[b]
  <2> DEFINE act == a \in Developers \/ Unsold(a) # <<>>
  <2>1. act \in BOOLEAN OBVIOUS
  <2>2. seller' = [seller EXCEPT ![a] =
        [active |-> act, units |-> Unsold(a), onSale |-> OnSale(a, market), maxBid |-> BestAfter(a)]]
    BY <1>5
  <2> HIDE DEF act
  <2>3. DOMAIN seller = Agents BY <1>3 DEF SellersTyped
  <2>4. /\ DOMAIN seller' = Agents /\ \A b \in Agents \ {a} : seller'[b] = seller[b]
        /\ seller'[a] = [active |-> act, units |-> Unsold(a), onSale |-> OnSale(a, market),
                         maxBid |-> BestAfter(a)]
    BY ONLY <1>1, <2>2, <2>3
  <2>5. /\ DOMAIN seller'[a] = {"active", "units", "onSale", "maxBid"}
        /\ seller'[a].active \in BOOLEAN /\ seller'[a].units = Unsold(a)
        /\ seller'[a].onSale = OnSale(a, market) /\ DOMAIN seller'[a].maxBid = {}
    BY ONLY <2>1, <2>4, BestCleared
  <2>6. SellersTyped' BY ONLY <1>1, <1>3, <1>4, <2>4, <2>5, Rewritten
  <2>7. QED BY <2>4, <2>5, <2>6
<1>7. household' = Notified(a, household) BY DEF UpdateSeller
<1>8. SameWaits BY <1>3, <1>7, NotifiedTyped DEF SameWaits
<1>9. QED BY <1>1, <1>2, <1>6, <1>8 DEF UpdateSeller

\* A seller's update keeps the types.
LEMMA UpdateSellerTyped ==
  ASSUME Typed, NEW a \in Sellers, UpdateSeller(a) PROVE Typed'
<1>1. /\ a \in Agents /\ todo' = todo \ {a} /\ SellersTyped' /\ SameWaits
      /\ out' = out \cup SellerMail(a, market) /\ mail' = mail
      /\ entryDay' = NewEntryDay(a, market)
  BY UpdateSellerOutcome
<1>2. UNCHANGED <<day, market, planned, garbled>> BY DEF UpdateSeller
<1>3. \A m \in SellerMail(a, market) : Sensible(m) BY <1>1, SellerMailSensible DEF Typed
<1>4. MailTyped' BY <1>1, <1>3 DEF Typed, MailTyped
<1>5. NewEntryDay(a, market) \in [Units -> Nat] BY EntryDayTyped DEF Typed
<1>6. RestTyped' BY <1>1, <1>2, <1>5 DEF Typed, RestTyped
<1>7. QED BY <1>1, <1>2, <1>4, <1>6 DEF Typed, MarketTyped, SameWaits

-----------------------------------------------------------------------------
\* A household moves in on the last day of its wait, into a unit.
LEMMA WaitedTyped ==
  ASSUME HouseholdsTyped(household), NEW h \in Households, household[h].active
  PROVE  /\ Waited(h) \in Int /\ Waited(h) >= -1
         /\ Waited(h) = 0 => household[h].moveIn = 1
         /\ Waited(h) >= 0 => household[h].toBeOwned \in Units /\ household[h].moveIn > 0
         /\ household[h].moveIn > 0 => Waited(h) = household[h].moveIn - 1
         /\ household[h].moveIn <= 0 => Waited(h) = household[h].moveIn
<1> DEFINE r == household[h]
<1>1. HouseholdTyped(r) BY DEF HouseholdsTyped
<1>2. r.moveIn \in Int /\ r.moveIn >= -1 /\ r.moveIn # 0 /\ (r.moveIn >= 0 => r.toBeOwned \in Units)
  BY <1>1 DEF HouseholdTyped
<1>3. Waited(h) = r.moveIn - IF r.moveIn > 0 THEN 1 ELSE 0 BY DEF Waited
<1> HIDE DEF r
<1>4. CASE r.moveIn > 0 BY <1>2, <1>3, <1>4 DEF r
<1>5. CASE r.moveIn <= 0 BY <1>2, <1>3, <1>5 DEF r
<1>6. QED BY <1>2, <1>4, <1>5

\* An updated household's record is typed.
LEMMA HouseholdAfterTyped ==
  ASSUME HouseholdsTyped(household), NEW h \in Households, household[h].active,
         NEW b, DOMAIN b = {"unit", "value"}
  PROVE  /\ HouseholdTyped(HouseholdAfter(h, b))
         /\ HouseholdAfter(h, b).moveIn = Waited(h)
         /\ HouseholdAfter(h, b).toBeOwned = household[h].toBeOwned
<1> DEFINE r == household[h]
           s == HouseholdAfter(h, b)
<1>1. HouseholdTyped(r) BY DEF HouseholdsTyped
<1>2. /\ Waited(h) \in Int /\ Waited(h) >= -1 /\ (Waited(h) >= 0 => r.toBeOwned \in Units)
  BY WaitedTyped
<1>3. WindowLeft(h) \in Nat BY <1>1 DEF WindowLeft, MayBid, HouseholdTyped
<1>4. Leaves(h) \in BOOLEAN /\ (Leaves(h) => Waited(h) <= 0) /\ (~ Leaves(h) => Waited(h) # 0)
  BY <1>2 DEF Leaves
<1>5. \E hm : s = [r EXCEPT !.active = ~ Leaves(h), !.moveIn = Waited(h), !.window = WindowLeft(h),
                    !.buySell = IF r.buySell = -1 THEN -1 ELSE r.buySell - 1,
                    !.bid = IF Waited(h) = 0 THEN NoBid ELSE b,
                    !.home = hm]
  BY DEF HouseholdAfter
<1> HIDE DEF r, s
<1>6. /\ DOMAIN s = DOMAIN r /\ s.active = ~ Leaves(h) /\ s.moveIn = Waited(h)
      /\ s.window = WindowLeft(h) /\ s.buySell = (IF r.buySell = -1 THEN -1 ELSE r.buySell - 1)
      /\ s.bid = (IF Waited(h) = 0 THEN NoBid ELSE b)
      /\ s.lastBid = r.lastBid /\ s.toBeOwned = r.toBeOwned
  BY ONLY <1>1, <1>5 DEF HouseholdTyped
<1>7. DOMAIN s.bid = {"unit", "value"} BY <1>6 DEF NoBid
<1>8. s.buySell \in Int /\ s.buySell >= -1 BY ONLY <1>1, <1>6 DEF HouseholdTyped
<1>9. s.active \in BOOLEAN /\ IF s.active THEN s.moveIn # 0 ELSE s.moveIn <= 0
  BY ONLY <1>4, <1>6
<1>10. HouseholdTyped(s) BY ONLY <1>1, <1>2, <1>3, <1>6, <1>7, <1>8, <1>9 DEF HouseholdTyped
<1>11. QED BY <1>6, <1>10 DEF r, s

\* What it bids for is in the market.
LEMMA BidsTyped ==
  ASSUME HouseholdsTyped(household), NEW h \in Households, NEW k, MarketTyped(k),
         NEW b \in IF MayBid(h) THEN Bids(h, k) ELSE {household[h].bid}
  PROVE  /\ DOMAIN b = {"unit", "value"}
         /\ MayBid(h) => \A m \in BidMail(h, b, k) : Sensible(m) /\ m.kind = "bid"
<1>1. DOMAIN household[h].bid = {"unit", "value"} BY DEF HouseholdsTyped, HouseholdTyped
<1>2. CASE ~ MayBid(h) BY <1>1, <1>2
<1>3. CASE MayBid(h)
  <2>1. b \in Bids(h, k) BY <1>3
  <2>2. DOMAIN b = {"unit", "value"} /\ (b # NoBid => b.unit \in DOMAIN k)
    BY <1>1, <2>1 DEF Bids, NoBid
  <2>3. ASSUME NEW m \in BidMail(h, b, k) PROVE Sensible(m) /\ m.kind = "bid"
    <3>1. /\ b # NoBid /\ k[b.unit].owner # h
          /\ m = [to |-> k[b.unit].owner, kind |-> "bid", unit |-> b.unit,
                  bidder |-> h, value |-> b.value]
      BY <2>3 DEF BidMail
    <3>2. k[b.unit].owner \in Agents /\ b.unit \in Units BY <2>2, <3>1 DEF MarketTyped
    <3>3. QED BY <3>1, <3>2 DEF Sensible
  <2>4. QED BY <2>2, <2>3
<1>4. QED BY <1>2, <1>3

\* The units a household has afterwards.
LEMMA UnitsAfterTyped ==
  ASSUME SellersTyped, HouseholdsTyped(household), NEW h \in Households, household[h].active
  PROVE  LET gone == IF Transfers(h) THEN Erased(Unsold(h)) ELSE {}
             come == IF Waited(h) = 0 THEN {household[h].toBeOwned} ELSE {} IN
         /\ UnitsAfter(h) \in Seq(Units)
         /\ SeqRange(UnitsAfter(h)) = (SeqRange(Unsold(h)) \ gone) \cup come
         /\ \A u : Once(Unsold(h), u) /\ (u \notin come \/ u \notin SeqRange(Unsold(h)) \ gone)
                   => Once(UnitsAfter(h), u)
<1> DEFINE gone == IF Transfers(h) THEN Erased(Unsold(h)) ELSE {}
           come == IF Waited(h) = 0 THEN {household[h].toBeOwned} ELSE {}
           left == IF Transfers(h) THEN Without(Unsold(h), Erased(Unsold(h))) ELSE Unsold(h)
<1>1. Unsold(h) \in Seq(Units) BY UnsoldUnits DEF Agents
<1>2. /\ left \in Seq(Units) /\ SeqRange(left) = SeqRange(Unsold(h)) \ gone
      /\ \A u : Once(Unsold(h), u) => Once(left, u)
  <2>1. CASE Transfers(h) BY <1>1, <2>1, WithoutProperties
  <2>2. CASE ~ Transfers(h) BY <1>1, <2>2
  <2>3. QED BY <2>1, <2>2
<1>3. UnitsAfter(h) = left \o IF Waited(h) = 0 THEN <<household[h].toBeOwned>> ELSE <<>>
  BY DEF UnitsAfter
<1> HIDE DEF left, gone
<1>4. CASE Waited(h) = 0
  <2> DEFINE x == household[h].toBeOwned
  <2>1. x \in Units /\ come = {x} BY <1>4, WaitedTyped
  <2>2. UnitsAfter(h) = Append(left, x)
    <3>1. UnitsAfter(h) = left \o <<x>> BY <1>3, <1>4
    <3>2. QED BY ONLY <1>2, <2>1, <3>1, AppendIsConcat
  <2> HIDE DEF x, come
  <2>3. /\ UnitsAfter(h) \in Seq(Units) /\ SeqRange(UnitsAfter(h)) = SeqRange(left) \cup {x}
        /\ \A u : Once(left, u) /\ (x # u \/ u \notin SeqRange(left)) => Once(UnitsAfter(h), u)
    BY ONLY <1>2, <2>1, <2>2, AppendRange
  <2>4. QED BY ONLY <1>2, <2>1, <2>3 DEF come, gone
<1>5. CASE Waited(h) # 0
  <2>1. UnitsAfter(h) = left /\ come = {}
    <3>1. UnitsAfter(h) = left \o <<>> BY <1>3, <1>5
    <3>2. QED BY <1>2, <1>5, <3>1, ConcatEmptySeq
  <2> HIDE DEF come
  <2>2. QED BY ONLY <1>2, <2>1 DEF come, gone
<1>6. QED BY <1>4, <1>5 DEF gone

\* What leaves or is posted was in the list.
LEMMA ErasedPosted ==
  ASSUME NEW s PROVE Erased(s) \subseteq SeqRange(s) /\ Posted(s) \subseteq SeqRange(s)
BY DEF Erased, Posted, Odd, SeqRange

\* What a leaving household posts: removals, and transfers of its units.
LEMMA LeavingMailSensible ==
  ASSUME SellersTyped, NEW h \in Households, NEW f \in Freelance
  PROVE  \A m \in LeavingMail(h, f) : Sensible(m) /\ m.kind \in {"remove", "transfer"}
<1>1. SeqRange(Unsold(h)) \subseteq Units BY UnsoldUnits DEF Agents
<1>2. \A u : Sensible(Remove(u)) /\ Remove(u).kind = "remove" BY DEF Sensible, Remove
<1>3. f \in Agents BY DEF Agents, Sellers
<1>4. ASSUME NEW u \in Posted(Unsold(h))
      PROVE  /\ Sensible([to |-> f, kind |-> "transfer", unit |-> u])
             /\ [to |-> f, kind |-> "transfer", unit |-> u].kind = "transfer"
  <2>1. u \in Units BY <1>1, ErasedPosted
  <2>2. QED BY <1>3, <2>1 DEF Sensible
<1>5. QED BY <1>2, <1>4 DEF LeavingMail

\* What UpdateHousehold changes: its own records, what it posts, and the winners' status.
LEMMA UpdateHouseholdOutcome ==
  ASSUME Typed, NEW h \in Households, NEW f \in Freelance, UpdateHousehold(h, f)
  PROVE  /\ h \in Agents /\ h \in todo /\ todo' = todo \ {h} /\ (\A m \in mail : m.to # h)
         /\ household[h].active /\ mail' = mail /\ market' = Opened(h)
         /\ SellersTyped' /\ HouseholdsTyped(household)'
         /\ seller'[h].units = UnitsAfter(h)
         /\ \A b \in Agents \ {h} : seller'[b] = seller[b]
         /\ household'[h].moveIn = Waited(h)
         /\ household'[h].toBeOwned = household[h].toBeOwned
         /\ \A g \in Households \ {h} : /\ household'[g].moveIn = household[g].moveIn
                                        /\ household'[g].toBeOwned = household[g].toBeOwned
         /\ \E B : /\ out' = out \cup SellerMail(h, Opened(h)) \cup LeavingMail(h, f) \cup B
                   /\ \A m \in B : Sensible(m) /\ m.kind = "bid"
<1>1. h \in Agents BY DEF Agents
<1>2. h \in todo /\ todo' = todo \ {h} /\ \A m \in mail : m.to # h
  BY <1>1, EnterNoMail DEF UpdateHousehold
<1>3. SellersTyped /\ HouseholdsTyped(household) /\ household[h].active
  BY DEF Typed, UpdateHousehold
<1>4. market' = Opened(h) /\ mail' = mail BY DEF UpdateHousehold
<1>5. /\ SellersTyped' /\ seller'[h].units = UnitsAfter(h)
      /\ \A b \in Agents \ {h} : seller'[b] = seller[b]
  <2> DEFINE act == ~ Leaves(h) /\ Unsold(h) # <<>>
             on == IF Transfers(h) THEN Nothing ELSE OnSale(h, market')
  <2>1. act \in BOOLEAN OBVIOUS
  <2>2. seller' = [seller EXCEPT ![h] =
          [active |-> act, units |-> UnitsAfter(h), onSale |-> on, maxBid |-> BestAfter(h)]]
    BY DEF UpdateHousehold
  <2>3. UnitsAfter(h) \in Seq(Units) /\ (~ Transfers(h) => SeqRange(Unsold(h)) \subseteq SeqRange(UnitsAfter(h)))
    BY <1>3, UnitsAfterTyped
  <2>4. DOMAIN on \subseteq SeqRange(UnitsAfter(h))
    <3>1. CASE Transfers(h) BY <3>1 DEF Nothing
    <3>2. CASE ~ Transfers(h) BY <1>1, <1>3, <2>3, <3>2, UnsoldUnits
    <3>3. QED BY <3>1, <3>2
  <2> HIDE DEF act, on
  <2>5. DOMAIN seller = Agents BY <1>3 DEF SellersTyped
  <2>6. /\ DOMAIN seller' = Agents /\ \A b \in Agents \ {h} : seller'[b] = seller[b]
        /\ seller'[h] = [active |-> act, units |-> UnitsAfter(h), onSale |-> on,
                         maxBid |-> BestAfter(h)]
    BY ONLY <1>1, <2>2, <2>5
  <2>7. /\ DOMAIN seller'[h] = {"active", "units", "onSale", "maxBid"}
        /\ seller'[h].active \in BOOLEAN /\ seller'[h].units = UnitsAfter(h)
        /\ seller'[h].onSale = on /\ DOMAIN seller'[h].maxBid = {}
    BY ONLY <2>1, <2>6, BestCleared
  <2>8. SellersTyped' BY ONLY <1>1, <1>3, <2>3, <2>4, <2>6, <2>7, Rewritten
  <2>9. QED BY <2>6, <2>7, <2>8
<1>6. PICK b \in IF MayBid(h) THEN Bids(h, market') ELSE {household[h].bid} :
        /\ household' = Notified(h, [household EXCEPT ![h] = HouseholdAfter(h, b)])
        /\ out' = out \cup SellerMail(h, market') \cup LeavingMail(h, f)
                      \cup IF MayBid(h) THEN BidMail(h, b, market') ELSE {}
  BY DEF UpdateHousehold
<1>7. MarketTyped(Opened(h)) BY OpenedTyped
<1>8. /\ DOMAIN b = {"unit", "value"}
      /\ MayBid(h) => \A m \in BidMail(h, b, Opened(h)) : Sensible(m) /\ m.kind = "bid"
  BY <1>3, <1>4, <1>6, <1>7, BidsTyped
<1>9. /\ HouseholdsTyped(household)'
      /\ household'[h].moveIn = Waited(h)
      /\ household'[h].toBeOwned = household[h].toBeOwned
      /\ \A g \in Households \ {h} : /\ household'[g].moveIn = household[g].moveIn
                                     /\ household'[g].toBeOwned = household[g].toBeOwned
  <2> DEFINE s == HouseholdAfter(h, b)
             hs == [household EXCEPT ![h] = s]
  <2>1. HouseholdTyped(s) /\ s.moveIn = Waited(h) /\ s.toBeOwned = household[h].toBeOwned
    BY <1>3, <1>8, HouseholdAfterTyped
  <2> HIDE DEF s
  <2>2. DOMAIN hs = Households /\ hs[h] = s /\ \A g \in Households \ {h} : hs[g] = household[g]
    BY <1>3 DEF HouseholdsTyped
  <2>3. household' = Notified(h, hs) BY <1>6 DEF s
  <2> HIDE DEF hs
  <2>4. HouseholdsTyped(hs) BY <1>3, <2>1, <2>2 DEF HouseholdsTyped
  <2>5. /\ HouseholdsTyped(Notified(h, hs))
        /\ \A g \in Households : /\ Notified(h, hs)[g].moveIn = hs[g].moveIn
                                 /\ Notified(h, hs)[g].toBeOwned = hs[g].toBeOwned
    BY ONLY <2>4, NotifiedTyped
  <2>6. HouseholdsTyped(household') BY <2>3, <2>5
  <2>7. QED BY <2>1, <2>2, <2>3, <2>5, <2>6
<1>10. \E B : /\ out' = out \cup SellerMail(h, Opened(h)) \cup LeavingMail(h, f) \cup B
              /\ \A m \in B : Sensible(m) /\ m.kind = "bid"
  <2> DEFINE B == IF MayBid(h) THEN BidMail(h, b, Opened(h)) ELSE {}
  <2>1. \A m \in B : Sensible(m) /\ m.kind = "bid" BY <1>8
  <2>2. out' = out \cup SellerMail(h, Opened(h)) \cup LeavingMail(h, f) \cup B
    BY <1>4, <1>6
  <2> HIDE DEF B
  <2>3. QED BY <2>1, <2>2
<1>11. QED BY <1>1, <1>2, <1>3, <1>4, <1>5, <1>9, <1>10

\* A household's update keeps the types.
LEMMA UpdateHouseholdTyped ==
  ASSUME Typed, NEW h \in Households, NEW f \in Freelance, UpdateHousehold(h, f) PROVE Typed'
<1>1. /\ h \in Agents /\ todo' = todo \ {h} /\ household[h].active /\ mail' = mail
      /\ market' = Opened(h) /\ SellersTyped' /\ HouseholdsTyped(household)'
      /\ \E B : /\ out' = out \cup SellerMail(h, Opened(h)) \cup LeavingMail(h, f) \cup B
                /\ \A m \in B : Sensible(m) /\ m.kind = "bid"
  BY UpdateHouseholdOutcome
<1>2. SellersTyped /\ HouseholdsTyped(household) /\ RestTyped /\ MarketTyped(Opened(h))
  BY OpenedTyped DEF Typed
<1>3. MailTyped'
  <2>1. \A m \in SellerMail(h, Opened(h)) : Sensible(m) BY <1>1, <1>2, SellerMailSensible
  <2>2. \A m \in LeavingMail(h, f) : Sensible(m) BY <1>2, LeavingMailSensible
  <2>3. QED BY <1>1, <2>1, <2>2 DEF Typed, MailTyped
<1>4. MarketTyped(market)' BY <1>1, <1>2 DEF MarketTyped
<1>5. entryDay' \in [Units -> Nat]
  <2>1. entryDay' = EntryDayAfter(h) BY DEF UpdateHousehold
  <2>2. day + 1 \in Nat /\ day + TimeOffMarket \in Nat /\ \A u \in Units : entryDay[u] \in Nat
    BY <1>2, MarketAssumption DEF RestTyped
  <2>3. QED BY <2>1, <2>2 DEF EntryDayAfter
<1>6. garbled' \subseteq Units
  <2>1. garbled' \subseteq garbled \cup SeqRange(Unsold(h)) BY DEF UpdateHousehold
  <2>2. SeqRange(Unsold(h)) \subseteq Units BY <1>1, <1>2, UnsoldUnits
  <2>3. QED BY <1>2, <2>1, <2>2 DEF RestTyped
<1>7. day' = day /\ planned' = planned BY DEF UpdateHousehold
<1>8. RestTyped' BY <1>1, <1>2, <1>5, <1>6, <1>7 DEF RestTyped
<1>9. QED BY <1>1, <1>3, <1>4, <1>8 DEF Typed

-----------------------------------------------------------------------------
\* DistributeMessages: what was posted for an agent becomes the mail.
LEMMA DistributeOutcome ==
  ASSUME Typed, Distribute
  PROVE  /\ todo = {} /\ todo' = Agents \cup {Injector} /\ mail = {} /\ out' = {}
         /\ mail' \subseteq out /\ (\A m \in mail' : m.to # "market") /\ day' = day + 1
         /\ UNCHANGED <<seller, household, entryDay, planned, garbled>>
BY DEF Distribute

\* The delivery of a day's messages keeps the types.
LEMMA DistributeTyped == ASSUME Typed, Distribute PROVE Typed'
<1>1. /\ todo' = Agents \cup {Injector} /\ out' = {} /\ mail' \subseteq out
      /\ (\A m \in mail' : m.to # "market") /\ day' = day + 1
      /\ UNCHANGED <<seller, household, entryDay, planned, garbled>>
  BY DistributeOutcome
<1>2. MailTyped' BY <1>1 DEF Typed, MailTyped, Sensible
<1>3. MarketTyped(market)'
  <2> DEFINE posts == {m \in out : m.to = "market"}
             touched == {m.unit : m \in posts}
             removed == {m.unit : m \in {n \in posts : n.kind = "remove"}}
  <2>1. PICK last \in [touched -> posts] :
          /\ \A u \in touched : last[u].unit = u
          /\ market' = [u \in (DOMAIN market \ touched)
                                \cup {u \in touched : last[u].kind = "add"} |->
                          IF u \in touched THEN Entry(last[u], u \in removed) ELSE market[u]]
    BY DEF Distribute
  <2>2. ASSUME NEW u \in touched, last[u].kind = "add", NEW r
        PROVE  LET e == Entry(last[u], r) IN
               u \in Units /\ {"owner", "open"} \subseteq DOMAIN e /\ e.owner \in Agents /\ e.open \in BOOLEAN
    <3> DEFINE m == last[u]
    <3>1. m \in out /\ m.unit = u BY <2>1, <2>2
    <3>2. m.kind = "add" BY <2>2
    <3> HIDE DEF m
    <3>3. m.unit \in Units /\ m.owner \in Agents /\ m.open \in BOOLEAN
      BY <3>1, <3>2 DEF Typed, MailTyped, Sensible
    <3>4. m.unit \in DOMAIN market => market[m.unit].open \in BOOLEAN BY DEF Typed, MarketTyped
    <3>5. QED BY <3>1, <3>3, <3>4 DEF Entry, m
  <2> HIDE DEF posts, touched, removed
  <2>3. QED BY <2>1, <2>2 DEF Typed, MarketTyped
<1>4. RestTyped' BY <1>1 DEF Typed, RestTyped
<1>5. QED BY <1>1, <1>2, <1>3, <1>4 DEF Typed, SellersTyped, HouseholdsTyped

\* Every step keeps the types.
LEMMA StepTyped == ASSUME Typed, [Next]_vars PROVE Typed'
<1>1. ASSUME NEW m \in mail, NEW a, ReceiveBid(a, m) PROVE Typed' BY <1>1, ReceiveBidTyped
<1>2. ASSUME NEW m \in mail, NEW a, ReceiveTransfer(a, m) PROVE Typed' BY <1>2, ReceiveTransferTyped
<1>3. ASSUME NEW m \in mail, NEW a, ReceiveResponse(a, m) PROVE Typed' BY <1>3, ReceiveResponseTyped
<1>4. ASSUME NEW m \in mail, NEW a, ReceiveEvent(a, m) PROVE Typed' BY <1>4, ReceiveEventTyped
<1>5. ASSUME NEW d \in Developers, NEW u \in Units, Launch(d, u) PROVE Typed' BY <1>5, LaunchTyped
<1>6. ASSUME NEW a \in Sellers, UpdateSeller(a) PROVE Typed' BY <1>6, UpdateSellerTyped
<1>7. ASSUME NEW h \in Households, NEW f \in Freelance, UpdateHousehold(h, f) PROVE Typed'
  BY <1>7, UpdateHouseholdTyped
<1>8. ASSUME NEW a \in Agents, UpdateIdle(a) PROVE Typed' BY <1>8, IdleTyped
<1>9. ASSUME NEW h \in Households, Awaken(h) PROVE Typed' BY <1>9, AwakenTyped
<1>10. CASE UpdateInjector BY <1>10, InjectorTyped
<1>11. CASE Distribute BY <1>11, DistributeTyped
<1>12. CASE UNCHANGED vars
  BY <1>12 DEF vars, Typed, MailTyped, MarketTyped, SellersTyped, HouseholdsTyped, RestTyped
<1>13. QED
  BY <1>1, <1>2, <1>3, <1>4, <1>5, <1>6, <1>7, <1>8, <1>9, <1>10, <1>11, <1>12 DEF Next

\* Types are correct in every state, whatever the agents, units, crews and delays: what
\* is recorded stays within its range, and a household sells only while it bids.
THEOREM TypeCorrect == Spec => []TypeOK
<1>1. Init => IInv /\ Typed BY InitInv, InitTyped
<1>2. IInv /\ Typed /\ [Next]_vars => IInv' /\ Typed' BY StepInv, StepTyped
<1>3. IInv /\ Typed => TypeOK BY TypedIsType DEF IInv
<1>4. QED BY <1>1, <1>2, <1>3, PTL DEF Spec

-----------------------------------------------------------------------------
(* Claims. *)

\* A message promises a unit to whom it is for.
Promises(m, u) ==
  m.unit = u /\ (m.kind = "transfer" \/ (m.kind = "response" /\ m.response = "ACCEPTED"))

\* Who has a claim to a unit, and where: the claims of HousingMarketInv, a message of
\* the mail told from one that was posted.
IsHeld(u, c) ==
  \E a \in Agents : \E i \in DOMAIN seller[a].units :
    seller[a].units[i] = u /\ c = <<"held", a, i>>

IsMailed(u, c) == \E m \in mail : Promises(m, u) /\ c = <<"mail", m, 0>>
IsPosted(u, c) == \E m \in out : Promises(m, u) /\ c = <<"out", m, 0>>

IsWaited(u, c) ==
  \E h \in Households :
    household[h].moveIn > 0 /\ household[h].toBeOwned = u /\ c = <<"waits", h, 0>>

HasClaim(u, c) == IsHeld(u, c) \/ IsMailed(u, c) \/ IsPosted(u, c) \/ IsWaited(u, c)

NoClaim(u) == \A c : ~ HasClaim(u, c)
Only(u, c) == \A d : HasClaim(u, d) => d = c
Sole(u) == \A c : HasClaim(u, c) => Only(u, c)

\* The invariant: one claim to a unit at most, and none to one that was not launched.
Unplanned == \A u \in planned : NoClaim(u)
Single == \A u \in Units \ garbled : Sole(u)

\* A step that adds no claim to a unit, and one that replaces its claim by another.
Fewer(u) == \A c : HasClaim(u, c)' => HasClaim(u, c)

Keeping(u) == (NoClaim(u) => NoClaim(u)') /\ (Sole(u) => Sole(u)')

\* A step that adds no claim keeps the invariant for the unit.
LEMMA FewerKeeps == ASSUME NEW u, Fewer(u) PROVE Keeping(u)
<1>1. NoClaim(u) => NoClaim(u)' BY DEF Fewer, NoClaim
<1>2. Sole(u) => Sole(u)' BY DEF Fewer, Sole, Only
<1>3. QED BY <1>1, <1>2 DEF Keeping

\* So does a step that puts one claim in the place of another.
LEMMA ReplacedKeeps ==
  ASSUME NEW u, NEW c, HasClaim(u, c), NEW d,
         \A e : HasClaim(u, e)' => e = d \/ (HasClaim(u, e) /\ e # c)
  PROVE  Keeping(u)
<1>1. ~ NoClaim(u) BY DEF NoClaim
<1>2. ASSUME Sole(u) PROVE Sole(u)'
  <2>1. \A e : HasClaim(u, e) => e = c BY <1>2 DEF Sole, Only
  <2>2. \A e : HasClaim(u, e)' => e = d BY <2>1
  <2>3. QED BY <2>2 DEF Sole, Only
<1>3. QED BY <1>1, <1>2 DEF Keeping

\* A unit with one claim afterwards.
LEMMA OnlyIsSole == ASSUME NEW u, NEW d, \A e : HasClaim(u, e)' => e = d PROVE Sole(u)'
BY DEF Sole, Only

\* Which claims a step leaves alone.
SameHeld == \A a \in Agents : seller'[a].units = seller[a].units

NoMoreWaits ==
  \A h \in Households : household'[h].moveIn > 0 =>
    household[h].moveIn > 0 /\ household'[h].toBeOwned = household[h].toBeOwned

NoPromise(S) == \A m \in S : \A u : ~ Promises(m, u)

\* Claims of lists that are left alone.
LEMMA HeldSame == ASSUME SameHeld, NEW u, NEW c, IsHeld(u, c)' PROVE IsHeld(u, c)
BY DEF SameHeld, IsHeld

\* Claims of a mail that only shrinks.
LEMMA MailedFewer == ASSUME mail' \subseteq mail, NEW u, NEW c, IsMailed(u, c)' PROVE IsMailed(u, c)
BY DEF IsMailed

\* Claims of messages, when those posted promise nothing.
LEMMA PostedFewer ==
  ASSUME NEW S, out' = out \cup S, NoPromise(S), NEW u, NEW c, IsPosted(u, c)' PROVE IsPosted(u, c)
BY DEF IsPosted, NoPromise

\* Claims of households, when none begins to wait.
LEMMA WaitedFewer == ASSUME NoMoreWaits, NEW u, NEW c, IsWaited(u, c)' PROVE IsWaited(u, c)
<1>1. PICK h \in Households :
        household'[h].moveIn > 0 /\ household'[h].toBeOwned = u /\ c = <<"waits", h, 0>>
  BY DEF IsWaited
<1>2. household[h].moveIn > 0 /\ household[h].toBeOwned = u BY <1>1 DEF NoMoreWaits
<1>3. QED BY <1>1, <1>2 DEF IsWaited

\* A step that does none of these adds no claim.
LEMMA QuietClaims ==
  ASSUME SameHeld, mail' \subseteq mail, NEW S, out' = out \cup S, NoPromise(S), NoMoreWaits
  PROVE  \A u : Fewer(u)
<1>1. ASSUME NEW u, NEW c, HasClaim(u, c)' PROVE HasClaim(u, c)
  BY <1>1, HeldSame, MailedFewer, PostedFewer, WaitedFewer DEF HasClaim
<1>2. QED BY <1>1 DEF Fewer

\* The messages that promise a unit are those of a seller that accepts a bid for it, and
\* of a household that hands it over.
LEMMA SellerPromises ==
  ASSUME NEW a, NEW k, NEW m \in SellerMail(a, k), NEW u, Promises(m, u)
  PROVE  u \in Sold(a) /\ m = Response(seller[a].maxBid[u].bidder, u, "ACCEPTED")
<1>1. CASE \E v \in Sold(a) : m = Response(seller[a].maxBid[v].bidder, v, "ACCEPTED")
  BY <1>1 DEF Promises, Response
<1>2. CASE m.kind \in {"remove", "add"} BY <1>2 DEF Promises
<1>3. m.kind \in {"remove", "add"} \/ \E v \in Sold(a) : m = Response(seller[a].maxBid[v].bidder, v, "ACCEPTED")
  BY DEF SellerMail, Remove, Add
<1>4. QED BY <1>1, <1>2, <1>3

\* A leaving household's transfers promise the units it posts.
LEMMA LeavingPromises ==
  ASSUME NEW h, NEW f, NEW m \in LeavingMail(h, f), NEW u, Promises(m, u)
  PROVE  Transfers(h) /\ u \in Posted(Unsold(h)) /\ m = [to |-> f, kind |-> "transfer", unit |-> u]
<1>1. CASE \E v : m = Remove(v) BY <1>1 DEF Promises, Remove
<1>2. CASE Transfers(h) /\ \E v \in Posted(Unsold(h)) : m = [to |-> f, kind |-> "transfer", unit |-> v]
  BY <1>2 DEF Promises
<1>3. QED BY <1>1, <1>2 DEF LeavingMail

-----------------------------------------------------------------------------
\* A bid is no claim.
LEMMA ReceiveBidClaims ==
  ASSUME Typed, NEW m \in mail, NEW a, ReceiveBid(a, m) PROVE \A u : Fewer(u)
<1>1. /\ a \in Agents /\ mail' = mail \ {m}
      /\ \/ out' = out
         \/ \E h \in Households : \E w : w # "ACCEPTED" /\ out' = out \cup {Response(h, m.unit, w)}
      /\ \/ seller' = seller
         \/ \E best : seller' = [seller EXCEPT ![a].maxBid = best]
  BY ReceiveBidOutcome
<1>2. household' = household BY DEF ReceiveBid
<1>3. SameHeld
  <2>1. CASE seller' = seller BY <2>1 DEF SameHeld
  <2>2. ASSUME NEW best, seller' = [seller EXCEPT ![a].maxBid = best] PROVE SameHeld
    <3>1. SellerTyped(seller[a]) /\ DOMAIN seller = Agents BY <1>1 DEF Typed, SellersTyped
    <3>2. seller'[a].units = seller[a].units /\ \A b \in Agents \ {a} : seller'[b] = seller[b]
      BY <1>1, <2>2, <3>1 DEF SellerTyped
    <3>3. QED BY <3>2 DEF SameHeld
  <2>3. QED BY <1>1, <2>1, <2>2
<1>4. NoMoreWaits BY <1>2 DEF NoMoreWaits
<1>5. \E S : out' = out \cup S /\ NoPromise(S)
  <2>1. CASE out' = out
    <3>1. out' = out \cup {} /\ NoPromise({}) BY <2>1 DEF NoPromise
    <3>2. QED BY <3>1
  <2>2. ASSUME NEW h, NEW w, w # "ACCEPTED", out' = out \cup {Response(h, m.unit, w)}
        PROVE  \E S : out' = out \cup S /\ NoPromise(S)
    <3>1. NoPromise({Response(h, m.unit, w)}) BY <2>2 DEF NoPromise, Promises, Response
    <3>2. QED BY <2>2, <3>1
  <2>3. QED BY <1>1, <2>1, <2>2
<1>6. QED BY <1>1, <1>3, <1>4, <1>5, QuietClaims

\* An awakening drops what the household waited for, at most.
LEMMA ReceiveEventClaims ==
  ASSUME Typed, NEW m \in mail, NEW h, ReceiveEvent(h, m) PROVE \A u : Fewer(u)
<1>1. mail' \subseteq mail /\ seller' = seller /\ out' = out \cup {}
  BY DEF ReceiveEvent, Handle
<1>2. NoMoreWaits BY ReceiveEventOutcome DEF NoMoreWaits
<1>3. SameHeld /\ NoPromise({}) BY <1>1 DEF SameHeld, NoPromise
<1>4. QED BY <1>1, <1>2, <1>3, QuietClaims

\* Nor does the injector add a claim.
LEMMA AwakenClaims ==
  ASSUME Typed, NEW h \in Households, Awaken(h) PROVE \A u : Fewer(u)
<1>1. mail' \subseteq mail /\ seller' = seller /\ out' = out \cup {Event(h, "job")} BY DEF Awaken
<1>2. NoPromise({Event(h, "job")}) BY DEF NoPromise, Promises, Event
<1>3. NoMoreWaits BY AwakenOutcome DEF SameWaits, NoMoreWaits
<1>4. SameHeld BY <1>1 DEF SameHeld
<1>5. QED BY <1>1, <1>2, <1>3, <1>4, QuietClaims

\* Nor an idle agent.
LEMMA IdleClaims ==
  ASSUME Typed, NEW a \in Agents, UpdateIdle(a) PROVE \A u : Fewer(u)
<1>1. mail' \subseteq mail /\ seller' = seller /\ out' = out \cup {} BY DEF UpdateIdle
<1>2. NoMoreWaits BY IdleOutcome DEF SameWaits, NoMoreWaits
<1>3. SameHeld /\ NoPromise({}) BY <1>1 DEF SameHeld, NoPromise
<1>4. QED BY <1>1, <1>2, <1>3, QuietClaims

\* Nor the injector's own update.
LEMMA InjectorClaims == ASSUME UpdateInjector PROVE \A u : Fewer(u)
<1>1. mail' \subseteq mail /\ seller' = seller /\ out' = out \cup {} /\ household' = household
  BY DEF UpdateInjector
<1>2. SameHeld /\ NoPromise({}) /\ NoMoreWaits BY <1>1 DEF SameHeld, NoPromise, NoMoreWaits
<1>3. QED BY <1>1, <1>2, QuietClaims

\* An accepted bid: the message becomes the wait of the household.
LEMMA ReceiveResponseClaims ==
  ASSUME Typed, NEW m \in mail, NEW h, ReceiveResponse(h, m) PROVE \A u : Keeping(u)
<1>1. PICK s : /\ household' = [household EXCEPT ![h] = s]
               /\ h \in Households =>
                    \/ s.moveIn = household[h].moveIn /\ s.toBeOwned = household[h].toBeOwned
                    \/ m.response = "ACCEPTED" /\ s.toBeOwned = m.unit
  BY ReceiveResponseOutcome
<1>2. m.to = h /\ m.kind = "response" /\ mail' = mail \ {m} /\ seller' = seller /\ out' = out \cup {}
  BY DEF ReceiveResponse, Handle
<1>3. SameHeld /\ NoPromise({}) BY <1>2 DEF SameHeld, NoPromise
<1>4. DOMAIN household = Households BY DEF Typed, HouseholdsTyped
<1>5. CASE NoMoreWaits BY <1>2, <1>3, <1>5, QuietClaims, FewerKeeps
<1>6. CASE ~ NoMoreWaits
  <2>1. h \in Households /\ m.response = "ACCEPTED" /\ household'[h].toBeOwned = m.unit
        /\ \A g \in Households \ {h} : household'[g] = household[g]
    BY <1>1, <1>4, <1>6 DEF NoMoreWaits
  <2>2. ASSUME NEW u, NEW c, IsWaited(u, c)'
        PROVE  IsWaited(u, c) \/ (u = m.unit /\ c = <<"waits", h, 0>>)
    BY <2>1, <2>2 DEF IsWaited
  <2>3. ASSUME NEW u, NEW c, IsMailed(u, c)' PROVE IsMailed(u, c) /\ c # <<"mail", m, 0>>
    BY <1>2, <2>3 DEF IsMailed
  <2>4. ASSUME NEW u, u # m.unit PROVE Keeping(u)
    <3>1. Fewer(u) BY <1>2, <1>3, <2>2, <2>3, <2>4, HeldSame, PostedFewer DEF Fewer, HasClaim
    <3>2. QED BY <3>1, FewerKeeps
  <2>5. Keeping(m.unit)
    <3>1. HasClaim(m.unit, <<"mail", m, 0>>) BY <1>2, <2>1 DEF HasClaim, IsMailed, Promises
    <3>2. ASSUME NEW c, IsHeld(m.unit, c) \/ IsPosted(m.unit, c) \/ IsWaited(m.unit, c)
          PROVE  c # <<"mail", m, 0>>
      BY <3>2 DEF IsHeld, IsPosted, IsWaited
    <3>3. ASSUME NEW c, HasClaim(m.unit, c)'
          PROVE  c = <<"waits", h, 0>> \/ (HasClaim(m.unit, c) /\ c # <<"mail", m, 0>>)
      BY <1>2, <1>3, <2>2, <2>3, <3>2, <3>3, HeldSame, PostedFewer DEF HasClaim
    <3>4. QED BY <3>1, <3>3, ReplacedKeeps
  <2>6. QED BY <2>4, <2>5
<1>7. QED BY <1>5, <1>6

\* What an agent gains is a claim at the end of its list.
LEMMA GainsHeld ==
  ASSUME SellersTyped, NEW a \in Agents, NEW v \in Units, Gains(a, v), NEW u, NEW c, IsHeld(u, c)'
  PROVE  IsHeld(u, c) \/ (u = v /\ c = <<"held", a, Len(seller[a].units) + 1>>)
<1> DEFINE s == seller[a].units
<1>1. s \in Seq(Units) BY DEF SellersTyped, SellerTyped
<1>2. /\ DOMAIN s = 1 .. Len(s) /\ DOMAIN Append(s, v) = 1 .. Len(s) + 1 /\ Len(s) \in Nat
      /\ \A i \in 1 .. Len(s) : Append(s, v)[i] = s[i]
      /\ Append(s, v)[Len(s) + 1] = v
  BY <1>1, AppendRange
<1>3. PICK b \in Agents : \E i \in DOMAIN seller'[b].units :
        seller'[b].units[i] = u /\ c = <<"held", b, i>>
  BY DEF IsHeld
<1>4. PICK i \in DOMAIN seller'[b].units : seller'[b].units[i] = u /\ c = <<"held", b, i>>
  BY <1>3
<1>5. CASE b # a
  <2>1. seller'[b] = seller[b] BY <1>5 DEF Gains
  <2>2. QED BY <1>4, <2>1 DEF IsHeld
<1>6. CASE b = a
  <2>1. seller'[a].units = Append(s, v) BY DEF Gains
  <2>2. CASE i \in 1 .. Len(s)
    <3>1. i \in DOMAIN seller[a].units /\ seller[a].units[i] = u BY <1>2, <1>4, <1>6, <2>1, <2>2
    <3>2. QED BY <1>4, <1>6, <3>1 DEF IsHeld
  <2>3. CASE i = Len(s) + 1 BY <1>2, <1>4, <1>6, <2>1, <2>3
  <2>4. QED BY <1>2, <1>4, <1>6, <2>1, <2>2, <2>3
<1>7. QED BY <1>5, <1>6

\* TransferUnit: the message's claim becomes one of the freelance agent's list, or is dropped.
LEMMA ReceiveTransferClaims ==
  ASSUME Typed, NEW m \in mail, NEW a, ReceiveTransfer(a, m) PROVE \A u : Keeping(u)
<1>1. /\ a \in Agents /\ m.unit \in Units /\ m.kind = "transfer" /\ mail' = mail \ {m}
      /\ seller' = seller \/ Gains(a, m.unit)
  BY ReceiveTransferOutcome
<1>2. household' = household /\ out' = out \cup {} BY DEF ReceiveTransfer
<1>3. NoMoreWaits /\ NoPromise({}) BY <1>2 DEF NoMoreWaits, NoPromise
<1>4. CASE seller' = seller
  <2>1. SameHeld BY <1>4 DEF SameHeld
  <2>2. QED BY <1>1, <1>2, <1>3, <2>1, QuietClaims, FewerKeeps
<1>5. CASE Gains(a, m.unit)
  <2> DEFINE d == <<"held", a, Len(seller[a].units) + 1>>
  <2>1. ASSUME NEW u, NEW c, IsHeld(u, c)' PROVE IsHeld(u, c) \/ (u = m.unit /\ c = d)
    BY <1>1, <1>5, <2>1, GainsHeld DEF Typed
  <2>2. ASSUME NEW u, NEW c, IsMailed(u, c)' PROVE IsMailed(u, c) /\ c # <<"mail", m, 0>>
    BY <1>1, <2>2 DEF IsMailed
  <2> HIDE DEF d
  <2>3. ASSUME NEW u, u # m.unit PROVE Keeping(u)
    <3>1. Fewer(u) BY <1>2, <1>3, <2>1, <2>2, <2>3, WaitedFewer, PostedFewer DEF Fewer, HasClaim
    <3>2. QED BY <3>1, FewerKeeps
  <2>4. Keeping(m.unit)
    <3>1. HasClaim(m.unit, <<"mail", m, 0>>) BY <1>1 DEF HasClaim, IsMailed, Promises
    <3>2. ASSUME NEW c, IsHeld(m.unit, c) \/ IsPosted(m.unit, c) \/ IsWaited(m.unit, c)
          PROVE  c # <<"mail", m, 0>>
      BY <3>2 DEF IsHeld, IsPosted, IsWaited
    <3>3. ASSUME NEW c, HasClaim(m.unit, c)'
          PROVE  c = d \/ (HasClaim(m.unit, c) /\ c # <<"mail", m, 0>>)
      BY <1>2, <1>3, <2>1, <2>2, <3>2, <3>3, WaitedFewer, PostedFewer DEF HasClaim
    <3>4. QED BY <3>1, <3>3, ReplacedKeeps
  <2>5. QED BY <2>3, <2>4
<1>6. QED BY <1>1, <1>4, <1>5

\* A launched unit, which nobody claims, becomes the developer's.
LEMMA LaunchClaims ==
  ASSUME Typed, Unplanned, NEW d \in Developers, NEW u \in Units, Launch(d, u)
  PROVE  (\A v : v # u => Keeping(v)) /\ Sole(u)'
<1>1. d \in Agents /\ u \in planned /\ Gains(d, u) BY LaunchOutcome
<1>2. PICK S : out' = out \cup S /\ \A m \in S : m.kind = "event" BY LaunchOutcome
<1>3. NoPromise(S) BY <1>2 DEF NoPromise, Promises
<1>4. mail' \subseteq mail /\ household' = household BY DEF Launch
<1>5. NoMoreWaits BY <1>4 DEF NoMoreWaits
<1> DEFINE k == <<"held", d, Len(seller[d].units) + 1>>
<1>6. ASSUME NEW v, NEW c, IsHeld(v, c)' PROVE IsHeld(v, c) \/ (v = u /\ c = k)
  BY <1>1, <1>6, GainsHeld DEF Typed
<1> HIDE DEF k
<1>7. ASSUME NEW v, NEW c, HasClaim(v, c)' PROVE HasClaim(v, c) \/ (v = u /\ c = k)
  BY <1>2, <1>3, <1>4, <1>5, <1>6, <1>7, MailedFewer, PostedFewer, WaitedFewer DEF HasClaim
<1>8. ASSUME NEW v, v # u PROVE Keeping(v)
  <2>1. Fewer(v) BY <1>7, <1>8 DEF Fewer
  <2>2. QED BY <2>1, FewerKeeps
<1>9. \A c : HasClaim(u, c)' => c = k BY <1>1, <1>7 DEF Unplanned, NoClaim
<1>10. QED BY <1>8, <1>9, OnlyIsSole

\* What was posted becomes the mail.
LEMMA DistributeClaims == ASSUME Typed, Distribute PROVE \A u : Keeping(u)
<1>1. /\ out' = {} /\ mail' \subseteq out /\ UNCHANGED <<seller, household>>
  BY DistributeOutcome
<1>2. SameHeld /\ NoMoreWaits BY <1>1 DEF SameHeld, NoMoreWaits
<1>3. ASSUME NEW u, NEW c, HasClaim(u, c)'
      PROVE  IsHeld(u, c) \/ IsWaited(u, c)
             \/ \E m \in out : Promises(m, u) /\ c = <<"mail", m, 0>> /\ HasClaim(u, <<"out", m, 0>>)
  <2>1. CASE IsHeld(u, c)' BY <1>2, <2>1, HeldSame
  <2>2. CASE IsWaited(u, c)' BY <1>2, <2>2, WaitedFewer
  <2>3. CASE IsMailed(u, c)' BY <1>1, <2>3 DEF IsMailed, IsPosted, HasClaim
  <2>4. ~ IsPosted(u, c)' BY <1>1 DEF IsPosted
  <2>5. QED BY <1>3, <2>1, <2>2, <2>3, <2>4 DEF HasClaim
<1>4. ASSUME NEW u PROVE Keeping(u)
  <2>1. NoClaim(u) => NoClaim(u)' BY <1>3 DEF NoClaim, HasClaim
  <2>2. ASSUME Sole(u), NEW c, NEW e, HasClaim(u, c)', HasClaim(u, e)' PROVE c = e
    <3>1. CASE \E m \in out : Promises(m, u) /\ c = <<"mail", m, 0>> /\ HasClaim(u, <<"out", m, 0>>)
      <4>1. PICK m \in out : c = <<"mail", m, 0>> /\ HasClaim(u, <<"out", m, 0>>) BY <3>1
      <4>2. \A q : HasClaim(u, q) => q = <<"out", m, 0>> BY <2>2, <4>1 DEF Sole, Only
      <4>3. ~ IsHeld(u, e) /\ ~ IsWaited(u, e) BY <4>2 DEF IsHeld, IsWaited, HasClaim
      <4>4. PICK n \in out : e = <<"mail", n, 0>> /\ HasClaim(u, <<"out", n, 0>>)
        BY <1>3, <2>2, <4>3
      <4>5. QED BY <4>1, <4>2, <4>4
    <3>2. CASE IsHeld(u, c) \/ IsWaited(u, c)
      <4>1. \A q : HasClaim(u, q) => q = c BY <2>2, <3>2 DEF Sole, Only, HasClaim
      <4>2. CASE \E m \in out : Promises(m, u) /\ e = <<"mail", m, 0>> /\ HasClaim(u, <<"out", m, 0>>)
        <5>1. PICK m \in out : HasClaim(u, <<"out", m, 0>>) BY <4>2
        <5>2. c = <<"out", m, 0>> BY <4>1, <5>1
        <5>3. FALSE BY <3>2, <5>2 DEF IsHeld, IsWaited
        <5>4. QED BY <5>3
      <4>3. CASE IsHeld(u, e) \/ IsWaited(u, e) BY <4>1, <4>3 DEF HasClaim
      <4>4. QED BY <1>3, <2>2, <4>2, <4>3
    <3>3. QED BY <1>3, <2>2, <3>1, <3>2
  <2>3. QED BY <2>1, <2>2 DEF Keeping, Sole, Only
<1>5. QED BY <1>4

\* The unit of an agent is claimed by it alone, once.
LEMMA HeldAlone ==
  ASSUME NEW a \in Agents, NEW u \in SeqRange(seller[a].units), Sole(u)
  PROVE  /\ Once(seller[a].units, u)
         /\ \A b \in Agents \ {a} : u \notin SeqRange(seller[b].units)
         /\ \A c : ~ IsMailed(u, c) /\ ~ IsPosted(u, c) /\ ~ IsWaited(u, c)
<1>1. PICK i \in DOMAIN seller[a].units : seller[a].units[i] = u BY DEF SeqRange
<1>2. HasClaim(u, <<"held", a, i>>) BY <1>1 DEF HasClaim, IsHeld
<1>3. \A c : HasClaim(u, c) => c = <<"held", a, i>> BY <1>2 DEF Sole, Only
<1>4. ASSUME NEW b \in Agents, NEW j \in DOMAIN seller[b].units, seller[b].units[j] = u
      PROVE  b = a /\ j = i
  <2>1. HasClaim(u, <<"held", b, j>>) BY <1>4 DEF HasClaim, IsHeld
  <2>2. <<"held", b, j>> = <<"held", a, i>> BY <1>3, <2>1
  <2>3. QED BY <2>2
<1>5. Once(seller[a].units, u) BY <1>4 DEF Once
<1>6. \A b \in Agents \ {a} : u \notin SeqRange(seller[b].units) BY <1>4 DEF SeqRange
<1>7. ASSUME NEW c, IsMailed(u, c) \/ IsPosted(u, c) \/ IsWaited(u, c) PROVE FALSE
  <2>1. c = <<"held", a, i>> BY <1>3, <1>7 DEF HasClaim
  <2>2. c[1] = "held" BY <2>1
  <2>3. c[1] # "held" BY <1>7 DEF IsMailed, IsPosted, IsWaited
  <2>4. QED BY <2>2, <2>3
<1>8. QED BY <1>5, <1>6, <1>7

\* The claims, after a step, to a unit that only one agent's list can hold, and only once.
LEMMA HeldClaims ==
  ASSUME NEW a \in Agents, NEW u, \A b \in Agents \ {a} : u \notin SeqRange(seller'[b].units)
  PROVE  /\ \A c : IsHeld(u, c)' => u \in SeqRange(seller'[a].units)
         /\ Once(seller'[a].units, u) => \A c, e : IsHeld(u, c)' /\ IsHeld(u, e)' => c = e
<1>1. ASSUME NEW c, IsHeld(u, c)'
      PROVE  \E i \in DOMAIN seller'[a].units : seller'[a].units[i] = u /\ c = <<"held", a, i>>
  <2>1. PICK b \in Agents : \E i \in DOMAIN seller'[b].units :
          seller'[b].units[i] = u /\ c = <<"held", b, i>>
    BY <1>1 DEF IsHeld
  <2>2. u \in SeqRange(seller'[b].units) BY <2>1 DEF SeqRange
  <2>3. b = a BY <2>2
  <2>4. QED BY <2>1, <2>3
<1>2. \A c : IsHeld(u, c)' => u \in SeqRange(seller'[a].units) BY <1>1 DEF SeqRange
<1>3. QED BY <1>1, <1>2 DEF Once

\* A seller's update: what it sells leaves its list and is promised to one winner.
LEMMA UpdateSellerClaims ==
  ASSUME Typed, NEW a \in Sellers, UpdateSeller(a) PROVE \A u : Keeping(u)
<1>1. /\ a \in Agents /\ SameWaits /\ seller'[a].units = Unsold(a)
      /\ \A b \in Agents \ {a} : seller'[b] = seller[b]
      /\ out' = out \cup SellerMail(a, market) /\ mail' = mail
  BY UpdateSellerOutcome
<1>2. /\ Sold(a) \subseteq SeqRange(seller[a].units)
      /\ SeqRange(Unsold(a)) = SeqRange(seller[a].units) \ Sold(a)
      /\ \A u : Once(seller[a].units, u) => Once(Unsold(a), u)
  BY <1>1, UnsoldUnits DEF Typed
<1>3. NoMoreWaits BY <1>1 DEF SameWaits, NoMoreWaits
<1>4. ASSUME NEW u, NEW c, IsPosted(u, c)'
      PROVE  \/ IsPosted(u, c)
             \/ u \in Sold(a) /\ c = <<"out", Response(seller[a].maxBid[u].bidder, u, "ACCEPTED"), 0>>
  <2>1. PICK m \in out' : Promises(m, u) /\ c = <<"out", m, 0>> BY <1>4 DEF IsPosted
  <2>2. CASE m \in out BY <2>1, <2>2 DEF IsPosted
  <2>3. CASE m \in SellerMail(a, market) BY <2>1, <2>3, SellerPromises
  <2>4. QED BY <1>1, <2>2, <2>3
<1>5. ASSUME NEW u, u \notin SeqRange(seller[a].units) PROVE Keeping(u)
  <2>1. ASSUME NEW c, IsHeld(u, c)' PROVE IsHeld(u, c)
    <3>1. PICK b \in Agents : \E i \in DOMAIN seller'[b].units :
            seller'[b].units[i] = u /\ c = <<"held", b, i>>
      BY <2>1 DEF IsHeld
    <3>2. b # a BY <1>1, <1>2, <1>5, <3>1 DEF SeqRange
    <3>3. QED BY <1>1, <3>1, <3>2 DEF IsHeld
  <2>2. Fewer(u) BY <1>1, <1>2, <1>3, <1>4, <1>5, <2>1, MailedFewer, WaitedFewer DEF Fewer, HasClaim
  <2>3. QED BY <2>2, FewerKeeps
<1>6. ASSUME NEW u \in SeqRange(seller[a].units) PROVE Keeping(u)
  <2>1. ~ NoClaim(u) BY <1>1, <1>6 DEF NoClaim, HasClaim, IsHeld, SeqRange
  <2>2. ASSUME Sole(u) PROVE Sole(u)'
    <3>1. /\ Once(seller[a].units, u)
          /\ \A b \in Agents \ {a} : u \notin SeqRange(seller[b].units)
          /\ \A c : ~ IsMailed(u, c) /\ ~ IsPosted(u, c) /\ ~ IsWaited(u, c)
      BY <1>1, <2>2, HeldAlone
    <3>2. \A b \in Agents \ {a} : u \notin SeqRange(seller'[b].units) BY <1>1, <3>1
    <3>3. /\ \A c : IsHeld(u, c)' => u \in SeqRange(seller'[a].units)
          /\ Once(seller'[a].units, u) => \A c, e : IsHeld(u, c)' /\ IsHeld(u, e)' => c = e
      BY <1>1, <3>2, HeldClaims
    <3>4. \A c : HasClaim(u, c)' => IsHeld(u, c)' \/ IsPosted(u, c)'
      BY <1>1, <1>3, <3>1, MailedFewer, WaitedFewer DEF HasClaim
    <3>5. CASE u \in Sold(a)
      <4>1. \A c : ~ IsHeld(u, c)' BY <1>1, <1>2, <3>3, <3>5
      <4>2. \A c : HasClaim(u, c)' =>
              c = <<"out", Response(seller[a].maxBid[u].bidder, u, "ACCEPTED"), 0>>
        BY <1>4, <3>1, <3>4, <4>1
      <4>3. QED BY <4>2, OnlyIsSole
    <3>6. CASE u \notin Sold(a)
      <4>1. \A c : HasClaim(u, c)' => IsHeld(u, c)' BY <1>4, <3>1, <3>4, <3>6
      <4>2. Once(seller'[a].units, u) BY <1>1, <1>2, <3>1
      <4>3. QED BY <3>3, <4>1, <4>2 DEF Sole, Only
    <3>7. QED BY <3>5, <3>6
  <2>3. QED BY <2>1, <2>2 DEF Keeping
<1>7. QED BY <1>5, <1>6

\* A household whose only unit is handed over erases the one it posts.
LEMMA OneUnitHandedOver ==
  ASSUME NEW s \in Seq(Units), ~ (Len(s) > 1)
  PROVE  Erased(s) = SeqRange(s) /\ Posted(s) = SeqRange(s)
<1>1. DOMAIN s = 1 .. Len(s) /\ Len(s) \in Nat BY LenProperties
<1>2. CASE Len(s) = 0
  <2>1. DOMAIN s = {} BY <1>1, <1>2
  <2>2. QED BY <2>1 DEF Erased, Posted, Odd, SeqRange
<1>3. CASE Len(s) = 1
  <2>1. DOMAIN s = {1} BY <1>1, <1>3
  <2>2. Odd(s) = {1} BY <2>1 DEF Odd
  <2>3. QED BY <1>3, <2>1, <2>2 DEF Erased, Posted, SeqRange
<1>4. QED BY <1>1, <1>2, <1>3

\* The unit that a household waits for is claimed by it alone.
LEMMA WaitsAlone ==
  ASSUME NEW h \in Households, household[h].moveIn > 0, NEW u, household[h].toBeOwned = u, Sole(u)
  PROVE  /\ \A b \in Agents : u \notin SeqRange(seller[b].units)
         /\ \A c : ~ IsMailed(u, c) /\ ~ IsPosted(u, c) /\ (IsWaited(u, c) => c = <<"waits", h, 0>>)
<1>1. HasClaim(u, <<"waits", h, 0>>) BY DEF HasClaim, IsWaited
<1>2. \A c : HasClaim(u, c) => c = <<"waits", h, 0>> BY <1>1 DEF Sole, Only
<1>3. ASSUME NEW c, IsHeld(u, c) \/ IsMailed(u, c) \/ IsPosted(u, c) PROVE FALSE
  <2>1. c = <<"waits", h, 0>> BY <1>2, <1>3 DEF HasClaim
  <2>2. c[1] = "waits" BY <2>1
  <2>3. c[1] # "waits" BY <1>3 DEF IsHeld, IsMailed, IsPosted
  <2>4. QED BY <2>2, <2>3
<1>4. ASSUME NEW b \in Agents, u \in SeqRange(seller[b].units) PROVE FALSE
  <2>1. PICK i \in DOMAIN seller[b].units : seller[b].units[i] = u BY <1>4 DEF SeqRange
  <2>2. IsHeld(u, <<"held", b, i>>) BY <2>1 DEF IsHeld
  <2>3. QED BY <1>3, <2>2
<1>5. QED BY <1>2, <1>3, <1>4 DEF HasClaim

\* A household that is updated: a unit of its list stays, is promised to a bidder or is
\* handed over, and the unit it has waited for joins the list.
LEMMA UpdateHouseholdClaims ==
  ASSUME Typed, NEW h \in Households, NEW f \in Freelance, UpdateHousehold(h, f)
  PROVE  \A u \in Units : /\ NoClaim(u) => NoClaim(u)'
                          /\ u \notin garbled' /\ Sole(u) => Sole(u)'
<1> DEFINE gone == IF Transfers(h) THEN Erased(Unsold(h)) ELSE {}
           come == IF Waited(h) = 0 THEN {household[h].toBeOwned} ELSE {}
           reply(u) == <<"out", Response(seller[h].maxBid[u].bidder, u, "ACCEPTED"), 0>>
           over(u) == <<"out", [to |-> f, kind |-> "transfer", unit |-> u], 0>>
<1>1. /\ h \in Agents /\ household[h].active /\ mail' = mail
      /\ seller'[h].units = UnitsAfter(h)
      /\ \A b \in Agents \ {h} : seller'[b] = seller[b]
      /\ household'[h].moveIn = Waited(h)
      /\ household'[h].toBeOwned = household[h].toBeOwned
      /\ \A g \in Households \ {h} : /\ household'[g].moveIn = household[g].moveIn
                                     /\ household'[g].toBeOwned = household[g].toBeOwned
      /\ \E B : /\ out' = out \cup SellerMail(h, Opened(h)) \cup LeavingMail(h, f) \cup B
                /\ \A m \in B : m.kind = "bid"
  BY UpdateHouseholdOutcome
<1>2. /\ Sold(h) \subseteq SeqRange(seller[h].units)
      /\ SeqRange(Unsold(h)) = SeqRange(seller[h].units) \ Sold(h)
      /\ Unsold(h) \in Seq(Units)
      /\ \A u : Once(seller[h].units, u) => Once(Unsold(h), u)
  BY <1>1, UnsoldUnits DEF Typed
<1>3. /\ SeqRange(UnitsAfter(h)) = (SeqRange(Unsold(h)) \ gone) \cup come
      /\ \A u : Once(Unsold(h), u) /\ (u \notin come \/ u \notin SeqRange(Unsold(h)) \ gone)
                => Once(UnitsAfter(h), u)
  BY <1>1, UnitsAfterTyped DEF Typed
<1>4. /\ Waited(h) \in Int /\ (Waited(h) = 0 => household[h].moveIn > 0)
      /\ Waited(h) > 0 => household[h].moveIn > 0
  <2>1. /\ Waited(h) \in Int /\ (Waited(h) = 0 => household[h].moveIn = 1)
        /\ Waited(h) >= 0 => household[h].moveIn > 0
    BY <1>1, WaitedTyped DEF Typed
  <2>2. QED BY <2>1
<1>5. NoMoreWaits BY <1>1, <1>4 DEF NoMoreWaits
<1>6. ASSUME NEW u, NEW c, IsPosted(u, c)'
      PROVE  \/ IsPosted(u, c)
             \/ u \in Sold(h) /\ c = reply(u)
             \/ Transfers(h) /\ u \in Posted(Unsold(h)) /\ c = over(u)
  <2>1. PICK m \in out' : Promises(m, u) /\ c = <<"out", m, 0>> BY <1>6 DEF IsPosted
  <2>2. CASE m \in out BY <2>1, <2>2 DEF IsPosted
  <2>3. CASE m \in SellerMail(h, Opened(h)) BY <2>1, <2>3, SellerPromises
  <2>4. CASE m \in LeavingMail(h, f) BY <2>1, <2>4, LeavingPromises
  <2>5. m.kind # "bid" BY <2>1 DEF Promises
  <2>6. QED BY <1>1, <2>2, <2>3, <2>4, <2>5
<1>7. Posted(Unsold(h)) \subseteq SeqRange(seller[h].units) BY <1>2, ErasedPosted
<1> HIDE DEF gone, reply, over
<1>8. ASSUME NEW u, u \notin SeqRange(seller[h].units), u \notin come PROVE Keeping(u)
  <2>1. ASSUME NEW c, IsHeld(u, c)' PROVE IsHeld(u, c)
    <3>1. PICK b \in Agents : \E i \in DOMAIN seller'[b].units :
            seller'[b].units[i] = u /\ c = <<"held", b, i>>
      BY <2>1 DEF IsHeld
    <3>2. u \in SeqRange(seller'[b].units) BY <3>1 DEF SeqRange
    <3>3. b # h BY <1>1, <1>2, <1>3, <1>8, <3>2
    <3>4. QED BY <1>1, <3>1, <3>3 DEF IsHeld
  <2>2. \A c : IsPosted(u, c)' => IsPosted(u, c) BY <1>2, <1>6, <1>7, <1>8
  <2>3. Fewer(u) BY <1>1, <1>5, <2>1, <2>2, MailedFewer, WaitedFewer DEF Fewer, HasClaim
  <2>4. QED BY <2>3, FewerKeeps
<1>9. ASSUME NEW u, u \notin SeqRange(seller[h].units), u \in come PROVE Keeping(u)
  <2>1. Waited(h) = 0 /\ household[h].toBeOwned = u /\ household[h].moveIn > 0 BY <1>4, <1>9
  <2>2. ~ NoClaim(u) BY <2>1 DEF NoClaim, HasClaim, IsWaited
  <2>3. ASSUME Sole(u) PROVE Sole(u)'
    <3>1. /\ \A b \in Agents : u \notin SeqRange(seller[b].units)
          /\ \A c : ~ IsMailed(u, c) /\ ~ IsPosted(u, c) /\ (IsWaited(u, c) => c = <<"waits", h, 0>>)
      BY ONLY <2>1, <2>3, WaitsAlone
    <3>2. \A b \in Agents \ {h} : u \notin SeqRange(seller'[b].units) BY <1>1, <3>1
    <3>3. Once(seller'[h].units, u)
      <4>1. u \notin SeqRange(Unsold(h)) BY <1>2, <1>9
      <4>2. Once(Unsold(h), u) BY <4>1 DEF Once, SeqRange
      <4>3. QED BY <1>1, <1>3, <4>1, <4>2
    <3>4. \A c, e : IsHeld(u, c)' /\ IsHeld(u, e)' => c = e BY <1>1, <3>2, <3>3, HeldClaims
    <3>5. \A c : ~ IsWaited(u, c)'
      <4>1. SUFFICES ASSUME NEW c, IsWaited(u, c)' PROVE FALSE
        OBVIOUS
      <4>2. c = <<"waits", h, 0>> BY <1>5, <3>1, <4>1, WaitedFewer
      <4>3. PICK g \in Households : household'[g].moveIn > 0 /\ c = <<"waits", g, 0>>
        BY <4>1 DEF IsWaited
      <4>4. g = h BY <4>2, <4>3
      <4>5. QED BY <1>1, <2>1, <4>3, <4>4
    <3>6. \A c : ~ IsPosted(u, c)' BY <1>2, <1>6, <1>7, <1>9, <3>1
    <3>7. \A c : ~ IsMailed(u, c)' BY <1>1, <3>1, MailedFewer
    <3>8. QED BY <3>4, <3>5, <3>6, <3>7 DEF Sole, Only, HasClaim
  <2>4. QED BY <2>2, <2>3 DEF Keeping
<1>10. ASSUME NEW u \in SeqRange(seller[h].units) PROVE ~ NoClaim(u)
  BY <1>1, <1>10 DEF NoClaim, HasClaim, IsHeld, SeqRange
<1>11. ASSUME NEW u \in SeqRange(seller[h].units), Sole(u), u \notin garbled' PROVE Sole(u)'
  <2>1. /\ Once(seller[h].units, u)
        /\ \A b \in Agents \ {h} : u \notin SeqRange(seller[b].units)
        /\ \A c : ~ IsMailed(u, c) /\ ~ IsPosted(u, c) /\ ~ IsWaited(u, c)
    BY <1>1, <1>11, HeldAlone
  <2>2. u \notin come
    <3>1. SUFFICES ASSUME Waited(h) = 0, household[h].toBeOwned = u PROVE FALSE
      OBVIOUS
    <3>2. IsWaited(u, <<"waits", h, 0>>) BY <1>4, <3>1 DEF IsWaited
    <3>3. QED BY <2>1, <3>2
  <2>3. \A b \in Agents \ {h} : u \notin SeqRange(seller'[b].units) BY <1>1, <2>1
  <2>4. /\ \A c : IsHeld(u, c)' => u \in SeqRange(seller'[h].units)
        /\ Once(seller'[h].units, u) => \A c, e : IsHeld(u, c)' /\ IsHeld(u, e)' => c = e
    BY <1>1, <2>3, HeldClaims
  <2>5. \A c : HasClaim(u, c)' => IsHeld(u, c)' \/ IsPosted(u, c)'
    BY <1>1, <1>5, <2>1, MailedFewer, WaitedFewer DEF HasClaim
  <2> HIDE DEF come
  <2>6. CASE u \in Sold(h)
    <3>1. u \notin SeqRange(Unsold(h)) BY <1>2, <2>6
    <3>2. \A c : ~ IsHeld(u, c)' BY <1>1, <1>3, <2>2, <2>4, <3>1
    <3>3. u \notin Posted(Unsold(h)) BY <3>1, ErasedPosted
    <3>4. \A c : HasClaim(u, c)' => c = reply(u) BY <1>6, <2>1, <2>5, <3>2, <3>3
    <3>5. QED BY <3>4, OnlyIsSole
  <2>7. CASE u \notin Sold(h) /\ Transfers(h)
    <3>1. u \in SeqRange(Unsold(h)) BY <1>2, <1>11, <2>7
    <3>2. garbled' = garbled \cup
            IF Transfers(h) /\ Len(Unsold(h)) > 1 THEN SeqRange(Unsold(h)) ELSE {}
      BY DEF UpdateHousehold
    <3>3. ~ (Len(Unsold(h)) > 1) BY <1>11, <2>7, <3>1, <3>2
    <3>4. Erased(Unsold(h)) = SeqRange(Unsold(h)) BY <1>2, <3>3, OneUnitHandedOver
    <3>5. u \in gone BY <2>7, <3>1, <3>4 DEF gone
    <3>6. \A c : ~ IsHeld(u, c)' BY <1>1, <1>3, <2>2, <2>4, <3>5
    <3>7. \A c : HasClaim(u, c)' => c = over(u) BY <1>6, <2>1, <2>5, <2>7, <3>6
    <3>8. QED BY <3>7, OnlyIsSole
  <2>8. CASE u \notin Sold(h) /\ ~ Transfers(h)
    <3>1. \A c : HasClaim(u, c)' => IsHeld(u, c)' BY <1>6, <2>1, <2>5, <2>8
    <3>2. Once(seller'[h].units, u) BY <1>1, <1>2, <1>3, <2>1, <2>2
    <3>3. QED BY <2>4, <3>1, <3>2 DEF Sole, Only
  <2>9. QED BY <2>6, <2>7, <2>8
<1>12. QED BY <1>8, <1>9, <1>10, <1>11 DEF Keeping

-----------------------------------------------------------------------------
\* What every step does with the claims to a unit.
Conserved ==
  /\ planned' \subseteq planned /\ garbled \subseteq garbled'
  /\ \A u \in Units : /\ u \in planned' /\ NoClaim(u) => NoClaim(u)'
                      /\ u \notin garbled' /\ Sole(u) => Sole(u)'

\* A step that keeps every unit's claims conserves them.
LEMMA KeepingConserves ==
  ASSUME UNCHANGED <<planned, garbled>>, \A u : Keeping(u) PROVE Conserved
BY DEF Conserved, Keeping

\* Every step conserves the claims, but of units transferred several at once.
LEMMA StepConserves == ASSUME Typed, Unplanned, [Next]_vars PROVE Conserved
<1>1. ASSUME NEW m \in mail, NEW a, ReceiveBid(a, m) PROVE Conserved
  <2>1. UNCHANGED <<planned, garbled>> BY <1>1 DEF ReceiveBid
  <2>2. QED BY <1>1, <2>1, ReceiveBidClaims, FewerKeeps, KeepingConserves
<1>2. ASSUME NEW m \in mail, NEW a, ReceiveTransfer(a, m) PROVE Conserved
  <2>1. UNCHANGED <<planned, garbled>> BY <1>2 DEF ReceiveTransfer
  <2>2. QED BY <1>2, <2>1, ReceiveTransferClaims, KeepingConserves
<1>3. ASSUME NEW m \in mail, NEW a, ReceiveResponse(a, m) PROVE Conserved
  <2>1. UNCHANGED <<planned, garbled>> BY <1>3 DEF ReceiveResponse
  <2>2. QED BY <1>3, <2>1, ReceiveResponseClaims, KeepingConserves
<1>4. ASSUME NEW m \in mail, NEW a, ReceiveEvent(a, m) PROVE Conserved
  <2>1. UNCHANGED <<planned, garbled>> BY <1>4 DEF ReceiveEvent
  <2>2. QED BY <1>4, <2>1, ReceiveEventClaims, FewerKeeps, KeepingConserves
<1>5. ASSUME NEW d \in Developers, NEW u \in Units, Launch(d, u) PROVE Conserved
  <2>1. planned' = planned \ {u} /\ garbled' = garbled BY <1>5 DEF Launch
  <2>2. (\A v : v # u => Keeping(v)) /\ Sole(u)' BY <1>5, LaunchClaims
  <2>3. QED BY <2>1, <2>2 DEF Conserved, Keeping
<1>6. ASSUME NEW a \in Sellers, UpdateSeller(a) PROVE Conserved
  <2>1. UNCHANGED <<planned, garbled>> BY <1>6 DEF UpdateSeller
  <2>2. QED BY <1>6, <2>1, UpdateSellerClaims, KeepingConserves
<1>7. ASSUME NEW h \in Households, NEW f \in Freelance, UpdateHousehold(h, f) PROVE Conserved
  <2>1. planned' = planned /\ garbled \subseteq garbled' BY <1>7 DEF UpdateHousehold
  <2>2. QED BY <1>7, <2>1, UpdateHouseholdClaims DEF Conserved
<1>8. ASSUME NEW a \in Agents, UpdateIdle(a) PROVE Conserved
  <2>1. UNCHANGED <<planned, garbled>> BY <1>8 DEF UpdateIdle
  <2>2. QED BY <1>8, <2>1, IdleClaims, FewerKeeps, KeepingConserves
<1>9. ASSUME NEW h \in Households, Awaken(h) PROVE Conserved
  <2>1. UNCHANGED <<planned, garbled>> BY <1>9 DEF Awaken
  <2>2. QED BY <1>9, <2>1, AwakenClaims, FewerKeeps, KeepingConserves
<1>10. CASE UpdateInjector
  <2>1. UNCHANGED <<planned, garbled>> BY <1>10 DEF UpdateInjector
  <2>2. QED BY <1>10, <2>1, InjectorClaims, FewerKeeps, KeepingConserves
<1>11. CASE Distribute
  <2>1. UNCHANGED <<planned, garbled>> BY <1>11 DEF Distribute
  <2>2. QED BY <1>11, <2>1, DistributeClaims, KeepingConserves
<1>12. CASE UNCHANGED vars
  <2>1. UNCHANGED <<mail, out, seller, household, planned, garbled>> BY <1>12 DEF vars
  <2>2. SameHeld /\ NoMoreWaits /\ NoPromise({}) /\ out' = out \cup {}
    BY <2>1 DEF SameHeld, NoMoreWaits, NoPromise
  <2>3. QED BY <2>1, <2>2, QuietClaims, FewerKeeps, KeepingConserves
<1>13. QED
  BY <1>1, <1>2, <1>3, <1>4, <1>5, <1>6, <1>7, <1>8, <1>9, <1>10, <1>11, <1>12 DEF Next

\* Then the invariant is preserved.
LEMMA ConservedClaims ==
  ASSUME Typed, Conserved
  PROVE  (Unplanned => Unplanned') /\ (Single => Single')
<1>1. planned \subseteq Units BY DEF Typed, RestTyped
<1>2. Unplanned => Unplanned' BY <1>1 DEF Unplanned, Conserved
<1>3. Single => Single' BY DEF Single, Conserved
<1>4. QED BY <1>2, <1>3

\* In the input data the only claims are of lists, and planned units have none.
LEMMA InitClaims ==
  ASSUME Init
  PROVE  /\ \A u, c : HasClaim(u, c) => IsHeld(u, c)
         /\ \A a \in Agents : seller[a].units = Initial[a]
         /\ Unplanned
<1>1. mail = {} /\ out = {} /\ \A a \in Agents : seller[a].units = Initial[a] BY DEF Init
<1>2. \A h \in Households : household[h].moveIn = -1 BY DEF Init
<1>3. ASSUME NEW u, NEW c, HasClaim(u, c) PROVE IsHeld(u, c)
  <2>1. ~ IsMailed(u, c) /\ ~ IsPosted(u, c) BY <1>1 DEF IsMailed, IsPosted
  <2>2. ~ IsWaited(u, c) BY <1>2 DEF IsWaited
  <2>3. QED BY <1>3, <2>1, <2>2 DEF HasClaim
<1>4. ASSUME NEW u \in planned, NEW c, IsHeld(u, c) PROVE FALSE
  <2>1. PICK a \in Agents : \E i \in DOMAIN seller[a].units : seller[a].units[i] = u
    BY <1>4 DEF IsHeld
  <2>2. u \in SeqRange(Initial[a]) BY <1>1, <2>1 DEF SeqRange
  <2>3. planned = Units \ UNION {SeqRange(Initial[b]) : b \in Agents} BY DEF Init
  <2>4. QED BY <1>4, <2>2, <2>3
<1>5. QED BY <1>1, <1>3, <1>4 DEF Unplanned, NoClaim

\* The input data: a unit is in the list of one agent at most, and once.
OneOwner ==
  \A a, b \in Agents : \A i \in DOMAIN Initial[a] : \A j \in DOMAIN Initial[b] :
    Initial[a][i] = Initial[b][j] => a = b /\ i = j

\* With one owner of each unit in the input data, the invariant holds initially.
LEMMA InitSingle == ASSUME Init, OneOwner PROVE Single
<1>1. (\A u, c : HasClaim(u, c) => IsHeld(u, c)) /\ \A a \in Agents : seller[a].units = Initial[a]
  BY InitClaims
<1>2. ASSUME NEW u, NEW c, NEW e, IsHeld(u, c), IsHeld(u, e) PROVE c = e
  <2>1. PICK a \in Agents : \E i \in DOMAIN seller[a].units :
          seller[a].units[i] = u /\ c = <<"held", a, i>>
    BY <1>2 DEF IsHeld
  <2>2. PICK i \in DOMAIN seller[a].units : seller[a].units[i] = u /\ c = <<"held", a, i>> BY <2>1
  <2>3. PICK b \in Agents : \E j \in DOMAIN seller[b].units :
          seller[b].units[j] = u /\ e = <<"held", b, j>>
    BY <1>2 DEF IsHeld
  <2>4. PICK j \in DOMAIN seller[b].units : seller[b].units[j] = u /\ e = <<"held", b, j>> BY <2>3
  <2>5. a = b /\ i = j BY <1>1, <2>2, <2>4 DEF OneOwner
  <2>6. QED BY <2>2, <2>4, <2>5
<1>3. QED BY <1>1, <1>2 DEF Single, Sole, Only

\* How HousingMarketInv writes a claim.
Written(c) ==
  IF c[1] = "held" THEN c
  ELSE IF c[1] = "waits" THEN <<"promised", c[2]>>
  ELSE IF c[2].kind = "response" THEN <<"promised", c[2].to>> ELSE <<"moving", c[2].to>>

\* The claims of HousingMarketInv are those of this module, with mail and posts not told apart.
LEMMA ClaimsWritten ==
  ASSUME NEW u, NEW x \in Claims(u) PROVE \E c : HasClaim(u, c) /\ x = Written(c)
<1>1. CASE \E a \in Agents : \E i \in DOMAIN seller[a].units :
             seller[a].units[i] = u /\ x = <<"held", a, i>>
  <2>1. IsHeld(u, x) BY <1>1 DEF IsHeld
  <2>2. x[1] = "held" BY <1>1
  <2>3. Written(x) = x BY <2>2 DEF Written
  <2>4. QED BY <2>1, <2>3 DEF HasClaim
<1>2. CASE \E h \in Households :
             household[h].moveIn > 0 /\ household[h].toBeOwned = u /\ x = <<"promised", h>>
  <2>1. PICK h \in Households :
          household[h].moveIn > 0 /\ household[h].toBeOwned = u /\ x = <<"promised", h>>
    BY <1>2
  <2>2. IsWaited(u, <<"waits", h, 0>>) BY <2>1 DEF IsWaited
  <2>3. Written(<<"waits", h, 0>>) = x BY <2>1 DEF Written
  <2>4. QED BY <2>2, <2>3 DEF HasClaim
<1>3. CASE \E m \in mail \cup out :
             Promises(m, u) /\ x = IF m.kind = "response" THEN <<"promised", m.to>> ELSE <<"moving", m.to>>
  <2>1. PICK m \in mail \cup out :
          Promises(m, u) /\ x = IF m.kind = "response" THEN <<"promised", m.to>> ELSE <<"moving", m.to>>
    BY <1>3
  <2>2. CASE m \in mail
    <3>1. IsMailed(u, <<"mail", m, 0>>) BY <2>1, <2>2 DEF IsMailed
    <3>2. Written(<<"mail", m, 0>>) = x BY <2>1 DEF Written
    <3>3. QED BY <3>1, <3>2 DEF HasClaim
  <2>3. CASE m \in out
    <3>1. IsPosted(u, <<"out", m, 0>>) BY <2>1, <2>3 DEF IsPosted
    <3>2. Written(<<"out", m, 0>>) = x BY <2>1 DEF Written
    <3>3. QED BY <3>1, <3>2 DEF HasClaim
  <2>4. QED BY <2>2, <2>3
<1>4. \/ \E a \in Agents : \E i \in DOMAIN seller[a].units :
           seller[a].units[i] = u /\ x = <<"held", a, i>>
      \/ \E h \in Households :
           household[h].moveIn > 0 /\ household[h].toBeOwned = u /\ x = <<"promised", h>>
      \/ \E m \in mail \cup out :
           m.kind = "response" /\ m.unit = u /\ m.response = "ACCEPTED" /\ x = <<"promised", m.to>>
      \/ \E m \in mail \cup out : m.kind = "transfer" /\ m.unit = u /\ x = <<"moving", m.to>>
  <2> DEFINE held == UNION {{<<"held", a, i>> : i \in {i \in DOMAIN seller[a].units : seller[a].units[i] = u}}
                            : a \in Agents}
             sent == {<<"promised", m.to>> : m \in {m \in mail \cup out : m.kind = "response"
                                                     /\ m.unit = u /\ m.response = "ACCEPTED"}}
             waiting == {<<"promised", h>> : h \in {h \in Households : household[h].moveIn > 0
                                                     /\ household[h].toBeOwned = u}}
             moving == {<<"moving", m.to>> : m \in {m \in mail \cup out : m.kind = "transfer" /\ m.unit = u}}
  <2>1. Claims(u) = held \cup sent \cup waiting \cup moving BY DEF Claims
  <2>2. x \in held \/ x \in sent \/ x \in waiting \/ x \in moving
    <3> HIDE DEF held, sent, waiting, moving
    <3>1. QED BY <2>1
  <2>3. ASSUME x \in held PROVE \E a \in Agents : \E i \in DOMAIN seller[a].units :
           seller[a].units[i] = u /\ x = <<"held", a, i>>
    BY ONLY <2>3
  <2>4. ASSUME x \in sent PROVE \E m \in mail \cup out :
           m.kind = "response" /\ m.unit = u /\ m.response = "ACCEPTED" /\ x = <<"promised", m.to>>
    BY ONLY <2>4
  <2>5. ASSUME x \in waiting PROVE \E h \in Households :
           household[h].moveIn > 0 /\ household[h].toBeOwned = u /\ x = <<"promised", h>>
    BY ONLY <2>5
  <2>6. ASSUME x \in moving PROVE \E m \in mail \cup out :
           m.kind = "transfer" /\ m.unit = u /\ x = <<"moving", m.to>>
    BY ONLY <2>6
  <2>7. QED BY ONLY <2>2, <2>3, <2>4, <2>5, <2>6
<1>5. QED BY <1>1, <1>2, <1>3, <1>4 DEF Promises

\* So that the invariant implies the property.
LEMMA SingleIsOneClaim == Single => OneClaim
<1> SUFFICES ASSUME Single, NEW u \in Units \ garbled PROVE Cardinality(Claims(u)) <= 1
  BY DEF OneClaim
<1>1. \A x, y \in Claims(u) : x = y BY ClaimsWritten DEF Single, Sole, Only
<1>2. CASE Claims(u) = {} BY <1>2, FS_EmptySet
<1>3. CASE Claims(u) # {}
  <2>1. PICK x : x \in Claims(u) BY <1>3
  <2>2. Claims(u) = {x} BY <1>1, <2>1
  <2>3. QED BY <2>2, FS_Singleton
<1>4. QED BY <1>2, <1>3

\* No unit ever has two claims, if none has in the input data: whatever the bids, sales,
\* moves and transfers, on however many workers, it is in one list, on its way to one
\* agent or promised to one household (but for several units transferred at once).
THEOREM OneClaimAlways == ASSUME OneOwner PROVE Spec => []OneClaim
<1>1. Init => Typed /\ Unplanned /\ Single BY InitTyped, InitClaims, InitSingle
<1>2. Typed /\ Unplanned /\ Single /\ [Next]_vars => Typed' /\ Unplanned' /\ Single'
  BY StepTyped, StepConserves, ConservedClaims
<1>3. Single => OneClaim BY SingleIsOneClaim
<1>4. QED BY <1>1, <1>2, <1>3, PTL DEF Spec

-----------------------------------------------------------------------------
(* Days. *)

\* A unit that is handed over may be listed on the day it arrives, or later.
HandedOver ==
  /\ \A m \in mail : m.kind = "transfer" /\ m.unit \notin garbled => entryDay[m.unit] >= day
  /\ \A m \in out : m.kind = "transfer" /\ m.unit \notin garbled => entryDay[m.unit] > day

\* No unit of this agent is stranded.
InTime(a) ==
  seller[a].active =>
    \A u \in SeqRange(seller[a].units) \ (DOMAIN seller[a].onSale \cup garbled) :
      IF a \in todo THEN ListingDay(a, u) >= day ELSE ListingDay(a, u) > day

\* On a day, the entry day of a unit that was launched is only set to a later one.
Later ==
  /\ day' = day /\ garbled \subseteq garbled'
  /\ \A u \in Units : /\ entryDay[u] \in Nat /\ entryDay'[u] \in Nat
                      /\ entryDay'[u] = entryDay[u] \/ entryDay'[u] > day \/ u \in planned

\* A step that leaves the entry days alone.
LEMMA SameEntryDays ==
  ASSUME Typed, UNCHANGED <<day, entryDay, garbled>> PROVE Later
BY DEF Typed, RestTyped, Later

\* A unit that is handed over was launched.
LEMMA MessageNotPlanned ==
  ASSUME Typed, Unplanned, NEW m \in mail \cup out, m.kind = "transfer"
  PROVE  m.unit \in Units /\ m.unit \notin planned
<1>1. m.unit \in Units BY DEF Typed, MailTyped, Sensible
<1>2. \E c : HasClaim(m.unit, c) BY DEF HasClaim, IsMailed, IsPosted, Promises
<1>3. QED BY <1>1, <1>2 DEF Unplanned, NoClaim

\* A step whose own transfers are in time keeps those of all.
LEMMA HandedOverKept ==
  ASSUME Typed, Unplanned, HandedOver, Later, mail' \subseteq mail, NEW S, out' = out \cup S,
         \A m \in S : m.kind = "transfer" /\ m.unit \notin garbled' => entryDay'[m.unit] > day
  PROVE  HandedOver'
<1>1. day \in Nat BY DEF Typed, RestTyped
<1>2. ASSUME NEW m \in mail', m.kind = "transfer", m.unit \notin garbled'
      PROVE  entryDay'[m.unit] >= day'
  <2>1. m \in mail /\ m.unit \notin garbled BY <1>2 DEF Later
  <2>2. m.unit \in Units /\ m.unit \notin planned BY <1>2, <2>1, MessageNotPlanned
  <2>3. entryDay[m.unit] >= day BY <1>2, <2>1 DEF HandedOver
  <2>4. QED BY <1>1, <2>2, <2>3 DEF Later
<1>3. ASSUME NEW m \in out', m.kind = "transfer", m.unit \notin garbled'
      PROVE  entryDay'[m.unit] > day'
  <2>1. CASE m \in S BY <1>3, <2>1 DEF Later
  <2>2. CASE m \in out
    <3>1. m.unit \notin garbled BY <1>3 DEF Later
    <3>2. m.unit \in Units /\ m.unit \notin planned BY <1>3, <2>2, MessageNotPlanned
    <3>3. entryDay[m.unit] > day BY <1>3, <2>2, <3>1 DEF HandedOver
    <3>4. QED BY <1>1, <3>2, <3>3 DEF Later
  <2>3. QED BY <2>1, <2>2
<1>4. QED BY <1>2, <1>3 DEF HandedOver

\* A step that posts no transfer.
LEMMA NoTransfer ==
  ASSUME NEW S, NoPromise(S) PROVE \A m \in S : m.kind # "transfer"
BY DEF NoPromise, Promises

\* A unit in a list was launched.
LEMMA HeldNotPlanned ==
  ASSUME Unplanned, NEW a \in Agents, NEW u \in SeqRange(seller[a].units) PROVE u \notin planned
<1>1. PICK i \in DOMAIN seller[a].units : seller[a].units[i] = u BY DEF SeqRange
<1>2. HasClaim(u, <<"held", a, i>>) BY <1>1 DEF HasClaim, IsHeld
<1>3. QED BY <1>2 DEF Unplanned, NoClaim

\* The day of listing, as a number.
LEMMA ListingDayIs ==
  ASSUME NEW a, NEW u, entryDay[u] \in Nat
  PROVE  /\ ListingDay(a, u) \in Nat
         /\ ListingDay(a, u) = entryDay[u] \/ (a \in Developers /\ ListingDay(a, u) = entryDay[u] + 1)
         /\ ListingDay(a, u) >= entryDay[u]
BY DEF ListingDay

\* An agent that a step leaves alone has no more stranded units than before.
LEMMA LeftInTime ==
  ASSUME Typed, Unplanned, Later, NEW a \in Agents, InTime(a),
         seller'[a].active => seller[a].active,
         seller'[a].units = seller[a].units, seller'[a].onSale = seller[a].onSale,
         a \in todo => a \in todo'
  PROVE  InTime(a)'
<1>1. SUFFICES ASSUME seller'[a].active, NEW u \in SeqRange(seller'[a].units),
                      u \notin DOMAIN seller'[a].onSale, u \notin garbled'
               PROVE  IF a \in todo' THEN ListingDay(a, u)' >= day' ELSE ListingDay(a, u)' > day'
  BY DEF InTime
<1>2. u \in SeqRange(seller[a].units) /\ u \notin DOMAIN seller[a].onSale /\ u \notin garbled
  BY <1>1 DEF Later
<1>3. u \in Units /\ u \notin planned
  <2>1. seller[a].units \in Seq(Units) BY DEF Typed, SellersTyped, SellerTyped
  <2>2. u \in Units BY <1>2, <2>1, LenProperties, ElementOfSeq DEF SeqRange
  <2>3. QED BY <1>2, <2>2, HeldNotPlanned
<1>4. IF a \in todo THEN ListingDay(a, u) >= day ELSE ListingDay(a, u) > day
  BY <1>1, <1>2 DEF InTime
<1>5. day \in Nat /\ day' = day /\ entryDay[u] \in Nat /\ entryDay'[u] \in Nat
      /\ (entryDay'[u] = entryDay[u] \/ entryDay'[u] > day)
  BY <1>3 DEF Later, Typed, RestTyped
<1>6. CASE entryDay'[u] = entryDay[u]
  <2>1. ListingDay(a, u)' = ListingDay(a, u) BY <1>6 DEF ListingDay
  <2>2. ListingDay(a, u) \in Nat BY <1>5, ListingDayIs
  <2>3. QED BY <1>4, <1>5, <2>1, <2>2
<1>7. CASE entryDay'[u] > day
  <2>1. ListingDay(a, u)' \in Nat /\ ListingDay(a, u)' >= entryDay'[u] BY <1>5 DEF ListingDay
  <2>2. QED BY <1>5, <1>7, <2>1
<1>8. QED BY <1>5, <1>6, <1>7

\* The steps that change no agent's units, nor what is on sale.
LEMMA SellersLeftInTime ==
  ASSUME Typed, Unplanned, Later, NeverStranded, NEW T, T \cap Sellers = {}, todo \ T \subseteq todo',
         \A a \in Sellers : /\ seller'[a].active => seller[a].active
                            /\ seller'[a].units = seller[a].units
                            /\ seller'[a].onSale = seller[a].onSale
  PROVE  NeverStranded'
<1>1. SUFFICES ASSUME NEW a \in Sellers PROVE InTime(a)'
  BY DEF NeverStranded, InTime
<1>2. a \in Agents /\ InTime(a) BY DEF Agents, NeverStranded, InTime
<1>3. a \in todo => a \in todo' OBVIOUS
<1>4. QED BY <1>2, <1>3, LeftInTime

\* A unit joins the list of an agent, in time.
LEMMA GainsInTime ==
  ASSUME Typed, Unplanned, Later, NeverStranded, todo' = todo,
         NEW a \in Sellers, a \in todo, NEW v \in Units, Gains(a, v),
         v \notin garbled' => ListingDay(a, v)' >= day
  PROVE  NeverStranded'
<1>1. SUFFICES ASSUME NEW b \in Sellers PROVE InTime(b)'
  BY DEF NeverStranded, InTime
<1>2. a \in Agents /\ b \in Agents /\ InTime(b) BY DEF Agents, NeverStranded, InTime
<1>3. CASE b # a
  <2>1. seller'[b] = seller[b] BY <1>2, <1>3 DEF Gains
  <2>2. QED BY <1>2, <2>1, LeftInTime
<1>4. CASE b = a
  <2>1. SUFFICES ASSUME seller'[a].active, NEW u \in SeqRange(seller'[a].units),
                        u \notin DOMAIN seller'[a].onSale, u \notin garbled'
                 PROVE  ListingDay(a, u)' >= day
    BY <1>4 DEF InTime, Later
  <2>2. seller[a].units \in Seq(Units) BY <1>2 DEF Typed, SellersTyped, SellerTyped
  <2>3. SeqRange(seller'[a].units) = SeqRange(seller[a].units) \cup {v}
    BY <2>2, AppendRange DEF Gains
  <2>4. CASE u = v BY <2>1, <2>4
  <2>5. CASE u \in SeqRange(seller[a].units)
    <3>1. u \in Units BY <2>2, <2>5, LenProperties, ElementOfSeq DEF SeqRange
    <3>2. u \notin planned BY <1>2, <2>5, HeldNotPlanned
    <3>3. seller[a].active /\ u \notin DOMAIN seller[a].onSale /\ u \notin garbled
      BY <2>1 DEF Gains, Later
    <3>4. ListingDay(a, u) >= day BY <1>2, <1>4, <2>5, <3>3 DEF InTime
    <3>5. day \in Nat /\ entryDay[u] \in Nat /\ entryDay'[u] \in Nat
          /\ (entryDay'[u] = entryDay[u] \/ entryDay'[u] > day)
      BY <3>1, <3>2 DEF Later, Typed, RestTyped
    <3>6. QED BY <3>4, <3>5 DEF ListingDay
  <2>6. QED BY <2>3, <2>4, <2>5
<1>5. QED BY <1>3, <1>4

\* An agent that is updated lists what is due, and takes what has expired off the market
\* until a later day.
LEMMA UpdateSellerInTime ==
  ASSUME Typed, Unplanned, HandedOver, NeverStranded, NEW a \in Sellers, UpdateSeller(a)
  PROVE  HandedOver' /\ NeverStranded'
<1>1. /\ a \in Agents /\ a \in todo /\ todo' = todo \ {a}
      /\ seller'[a].units = Unsold(a) /\ seller'[a].onSale = OnSale(a, market)
      /\ \A b \in Agents \ {a} : seller'[b] = seller[b]
      /\ out' = out \cup SellerMail(a, market) /\ mail' = mail
      /\ entryDay' = NewEntryDay(a, market)
  BY UpdateSellerOutcome
<1>2. seller[a].active /\ UNCHANGED <<day, garbled>> BY DEF UpdateSeller
<1>3. day \in Nat /\ \A u \in Units : entryDay[u] \in Nat BY DEF Typed, RestTyped
<1>4. /\ \A u \in Units : entryDay'[u] \in Nat
      /\ \A u \in Units : IF u \in Expired(a, market) THEN entryDay'[u] > day
                                                     ELSE entryDay'[u] = entryDay[u]
  BY <1>1, EntryDayTyped DEF Typed
<1>5. Later BY <1>2, <1>3, <1>4 DEF Later
<1>6. HandedOver'
  <2>1. \A m \in SellerMail(a, market) : m.kind # "transfer"
    BY DEF SellerMail, Response, Remove, Add
  <2>2. QED BY <1>1, <1>5, <2>1, HandedOverKept
<1>7. NeverStranded'
  <2>1. SUFFICES ASSUME NEW b \in Sellers PROVE InTime(b)'
    BY DEF NeverStranded, InTime
  <2>2. b \in Agents /\ InTime(b) BY DEF Agents, NeverStranded, InTime
  <2>3. CASE b # a
    <3>1. seller'[b] = seller[b] /\ (b \in todo => b \in todo') BY <1>1, <2>2, <2>3
    <3>2. QED BY <1>5, <2>2, <3>1, LeftInTime
  <2>4. CASE b = a
    <3>1. SUFFICES ASSUME NEW u \in SeqRange(Unsold(a)), u \notin DOMAIN OnSale(a, market),
                          u \notin garbled
                   PROVE  ListingDay(a, u)' > day
      BY <1>1, <1>2, <2>4 DEF InTime
    <3>2. /\ u \in SeqRange(seller[a].units) /\ u \notin Sold(a) /\ u \in Units
      BY <1>1, <3>1, UnsoldUnits DEF Typed
    <3>3. u \notin Listed(a, market)
          /\ (u \notin DOMAIN seller[a].onSale \/ u \in Expired(a, market))
      BY <3>1, <3>2 DEF OnSale
    <3>4. entryDay'[u] \in Nat BY <1>4, <3>2
    <3>5. CASE u \in Expired(a, market)
      <4>1. entryDay'[u] > day BY <1>4, <3>2, <3>5
      <4>2. QED BY <1>3, <3>4, <4>1 DEF ListingDay
    <3>6. CASE u \notin Expired(a, market)
      <4>1. u \notin DOMAIN seller[a].onSale /\ entryDay'[u] = entryDay[u]
        BY <1>4, <3>2, <3>3, <3>6
      <4>2. ListingDay(a, u) >= day BY <1>1, <1>2, <2>2, <2>4, <3>1, <3>2, <4>1 DEF InTime
      <4>3. \/ a \in Freelance /\ day # NewEntryDay(a, market)[u]
            \/ a \in Developers /\ day # NewEntryDay(a, market)[u] + 1
        BY <3>1, <3>3, <4>1 DEF Listed
      <4>4. NewEntryDay(a, market)[u] = entryDay[u] BY <1>1, <4>1
      <4>5. a \in Freelance => a \notin Developers BY MarketAssumption
      <4>6. ListingDay(a, u)' = ListingDay(a, u) BY <4>1 DEF ListingDay
      <4>7. ListingDay(a, u) # day BY <4>3, <4>4, <4>5, <1>3, <3>2 DEF ListingDay
      <4>8. ListingDay(a, u) \in Nat BY <1>3, <3>2, ListingDayIs
      <4>9. QED BY <1>3, <4>2, <4>6, <4>7, <4>8
    <3>7. QED BY <3>5, <3>6
  <2>5. QED BY <2>3, <2>4
<1>8. QED BY <1>6, <1>7

\* A household that leaves hands its unit over for a later day.
LEMMA UpdateHouseholdInTime ==
  ASSUME Typed, Unplanned, HandedOver, NeverStranded,
         NEW h \in Households, NEW f \in Freelance, UpdateHousehold(h, f)
  PROVE  HandedOver' /\ NeverStranded'
<1>1. /\ h \in Agents /\ todo' = todo \ {h} /\ mail' = mail
      /\ \A b \in Agents \ {h} : seller'[b] = seller[b]
  BY UpdateHouseholdOutcome
<1>2. PICK B : /\ out' = out \cup SellerMail(h, Opened(h)) \cup LeavingMail(h, f) \cup B
               /\ \A m \in B : m.kind = "bid"
  BY UpdateHouseholdOutcome
<1>3. /\ day' = day /\ entryDay' = EntryDayAfter(h)
      /\ garbled' = garbled \cup
           IF Transfers(h) /\ Len(Unsold(h)) > 1 THEN SeqRange(Unsold(h)) ELSE {}
  BY DEF UpdateHousehold
<1>4. /\ day \in Nat /\ (\A u \in Units : entryDay[u] \in Nat)
      /\ day + 1 \in Nat /\ day + 1 > day
      /\ day + TimeOffMarket \in Nat /\ day + TimeOffMarket > day
  BY MarketAssumption DEF Typed, RestTyped
<1>5. \A u \in Units : entryDay'[u] \in {entryDay[u], day + 1, day + TimeOffMarket}
  BY <1>3 DEF EntryDayAfter
<1>6. Later BY <1>3, <1>4, <1>5 DEF Later
<1>7. Unsold(h) \in Seq(Units) /\ SeqRange(Unsold(h)) \subseteq Units
  BY <1>1, UnsoldUnits DEF Typed
<1>8. HandedOver'
  <2> DEFINE S == SellerMail(h, Opened(h)) \cup LeavingMail(h, f) \cup B
  <2>1. ASSUME NEW m \in S, m.kind = "transfer", m.unit \notin garbled'
        PROVE  entryDay'[m.unit] > day
    <3>1. m \notin SellerMail(h, Opened(h)) /\ m \notin B
      BY <1>2, <2>1 DEF SellerMail, Response, Remove, Add
    <3>2. Promises(m, m.unit) BY <2>1 DEF Promises
    <3>3. Transfers(h) /\ m.unit \in Posted(Unsold(h)) BY <2>1, <3>1, <3>2, LeavingPromises
    <3>4. m.unit \in SeqRange(Unsold(h)) BY <3>3, ErasedPosted
    <3>5. ~ (Len(Unsold(h)) > 1) BY <1>3, <2>1, <3>3, <3>4
    <3>6. m.unit \in Erased(Unsold(h)) BY <1>7, <3>4, <3>5, OneUnitHandedOver
    <3>7. entryDay'[m.unit] \in {day + 1, day + TimeOffMarket}
      <4> DEFINE u == m.unit
      <4>1. u \in Units /\ Transfers(h) /\ u \in Erased(Unsold(h)) BY <1>7, <3>3, <3>4, <3>6
      <4> HIDE DEF u
      <4>2. EntryDayAfter(h)[u] \in {day + 1, day + TimeOffMarket}
        BY ONLY <4>1 DEF EntryDayAfter
      <4>3. QED BY <1>3, <4>2 DEF u
    <3>8. QED BY <1>4, <3>7
  <2>2. out' = out \cup S BY <1>2
  <2> HIDE DEF S
  <2>3. QED BY <1>1, <1>6, <2>1, <2>2, HandedOverKept
<1>9. NeverStranded'
  <2>1. h \notin Sellers BY MarketAssumption
  <2>2. \A a \in Sellers : seller'[a] = seller[a] BY <1>1, <2>1 DEF Agents
  <2>3. {h} \cap Sellers = {} /\ todo \ {h} \subseteq todo' BY <1>1, <2>1
  <2>4. QED BY <1>6, <2>2, <2>3, SellersLeftInTime
<1>10. QED BY <1>8, <1>9

\* A launched unit is listed on the day of its launch.
LEMMA LaunchInTime ==
  ASSUME Typed, Unplanned, HandedOver, NeverStranded,
         NEW d \in Developers, NEW u \in Units, Launch(d, u)
  PROVE  HandedOver' /\ NeverStranded'
<1>1. /\ d \in Agents /\ u \in planned /\ Gains(d, u)
      /\ day \in Nat \ {0} /\ entryDay' = [entryDay EXCEPT ![u] = day - 1]
  BY LaunchOutcome
<1>2. PICK S : out' = out \cup S /\ \A m \in S : m.kind = "event" BY LaunchOutcome
<1>3. d \in todo /\ UNCHANGED <<day, todo, mail, garbled>> BY DEF Launch
<1>4. entryDay \in [Units -> Nat] BY DEF Typed, RestTyped
<1>5. entryDay'[u] = day - 1 /\ \A v \in Units \ {u} : entryDay'[v] = entryDay[v]
  BY <1>1, <1>4
<1>6. Later BY <1>1, <1>3, <1>4, <1>5 DEF Later
<1>7. HandedOver' BY <1>2, <1>3, <1>6, HandedOverKept
<1>8. ListingDay(d, u)' >= day BY <1>1, <1>5 DEF ListingDay
<1>9. d \in Sellers BY DEF Sellers
<1>10. NeverStranded' BY <1>1, <1>3, <1>6, <1>8, <1>9, GainsInTime
<1>11. QED BY <1>7, <1>10

\* A unit that is handed over arrives no later than its day, before the agent is updated.
LEMMA ReceiveTransferInTime ==
  ASSUME IInv, Typed, Unplanned, HandedOver, NeverStranded,
         NEW m \in mail, NEW a, ReceiveTransfer(a, m)
  PROVE  HandedOver' /\ NeverStranded'
<1>1. /\ a \in Freelance /\ a \in Agents /\ m.unit \in Units /\ m.to = a /\ m.kind = "transfer"
      /\ mail' = mail \ {m} /\ (seller' = seller \/ Gains(a, m.unit))
  BY ReceiveTransferOutcome
<1>2. UNCHANGED <<day, todo, entryDay, garbled>> /\ out' = out \cup {} BY DEF ReceiveTransfer
<1>3. Later BY <1>2, SameEntryDays
<1>4. HandedOver'
  <2> DEFINE S == {}
  <2>1. out' = out \cup S BY <1>2
  <2>2. \A n \in S : n.kind = "transfer" /\ n.unit \notin garbled' => entryDay'[n.unit] > day
    OBVIOUS
  <2>3. mail' \subseteq mail BY <1>1
  <2> HIDE DEF S
  <2>4. QED BY <1>2, <1>3, <2>1, <2>2, <2>3, HandedOverKept
<1>5. CASE seller' = seller
  <2>1. {} \cap Sellers = {} /\ todo \ {} \subseteq todo' BY <1>2
  <2>2. QED BY <1>3, <1>4, <1>5, <2>1, SellersLeftInTime
<1>6. CASE Gains(a, m.unit)
  <2>1. a \in todo BY <1>1 DEF IInv, Cleared
  <2>2. a \in Sellers BY <1>1 DEF Sellers
  <2>3. day \in Nat /\ entryDay[m.unit] \in Nat BY <1>1 DEF Typed, RestTyped
  <2>4. ASSUME m.unit \notin garbled' PROVE ListingDay(a, m.unit)' >= day
    <3>1. entryDay[m.unit] >= day BY <1>1, <1>2, <2>4 DEF HandedOver
    <3>2. QED BY <1>2, <2>3, <3>1 DEF ListingDay
  <2>5. NeverStranded' BY <1>1, <1>2, <1>3, <1>6, <2>1, <2>2, <2>4, GainsInTime
  <2>6. QED BY <1>4, <2>5
<1>7. QED BY <1>1, <1>5, <1>6

\* The other steps of a day leave the entry days and what sellers have alone.
LEMMA QuietInTime ==
  ASSUME Typed, Unplanned, HandedOver, NeverStranded,
         UNCHANGED <<day, entryDay, garbled>>, mail' \subseteq mail,
         NEW S, out' = out \cup S, NoPromise(S),
         NEW T, T \cap Sellers = {}, todo \ T \subseteq todo',
         \A a \in Sellers : /\ seller'[a].active => seller[a].active
                            /\ seller'[a].units = seller[a].units
                            /\ seller'[a].onSale = seller[a].onSale
  PROVE  HandedOver' /\ NeverStranded'
<1>1. Later BY SameEntryDays
<1>2. \A m \in S : m.kind # "transfer" BY NoTransfer
<1>3. HandedOver' BY <1>1, <1>2, HandedOverKept
<1>4. NeverStranded' BY <1>1, SellersLeftInTime
<1>5. QED BY <1>3, <1>4

\* A bid changes no list and no entry day.
LEMMA ReceiveBidInTime ==
  ASSUME Typed, Unplanned, HandedOver, NeverStranded, NEW m \in mail, NEW a, ReceiveBid(a, m)
  PROVE  HandedOver' /\ NeverStranded'
<1>1. /\ a \in Agents /\ mail' = mail \ {m}
      /\ \/ out' = out
         \/ \E h \in Households : \E w : w # "ACCEPTED" /\ out' = out \cup {Response(h, m.unit, w)}
      /\ \/ seller' = seller
         \/ \E best : seller' = [seller EXCEPT ![a].maxBid = best]
  BY ReceiveBidOutcome
<1>2. UNCHANGED <<day, todo, entryDay, garbled>> BY DEF ReceiveBid
<1>3. PICK S : out' = out \cup S /\ NoPromise(S)
  <2>1. CASE out' = out
    <3>1. out' = out \cup {} /\ NoPromise({}) BY <2>1 DEF NoPromise
    <3>2. QED BY <3>1
  <2>2. ASSUME NEW h, NEW w, w # "ACCEPTED", out' = out \cup {Response(h, m.unit, w)}
        PROVE  \E S : out' = out \cup S /\ NoPromise(S)
    <3>1. NoPromise({Response(h, m.unit, w)}) BY <2>2 DEF NoPromise, Promises, Response
    <3>2. QED BY <2>2, <3>1
  <2>3. QED BY <1>1, <2>1, <2>2
<1>4. \A b \in Sellers : /\ seller'[b].active => seller[b].active
                         /\ seller'[b].units = seller[b].units
                         /\ seller'[b].onSale = seller[b].onSale
  <2>1. SUFFICES ASSUME NEW best, seller' = [seller EXCEPT ![a].maxBid = best], NEW b \in Sellers
                 PROVE  /\ seller'[b].active => seller[b].active
                        /\ seller'[b].units = seller[b].units
                        /\ seller'[b].onSale = seller[b].onSale
    BY <1>1
  <2>2. SellerTyped(seller[a]) /\ DOMAIN seller = Agents /\ b \in Agents
    BY <1>1 DEF Typed, SellersTyped, Agents
  <2>3. /\ \A c \in Agents \ {a} : seller'[c] = seller[c]
        /\ seller'[a].active = seller[a].active /\ seller'[a].units = seller[a].units
        /\ seller'[a].onSale = seller[a].onSale
    BY ONLY <1>1, <2>1, <2>2 DEF SellerTyped
  <2>4. QED BY <2>2, <2>3
<1>5. {} \cap Sellers = {} /\ todo \ {} \subseteq todo' /\ mail' \subseteq mail BY <1>1, <1>2
<1>6. QED BY <1>2, <1>3, <1>4, <1>5, QuietInTime

\* The day ends when all are updated, so that what is not due yet is due on the next
\* day at the earliest.
LEMMA DistributeInTime ==
  ASSUME Typed, HandedOver, NeverStranded, Distribute PROVE HandedOver' /\ NeverStranded'
<1>1. /\ todo = {} /\ todo' = Agents \cup {Injector} /\ out' = {} /\ mail' \subseteq out
      /\ day' = day + 1 /\ UNCHANGED <<seller, entryDay, garbled>>
  BY DistributeOutcome
<1>2. day \in Nat /\ \A u \in Units : entryDay[u] \in Nat BY DEF Typed, RestTyped
<1>3. ASSUME NEW m \in mail', m.kind = "transfer", m.unit \notin garbled'
      PROVE  entryDay'[m.unit] >= day'
  <2>1. m \in out /\ entryDay[m.unit] > day BY <1>1, <1>3 DEF HandedOver
  <2>2. m.unit \in Units BY <1>3, <2>1 DEF Typed, MailTyped, Sensible
  <2>3. QED BY <1>1, <1>2, <2>1, <2>2
<1>4. HandedOver' BY <1>1, <1>3 DEF HandedOver
<1>5. ASSUME NEW a \in Sellers, InTime(a) PROVE InTime(a)'
  <2>1. SUFFICES ASSUME seller[a].active, NEW u \in SeqRange(seller[a].units),
                        u \notin DOMAIN seller[a].onSale, u \notin garbled
                 PROVE  ListingDay(a, u)' >= day'
    BY <1>1 DEF InTime, Agents
  <2>2. ListingDay(a, u) > day BY <1>1, <1>5, <2>1 DEF InTime
  <2>3. seller[a].units \in Seq(Units) BY DEF Typed, SellersTyped, SellerTyped, Agents
  <2>4. u \in Units BY <2>1, <2>3, LenProperties, ElementOfSeq DEF SeqRange
  <2>5. ListingDay(a, u)' = ListingDay(a, u) BY <1>1 DEF ListingDay
  <2>6. ListingDay(a, u) \in Nat BY <1>2, <2>4, ListingDayIs
  <2>7. QED BY <1>1, <1>2, <2>2, <2>5, <2>6
<1>6. NeverStranded' BY <1>5 DEF NeverStranded, InTime
<1>7. QED BY <1>4, <1>6

\* Entry days of the input data begin on the first day at the earliest.
LEMMA InitInTime == ASSUME Init PROVE HandedOver /\ NeverStranded
<1>1. Typed BY InitTyped
<1>2. mail = {} /\ out = {} /\ day = 0 /\ todo = Agents \cup {Injector} BY DEF Init
<1>3. ASSUME NEW a \in Sellers, NEW u \in SeqRange(seller[a].units) PROVE ListingDay(a, u) >= day
  <2>1. seller[a].units \in Seq(Units) BY <1>1 DEF Typed, SellersTyped, SellerTyped, Agents
  <2>2. u \in Units BY <1>3, <2>1, LenProperties, ElementOfSeq DEF SeqRange
  <2>3. ListingDay(a, u) \in Nat BY <1>1, <2>2, ListingDayIs DEF Typed, RestTyped
  <2>4. QED BY <1>2, <2>3
<1>4. QED BY <1>2, <1>3 DEF HandedOver, NeverStranded, Agents

\* Every step keeps the units in time.
LEMMA StepInTime ==
  ASSUME IInv, Typed, Unplanned, HandedOver, NeverStranded, [Next]_vars
  PROVE  HandedOver' /\ NeverStranded'
<1>1. ASSUME NEW m \in mail, NEW a, ReceiveBid(a, m) PROVE HandedOver' /\ NeverStranded'
  BY <1>1, ReceiveBidInTime
<1>2. ASSUME NEW m \in mail, NEW a, ReceiveTransfer(a, m) PROVE HandedOver' /\ NeverStranded'
  BY <1>2, ReceiveTransferInTime
<1>3. ASSUME UNCHANGED <<day, entryDay, garbled, seller>>, mail' \subseteq mail,
             NEW S, out' = out \cup S, NoPromise(S), NEW T, T \cap Sellers = {}, todo \ T \subseteq todo'
      PROVE  HandedOver' /\ NeverStranded'
  BY <1>3, QuietInTime
<1>4. NoPromise({}) /\ out = out \cup {} /\ {} \cap Sellers = {} /\ todo \ {} = todo BY DEF NoPromise
<1>5. ASSUME NEW m \in mail, NEW a, ReceiveResponse(a, m) \/ ReceiveEvent(a, m)
      PROVE  HandedOver' /\ NeverStranded'
  <2>1. UNCHANGED <<day, todo, out, entryDay, garbled, seller>> /\ mail' \subseteq mail
    BY <1>5 DEF ReceiveResponse, ReceiveEvent, Handle
  <2>2. out' = out \cup {} /\ todo \ {} \subseteq todo' BY <2>1
  <2>3. QED BY <1>3, <1>4, <2>1, <2>2
<1>6. ASSUME NEW d \in Developers, NEW u \in Units, Launch(d, u) PROVE HandedOver' /\ NeverStranded'
  BY <1>6, LaunchInTime
<1>7. ASSUME NEW a \in Sellers, UpdateSeller(a) PROVE HandedOver' /\ NeverStranded'
  BY <1>7, UpdateSellerInTime
<1>8. ASSUME NEW h \in Households, NEW f \in Freelance, UpdateHousehold(h, f)
      PROVE  HandedOver' /\ NeverStranded'
  BY <1>8, UpdateHouseholdInTime
<1>9. ASSUME NEW a \in Agents, UpdateIdle(a) PROVE HandedOver' /\ NeverStranded'
  <2>1. UNCHANGED <<day, mail, out, entryDay, garbled, seller>> BY <1>9 DEF UpdateIdle
  <2>2. todo' = todo \ {a} BY <1>9 DEF UpdateIdle, Enter
  <2>3. Later BY <2>1, SameEntryDays
  <2>4. HandedOver' BY <2>1 DEF HandedOver
  <2>5. NeverStranded'
    <3>1. SUFFICES ASSUME NEW b \in Sellers PROVE InTime(b)'
      BY DEF NeverStranded, InTime
    <3>2. b \in Agents /\ InTime(b) BY DEF Agents, NeverStranded, InTime
    <3>3. CASE b # a
      <4>1. b \in todo => b \in todo' BY <2>2, <3>3
      <4>2. QED BY <2>1, <2>3, <3>2, <4>1, LeftInTime
    <3>4. CASE b = a
      <4>1. b \notin Households BY MarketAssumption
      <4>2. ~ seller[b].active BY <1>9, <3>4, <4>1 DEF UpdateIdle
      <4>3. QED BY <2>1, <4>2 DEF InTime
    <3>5. QED BY <3>3, <3>4
  <2>6. QED BY <2>4, <2>5
<1>10. ASSUME NEW h \in Households, Awaken(h) PROVE HandedOver' /\ NeverStranded'
  <2>1. UNCHANGED <<day, todo, mail, entryDay, garbled, seller>> /\ out' = out \cup {Event(h, "job")}
    BY <1>10 DEF Awaken
  <2>2. NoPromise({Event(h, "job")}) BY DEF NoPromise, Promises, Event
  <2>3. todo \ {} \subseteq todo' /\ mail' \subseteq mail BY <2>1
  <2>4. QED BY <1>3, <1>4, <2>1, <2>2, <2>3
<1>11. CASE UpdateInjector
  <2>1. UNCHANGED <<day, mail, out, entryDay, garbled, seller>> /\ todo' = todo \ {Injector}
    BY <1>11 DEF UpdateInjector
  <2>2. {Injector} \cap Sellers = {} BY MarketAssumption DEF Agents
  <2>3. out' = out \cup {} /\ mail' \subseteq mail /\ todo \ {Injector} \subseteq todo' BY <2>1
  <2>4. QED BY <1>3, <1>4, <2>1, <2>2, <2>3
<1>12. CASE Distribute BY <1>12, DistributeInTime
<1>13. CASE UNCHANGED vars
  <2>1. UNCHANGED <<day, todo, mail, out, entryDay, garbled, seller>> BY <1>13 DEF vars
  <2>2. out' = out \cup {} /\ mail' \subseteq mail /\ todo \ {} \subseteq todo' BY <2>1
  <2>3. QED BY <1>3, <1>4, <2>1, <2>2
<1>14. QED
  BY <1>1, <1>2, <1>5, <1>6, <1>7, <1>8, <1>9, <1>10, <1>11, <1>12, <1>13 DEF Next

\* No unit of an active freelance or real-estate agent ever misses the day on which it
\* is to be listed, although the agents compare that day with the current one for
\* equality: whatever the delays, each unit arrives, expires or is launched early enough
\* (but for several units transferred at once).
THEOREM NeverStrandedAlways == Spec => []NeverStranded
<1>1. Init => IInv /\ Typed /\ Unplanned /\ HandedOver /\ NeverStranded
  BY InitInv, InitTyped, InitClaims, InitInTime
<1>2. IInv /\ Typed /\ Unplanned /\ HandedOver /\ NeverStranded /\ [Next]_vars
      => IInv' /\ Typed' /\ Unplanned' /\ HandedOver' /\ NeverStranded'
  BY StepInv, StepTyped, StepConserves, ConservedClaims, StepInTime
<1>3. QED BY <1>1, <1>2, PTL DEF Spec

-----------------------------------------------------------------------------
(* Titles. *)

\* The title that a claim is.
TitleFrom(c) == [is |-> Written(c)[1], by |-> Written(c)[2]]

\* What UnitTitle lets a title become in a step.
Onward(s, t) ==
  \/ t = s \/ Title!Launch(s, t) \/ Title!Sell(s, t) \/ Title!MoveIn(s, t) \/ Title!Leave(s, t)
  \/ Title!Take(s, t) \/ Title!Muddle(s, t) \/ Title!Lose(s, t)

\* A household does not sell to itself: as no bid is sent to its bidder, none is kept.
NoOwnBids ==
  \A h \in Households : \A u \in DOMAIN seller[h].maxBid : seller[h].maxBid[u].bidder # h

\* How each claim is written.
LEMMA TitlesFromClaims ==
  /\ \A a, i : TitleFrom(<<"held", a, i>>) = [is |-> "held", by |-> a]
  /\ \A h : TitleFrom(<<"waits", h, 0>>) = [is |-> "promised", by |-> h]
  /\ \A m : \A p \in {"mail", "out"} :
       /\ m.kind = "response" => TitleFrom(<<p, m, 0>>) = [is |-> "promised", by |-> m.to]
       /\ m.kind = "transfer" => TitleFrom(<<p, m, 0>>) = [is |-> "moving", by |-> m.to]
<1>1. \A a, i : Written(<<"held", a, i>>) = <<"held", a, i>> BY DEF Written
<1>2. \A h : Written(<<"waits", h, 0>>) = <<"promised", h>> BY DEF Written
<1>3. ASSUME NEW m, NEW p \in {"mail", "out"}
      PROVE  /\ m.kind = "response" => Written(<<p, m, 0>>) = <<"promised", m.to>>
             /\ m.kind = "transfer" => Written(<<p, m, 0>>) = <<"moving", m.to>>
  BY DEF Written
<1>4. QED BY <1>1, <1>2, <1>3 DEF TitleFrom

\* A claim of this module is one of HousingMarketInv.
LEMMA WrittenClaims == ASSUME NEW u, NEW c, HasClaim(u, c) PROVE Written(c) \in Claims(u)
<1> DEFINE held == UNION {{<<"held", a, i>> : i \in {i \in DOMAIN seller[a].units : seller[a].units[i] = u}}
                          : a \in Agents}
           sent == {<<"promised", m.to>> : m \in {m \in mail \cup out : m.kind = "response"
                                                   /\ m.unit = u /\ m.response = "ACCEPTED"}}
           waiting == {<<"promised", h>> : h \in {h \in Households : household[h].moveIn > 0
                                                   /\ household[h].toBeOwned = u}}
           moving == {<<"moving", m.to>> : m \in {m \in mail \cup out : m.kind = "transfer" /\ m.unit = u}}
<1>1. Claims(u) = held \cup sent \cup waiting \cup moving BY DEF Claims
<1>2. CASE IsHeld(u, c)
  <2>1. PICK a \in Agents : \E i \in DOMAIN seller[a].units :
          seller[a].units[i] = u /\ c = <<"held", a, i>>
    BY <1>2 DEF IsHeld
  <2>2. PICK i \in DOMAIN seller[a].units : seller[a].units[i] = u /\ c = <<"held", a, i>> BY <2>1
  <2>3. Written(c) = <<"held", a, i>> BY <2>2 DEF Written
  <2>4. Written(c) \in held BY ONLY <2>2, <2>3
  <2>5. QED BY <1>1, <2>4
<1>3. CASE IsWaited(u, c)
  <2>1. PICK h \in Households :
          household[h].moveIn > 0 /\ household[h].toBeOwned = u /\ c = <<"waits", h, 0>>
    BY <1>3 DEF IsWaited
  <2>2. Written(c) = <<"promised", h>> BY <2>1 DEF Written
  <2>3. Written(c) \in waiting BY ONLY <2>1, <2>2
  <2>4. QED BY <1>1, <2>3
<1>4. CASE IsMailed(u, c) \/ IsPosted(u, c)
  <2>1. PICK m \in mail \cup out : Promises(m, u) /\ (c = <<"mail", m, 0>> \/ c = <<"out", m, 0>>)
    BY <1>4 DEF IsMailed, IsPosted
  <2>2. Written(c) = IF m.kind = "response" THEN <<"promised", m.to>> ELSE <<"moving", m.to>>
    BY <2>1 DEF Written
  <2>3. CASE m.kind = "response"
    <3>1. m.unit = u /\ m.response = "ACCEPTED" BY <2>1, <2>3 DEF Promises
    <3>2. Written(c) \in sent BY ONLY <2>2, <2>3, <3>1
    <3>3. QED BY <1>1, <3>2
  <2>4. CASE m.kind # "response"
    <3>1. m.unit = u /\ m.kind = "transfer" BY <2>1, <2>4 DEF Promises
    <3>2. Written(c) \in moving BY ONLY <2>2, <2>4, <3>1
    <3>3. QED BY <1>1, <3>2
  <2>5. QED BY <2>3, <2>4
<1>5. QED BY <1>2, <1>3, <1>4 DEF HasClaim

\* What a claim is written as.
LEMMA ClaimKinds ==
  ASSUME NEW u, NEW c, HasClaim(u, c)
  PROVE  /\ IsHeld(u, c) => TitleFrom(c).is = "held" /\ TitleFrom(c).by \in Agents
         /\ ~ IsHeld(u, c) => TitleFrom(c).is \in {"promised", "moving"}
         /\ Typed => TitleFrom(c) \in Title!Titles
<1>1. CASE IsHeld(u, c)
  <2>1. PICK a \in Agents : \E i : c = <<"held", a, i>> BY <1>1 DEF IsHeld
  <2>2. TitleFrom(c) = [is |-> "held", by |-> a] BY <2>1, TitlesFromClaims
  <2>3. QED BY <1>1, <2>2 DEF Title!Titles, Agents, Sellers
<1>2. CASE IsWaited(u, c)
  <2>1. PICK h \in Households : c = <<"waits", h, 0>> BY <1>2 DEF IsWaited
  <2>2. TitleFrom(c) = [is |-> "promised", by |-> h] BY <2>1, TitlesFromClaims
  <2>3. ~ IsHeld(u, c) BY <2>1 DEF IsHeld
  <2>4. QED BY <2>2, <2>3 DEF Title!Titles
<1>3. CASE IsMailed(u, c) \/ IsPosted(u, c)
  <2>1. PICK m \in mail \cup out, p \in {"mail", "out"} : Promises(m, u) /\ c = <<p, m, 0>>
    BY <1>3 DEF IsMailed, IsPosted
  <2>2. ~ IsHeld(u, c) BY <2>1 DEF IsHeld
  <2>3. CASE m.kind = "response"
    <3>1. TitleFrom(c) = [is |-> "promised", by |-> m.to] BY <2>1, <2>3, TitlesFromClaims
    <3>2. Typed => m.to \in Households BY <2>1, <2>3 DEF Typed, MailTyped, Sensible
    <3>3. QED BY <2>2, <3>1, <3>2 DEF Title!Titles
  <2>4. CASE m.kind = "transfer"
    <3>1. TitleFrom(c) = [is |-> "moving", by |-> m.to] BY <2>1, <2>4, TitlesFromClaims
    <3>2. Typed => m.to \in Freelance BY <2>1, <2>4 DEF Typed, MailTyped, Sensible
    <3>3. QED BY <2>2, <3>1, <3>2 DEF Title!Titles
  <2>5. QED BY <2>1, <2>3, <2>4 DEF Promises
<1>4. QED BY <1>1, <1>2, <1>3 DEF HasClaim

\* The title of a unit is its claim, if it has just one, and it is lost without any.
TitlesRight ==
  \A u \in Units :
    /\ u \in garbled => TitleOf(u) = [is |-> "muddled", by |-> "none"]
    /\ u \notin garbled /\ u \in planned => TitleOf(u) = [is |-> "planned", by |-> "none"]
    /\ u \notin garbled /\ u \notin planned =>
         /\ NoClaim(u) => TitleOf(u) = [is |-> "lost", by |-> "none"]
         /\ Sole(u) => \A c : HasClaim(u, c) => TitleOf(u) = TitleFrom(c)

\* This holds in every state.
LEMMA TitlesAre == TitlesRight
<1> SUFFICES ASSUME NEW u \in Units, u \notin garbled, u \notin planned
             PROVE  /\ NoClaim(u) => TitleOf(u) = [is |-> "lost", by |-> "none"]
                    /\ Sole(u) => \A c : HasClaim(u, c) => TitleOf(u) = TitleFrom(c)
  BY DEF TitlesRight, TitleOf
<1> DEFINE of(kind) == {x[2] : x \in {x \in Claims(u) : x[1] = kind}}
<1>1. TitleOf(u) =
        IF of("held") # {} THEN [is |-> "held", by |-> CHOOSE a \in of("held") : TRUE]
        ELSE IF of("promised") # {}
        THEN [is |-> "promised", by |-> CHOOSE h \in of("promised") : TRUE]
        ELSE IF of("moving") # {} THEN [is |-> "moving", by |-> CHOOSE f \in of("moving") : TRUE]
        ELSE [is |-> "lost", by |-> "none"]
  BY DEF TitleOf
<1>2. ASSUME NoClaim(u) PROVE TitleOf(u) = [is |-> "lost", by |-> "none"]
  <2>1. Claims(u) = {} BY <1>2, ClaimsWritten DEF NoClaim
  <2>2. \A kind : of(kind) = {} BY <2>1
  <2> HIDE DEF of
  <2>3. QED BY <1>1, <2>2
<1>3. ASSUME Sole(u), NEW c, HasClaim(u, c) PROVE TitleOf(u) = TitleFrom(c)
  <2>1. Claims(u) = {Written(c)}
    <3>1. \A x \in Claims(u) : x = Written(c) BY <1>3, ClaimsWritten DEF Sole, Only
    <3>2. QED BY <1>3, <3>1, WrittenClaims
  <2>2. \A kind : of(kind) = IF Written(c)[1] = kind THEN {Written(c)[2]} ELSE {} BY <2>1
  <2>3. Written(c)[1] \in {"held", "promised", "moving"}
    BY <1>3, ClaimKinds DEF TitleFrom
  <2> HIDE DEF of
  <2>4. \A x : (CHOOSE y \in {x} : TRUE) = x OBVIOUS
  <2>5. QED BY <1>1, <2>2, <2>3, <2>4 DEF TitleFrom
<1>4. QED BY <1>2, <1>3

\* And in the next one.
LEMMA TitlesStay == TitlesRight'
BY TitlesAre, PTL

\* What a step does with the claims to a unit: each comes from one that the title may go on
\* from, and what is held does not vanish.
Traced(u) ==
  /\ \A d : HasClaim(u, d)' => \E c : HasClaim(u, c) /\ Onward(TitleFrom(c), TitleFrom(d))
  /\ \A c : IsHeld(u, c) => ~ NoClaim(u)'

\* Then the title goes on.
LEMMA TracedOn ==
  ASSUME NEW u \in Units, u \notin planned, u \notin planned', u \notin garbled, u \notin garbled',
         Sole(u), Sole(u)', Traced(u)
  PROVE  Onward(TitleOf(u), TitleOf(u)')
<1>1. /\ NoClaim(u) => TitleOf(u) = [is |-> "lost", by |-> "none"]
      /\ \A c : HasClaim(u, c) => TitleOf(u) = TitleFrom(c)
  BY TitlesAre DEF TitlesRight
<1>2. /\ NoClaim(u)' => TitleOf(u)' = [is |-> "lost", by |-> "none"]
      /\ \A d : HasClaim(u, d)' => TitleOf(u)' = TitleFrom(d)
  BY TitlesStay DEF TitlesRight
<1>3. ASSUME NEW d, HasClaim(u, d)' PROVE Onward(TitleOf(u), TitleOf(u)')
  <2>1. PICK c : HasClaim(u, c) /\ Onward(TitleFrom(c), TitleFrom(d)) BY <1>3 DEF Traced
  <2>2. QED BY <1>1, <1>2, <1>3, <2>1
<1>4. CASE NoClaim(u)'
  <2>1. CASE NoClaim(u) BY <1>1, <1>2, <1>4, <2>1 DEF Onward
  <2>2. ASSUME NEW c, HasClaim(u, c) PROVE Onward(TitleOf(u), TitleOf(u)')
    <3>1. ~ IsHeld(u, c) BY <1>4 DEF Traced
    <3>2. TitleFrom(c).is \in {"promised", "moving"} BY <2>2, <3>1, ClaimKinds
    <3>3. Title!Lose(TitleOf(u), TitleOf(u)') BY <1>1, <1>2, <1>4, <2>2, <3>2 DEF Title!Lose
    <3>4. QED BY <3>3 DEF Onward
  <2>3. QED BY <2>1, <2>2 DEF NoClaim
<1>5. QED BY <1>3, <1>4 DEF NoClaim

\* What is in a list that keeps it is still held.
LEMMA HeldLeft ==
  ASSUME NEW u, \A a \in Agents : u \in SeqRange(seller[a].units) => u \in SeqRange(seller'[a].units),
         NEW c, IsHeld(u, c)
  PROVE  ~ NoClaim(u)'
<1>1. PICK a \in Agents : \E i \in DOMAIN seller[a].units : seller[a].units[i] = u BY DEF IsHeld
<1>2. u \in SeqRange(seller'[a].units) BY <1>1 DEF SeqRange
<1>3. PICK i \in DOMAIN seller'[a].units : seller'[a].units[i] = u BY <1>2 DEF SeqRange
<1>4. HasClaim(u, <<"held", a, i>>)' BY <1>3 DEF HasClaim, IsHeld
<1>5. QED BY <1>4 DEF NoClaim

\* A step that adds no claim, and leaves the lists alone, traces every unit.
LEMMA QuietTraced ==
  ASSUME \A u : Fewer(u), SameHeld PROVE \A u : Traced(u)
<1> SUFFICES ASSUME NEW u PROVE Traced(u)
  OBVIOUS
<1>1. \A d : HasClaim(u, d)' => HasClaim(u, d) BY DEF Fewer
<1>2. \A d : Onward(TitleFrom(d), TitleFrom(d)) BY DEF Onward
<1>3. \A c : IsHeld(u, c) => ~ NoClaim(u)' BY HeldLeft DEF SameHeld
<1>4. QED BY <1>1, <1>2, <1>3 DEF Traced

\* A response passes the promise on to its household, which may drop another.
LEMMA ReceiveResponseTitles ==
  ASSUME Typed, NEW m \in mail, NEW h, ReceiveResponse(h, m) PROVE \A u : Traced(u)
<1> SUFFICES ASSUME NEW u PROVE Traced(u)
  OBVIOUS
<1>1. PICK s : /\ household' = [household EXCEPT ![h] = s]
               /\ h \in Households =>
                    \/ s.moveIn = household[h].moveIn /\ s.toBeOwned = household[h].toBeOwned
                    \/ m.response = "ACCEPTED" /\ s.toBeOwned = m.unit
  BY ReceiveResponseOutcome
<1>2. m.to = h /\ m.kind = "response" /\ mail' \subseteq mail /\ seller' = seller /\ out' = out \cup {}
  BY DEF ReceiveResponse, Handle
<1>3. SameHeld /\ NoPromise({}) BY <1>2 DEF SameHeld, NoPromise
<1>4. DOMAIN household = Households BY DEF Typed, HouseholdsTyped
<1>5. ASSUME NEW d, IsWaited(u, d)'
      PROVE  \/ IsWaited(u, d)
             \/ HasClaim(u, <<"mail", m, 0>>) /\ d = <<"waits", h, 0>>
  <2>1. PICK g \in Households :
          household'[g].moveIn > 0 /\ household'[g].toBeOwned = u /\ d = <<"waits", g, 0>>
    BY <1>5 DEF IsWaited
  <2>2. CASE household'[g].moveIn = household[g].moveIn /\ household'[g].toBeOwned = household[g].toBeOwned
    BY <2>1, <2>2 DEF IsWaited
  <2>3. CASE g = h /\ m.response = "ACCEPTED" /\ m.unit = u
    <3>1. HasClaim(u, <<"mail", m, 0>>) BY <1>2, <2>3 DEF HasClaim, IsMailed, Promises
    <3>2. QED BY <2>1, <2>3, <3>1
  <2>4. QED BY <1>1, <1>4, <2>1, <2>2, <2>3
<1>6. ASSUME NEW d, HasClaim(u, d)'
      PROVE  \E c : HasClaim(u, c) /\ Onward(TitleFrom(c), TitleFrom(d))
  <2>1. CASE HasClaim(u, d) BY <2>1 DEF Onward
  <2>2. CASE HasClaim(u, <<"mail", m, 0>>) /\ d = <<"waits", h, 0>>
    <3>1. TitleFrom(<<"mail", m, 0>>) = TitleFrom(d) BY <1>2, <2>2, TitlesFromClaims
    <3>2. QED BY <2>2, <3>1 DEF Onward
  <2>3. QED BY <1>2, <1>3, <1>5, <1>6, <2>1, <2>2, HeldSame, MailedFewer, PostedFewer DEF HasClaim
<1>7. \A c : IsHeld(u, c) => ~ NoClaim(u)' BY <1>3, HeldLeft DEF SameHeld
<1>8. QED BY <1>6, <1>7 DEF Traced

\* An agent that gains a unit loses none.
LEMMA GainsLeft ==
  ASSUME SellersTyped, NEW a \in Agents, NEW v \in Units, Gains(a, v), NEW u, NEW c, IsHeld(u, c)
  PROVE  ~ NoClaim(u)'
<1>1. seller[a].units \in Seq(Units) BY DEF SellersTyped, SellerTyped
<1>2. SeqRange(seller'[a].units) = SeqRange(seller[a].units) \cup {v}
  BY <1>1, AppendRange DEF Gains
<1>3. \A b \in Agents : u \in SeqRange(seller[b].units) => u \in SeqRange(seller'[b].units)
  BY <1>2 DEF Gains
<1>4. QED BY <1>3, HeldLeft

\* A transfer ends with the freelance agent it was for, or loses the unit.
LEMMA ReceiveTransferTitles ==
  ASSUME Typed, NEW m \in mail, NEW a, ReceiveTransfer(a, m) PROVE \A u : Traced(u)
<1>1. /\ a \in Agents /\ m.unit \in Units /\ m.to = a /\ m.kind = "transfer" /\ mail' = mail \ {m}
      /\ seller' = seller \/ Gains(a, m.unit)
  BY ReceiveTransferOutcome
<1>2. household' = household /\ out' = out \cup {} BY DEF ReceiveTransfer
<1>3. NoMoreWaits /\ NoPromise({}) BY <1>2 DEF NoMoreWaits, NoPromise
<1>4. CASE seller' = seller
  <2>1. SameHeld BY <1>4 DEF SameHeld
  <2>2. QED BY <1>1, <1>2, <1>3, <2>1, QuietClaims, QuietTraced
<1>5. ASSUME Gains(a, m.unit), NEW u PROVE Traced(u)
  <2> DEFINE k == <<"held", a, Len(seller[a].units) + 1>>
  <2>1. ASSUME NEW d, HasClaim(u, d)' PROVE HasClaim(u, d) \/ (u = m.unit /\ d = k)
    BY <1>1, <1>2, <1>3, <1>5, <2>1, GainsHeld, MailedFewer, PostedFewer, WaitedFewer
       DEF HasClaim, Typed
  <2>2. ASSUME u = m.unit
        PROVE  HasClaim(u, <<"mail", m, 0>>) /\ Onward(TitleFrom(<<"mail", m, 0>>), TitleFrom(k))
    <3>1. HasClaim(u, <<"mail", m, 0>>) BY <1>1, <2>2 DEF HasClaim, IsMailed, Promises
    <3>2. /\ TitleFrom(<<"mail", m, 0>>) = [is |-> "moving", by |-> a]
          /\ TitleFrom(k) = [is |-> "held", by |-> a]
      BY <1>1, TitlesFromClaims
    <3>3. QED BY <3>1, <3>2 DEF Onward, Title!Take
  <2> HIDE DEF k
  <2>3. \A d : Onward(TitleFrom(d), TitleFrom(d)) BY DEF Onward
  <2>4. \A c : IsHeld(u, c) => ~ NoClaim(u)' BY <1>1, <1>5, GainsLeft DEF Typed
  <2>5. QED BY <2>1, <2>2, <2>3, <2>4 DEF Traced
<1>6. QED BY <1>1, <1>4, <1>5

\* A launch leaves all other units alone.
LEMMA LaunchTitles ==
  ASSUME Typed, NEW d \in Developers, NEW v \in Units, Launch(d, v), NEW u, u # v PROVE Traced(u)
<1>1. d \in Agents /\ Gains(d, v) BY LaunchOutcome
<1>2. PICK S : out' = out \cup S /\ \A m \in S : m.kind = "event" BY LaunchOutcome
<1>3. NoPromise(S) BY <1>2 DEF NoPromise, Promises
<1>4. mail' \subseteq mail /\ household' = household BY DEF Launch
<1>5. NoMoreWaits BY <1>4 DEF NoMoreWaits
<1>6. \A c : HasClaim(u, c)' => HasClaim(u, c)
  BY <1>1, <1>2, <1>3, <1>4, <1>5, GainsHeld, MailedFewer, PostedFewer, WaitedFewer
     DEF HasClaim, Typed
<1>7. \A c : IsHeld(u, c) => ~ NoClaim(u)' BY <1>1, GainsLeft DEF Typed
<1>8. \A c : Onward(TitleFrom(c), TitleFrom(c)) BY DEF Onward
<1>9. QED BY <1>6, <1>7, <1>8 DEF Traced

\* A unit of a list has a claim.
LEMMA ListedClaim ==
  ASSUME NEW a \in Agents, NEW u \in SeqRange(seller[a].units)
  PROVE  \E c : HasClaim(u, c) /\ TitleFrom(c) = [is |-> "held", by |-> a]
<1>1. PICK i \in DOMAIN seller[a].units : seller[a].units[i] = u BY DEF SeqRange
<1>2. HasClaim(u, <<"held", a, i>>) BY <1>1 DEF HasClaim, IsHeld
<1>3. QED BY <1>2, TitlesFromClaims

\* A bid that is accepted becomes a promise.
LEMMA AcceptedClaim ==
  ASSUME NEW a, NEW k, SellerMail(a, k) \subseteq out', NEW u \in Sold(a)
  PROVE  ~ NoClaim(u)'
<1>1. PICK m \in out' : m = Response(seller[a].maxBid[u].bidder, u, "ACCEPTED")
  BY DEF SellerMail
<1>2. Promises(m, u) BY <1>1 DEF Promises, Response
<1>3. HasClaim(u, <<"out", m, 0>>)' BY <1>2 DEF HasClaim, IsPosted
<1>4. QED BY <1>3 DEF NoClaim

\* What a seller sells it held, and promises to somebody else.
LEMMA SoldOnward ==
  ASSUME SellersTyped, NEW a \in Agents, a \in Households => NoOwnBids, NEW u \in Sold(a)
  PROVE  \E c : /\ HasClaim(u, c)
                /\ Onward(TitleFrom(c),
                     TitleFrom(<<"out", Response(seller[a].maxBid[u].bidder, u, "ACCEPTED"), 0>>))
<1> DEFINE b == seller[a].maxBid[u].bidder
<1>1. u \in DOMAIN seller[a].maxBid /\ u \in SeqRange(seller[a].units) BY UnsoldUnits
<1>2. b \in Households BY <1>1 DEF SellersTyped, SellerTyped
<1>3. b # a BY <1>1, <1>2 DEF NoOwnBids
<1> HIDE DEF b
<1>4. TitleFrom(<<"out", Response(b, u, "ACCEPTED"), 0>>) = [is |-> "promised", by |-> b]
  <2>1. Response(b, u, "ACCEPTED").kind = "response" /\ Response(b, u, "ACCEPTED").to = b
    BY DEF Response
  <2>2. QED BY <2>1, TitlesFromClaims
<1>5. PICK c : HasClaim(u, c) /\ TitleFrom(c) = [is |-> "held", by |-> a] BY <1>1, ListedClaim
<1>6. Onward([is |-> "held", by |-> a], [is |-> "promised", by |-> b])
  BY <1>3 DEF Onward, Title!Sell
<1>7. QED BY <1>4, <1>5, <1>6 DEF b

\* A seller's update: what is sold is promised, what is not stays.
LEMMA UpdateSellerTitles ==
  ASSUME Typed, NEW a \in Sellers, UpdateSeller(a) PROVE \A u : Traced(u)
<1>1. /\ a \in Agents /\ SameWaits /\ seller'[a].units = Unsold(a)
      /\ \A b \in Agents \ {a} : seller'[b] = seller[b]
      /\ out' = out \cup SellerMail(a, market) /\ mail' = mail
  BY UpdateSellerOutcome
<1>2. a \notin Households BY MarketAssumption
<1>3. /\ Sold(a) \subseteq SeqRange(seller[a].units)
      /\ SeqRange(Unsold(a)) = SeqRange(seller[a].units) \ Sold(a)
  BY <1>1, UnsoldUnits DEF Typed
<1>4. NoMoreWaits BY <1>1 DEF SameWaits, NoMoreWaits
<1>5. ASSUME NEW u, NEW d, HasClaim(u, d)'
      PROVE  \E c : HasClaim(u, c) /\ Onward(TitleFrom(c), TitleFrom(d))
  <2>1. CASE HasClaim(u, d) BY <2>1 DEF Onward
  <2>2. CASE IsHeld(u, d)' /\ ~ HasClaim(u, d)
    <3>1. PICK b \in Agents : \E i \in DOMAIN seller'[b].units :
            seller'[b].units[i] = u /\ d = <<"held", b, i>>
      BY <2>2 DEF IsHeld
    <3>2. b = a BY <1>1, <2>2, <3>1 DEF HasClaim, IsHeld
    <3>3. u \in SeqRange(seller[a].units) BY <1>1, <1>3, <3>1, <3>2 DEF SeqRange
    <3>4. TitleFrom(d) = [is |-> "held", by |-> a] BY <3>1, <3>2, TitlesFromClaims
    <3>5. QED BY <1>1, <3>3, <3>4, ListedClaim DEF Onward
  <2>3. CASE IsPosted(u, d)' /\ ~ HasClaim(u, d)
    <3>1. PICK m \in SellerMail(a, market) : Promises(m, u) /\ d = <<"out", m, 0>>
      BY <1>1, <2>3 DEF HasClaim, IsPosted
    <3>2. u \in Sold(a) /\ m = Response(seller[a].maxBid[u].bidder, u, "ACCEPTED")
      BY <3>1, SellerPromises
    <3>3. QED BY <1>1, <1>2, <3>1, <3>2, SoldOnward DEF Typed
  <2>4. QED BY <1>1, <1>4, <1>5, <2>1, <2>2, <2>3, MailedFewer, WaitedFewer DEF HasClaim
<1>6. ASSUME NEW u, NEW c, IsHeld(u, c) PROVE ~ NoClaim(u)'
  <2>1. CASE u \in Sold(a) BY <1>1, <2>1, AcceptedClaim
  <2>2. CASE u \notin Sold(a)
    <3>1. \A b \in Agents : u \in SeqRange(seller[b].units) => u \in SeqRange(seller'[b].units)
      BY <1>1, <1>3, <2>2
    <3>2. QED BY <1>6, <3>1, HeldLeft
  <2>3. QED BY <2>1, <2>2
<1>7. QED BY <1>5, <1>6 DEF Traced

\* A household's update: it sells, hands over or keeps a unit, and moves into another.
LEMMA UpdateHouseholdTitles ==
  ASSUME Typed, NoOwnBids, NEW h \in Households, NEW f \in Freelance, UpdateHousehold(h, f),
         NEW u, u \notin garbled'
  PROVE  Traced(u)
<1>1. /\ h \in Agents /\ household[h].active /\ mail' = mail
      /\ seller'[h].units = UnitsAfter(h)
      /\ \A b \in Agents \ {h} : seller'[b] = seller[b]
      /\ household'[h].moveIn = Waited(h)
      /\ household'[h].toBeOwned = household[h].toBeOwned
      /\ \A g \in Households \ {h} : /\ household'[g].moveIn = household[g].moveIn
                                     /\ household'[g].toBeOwned = household[g].toBeOwned
      /\ \E B : /\ out' = out \cup SellerMail(h, Opened(h)) \cup LeavingMail(h, f) \cup B
                /\ \A m \in B : m.kind = "bid"
  BY UpdateHouseholdOutcome
<1> DEFINE gone == IF Transfers(h) THEN Erased(Unsold(h)) ELSE {}
           come == IF Waited(h) = 0 THEN {household[h].toBeOwned} ELSE {}
<1>2. /\ Sold(h) \subseteq SeqRange(seller[h].units)
      /\ SeqRange(Unsold(h)) = SeqRange(seller[h].units) \ Sold(h)
      /\ Unsold(h) \in Seq(Units)
  BY <1>1, UnsoldUnits DEF Typed
<1>3. SeqRange(UnitsAfter(h)) = (SeqRange(Unsold(h)) \ gone) \cup come
  BY <1>1, UnitsAfterTyped DEF Typed
<1>4. /\ Waited(h) \in Int /\ (Waited(h) = 0 => household[h].moveIn > 0)
      /\ Waited(h) > 0 => household[h].moveIn > 0
  <2>1. /\ Waited(h) \in Int /\ (Waited(h) = 0 => household[h].moveIn = 1)
        /\ Waited(h) >= 0 => household[h].moveIn > 0
    BY <1>1, WaitedTyped DEF Typed
  <2>2. QED BY <2>1
<1>5. NoMoreWaits BY <1>1, <1>4 DEF NoMoreWaits
<1>6. u \in SeqRange(seller[h].units) =>
        \E c : HasClaim(u, c) /\ TitleFrom(c) = [is |-> "held", by |-> h]
  BY <1>1, ListedClaim
<1>7. ASSUME NEW d, IsHeld(u, d)'
      PROVE  \E c : HasClaim(u, c) /\ Onward(TitleFrom(c), TitleFrom(d))
  <2>1. PICK b \in Agents : \E i \in DOMAIN seller'[b].units :
          seller'[b].units[i] = u /\ d = <<"held", b, i>>
    BY <1>7 DEF IsHeld
  <2>2. CASE b # h
    <3>1. HasClaim(u, d) BY <1>1, <2>1, <2>2 DEF HasClaim, IsHeld
    <3>2. QED BY <3>1 DEF Onward
  <2>3. CASE b = h
    <3>1. u \in SeqRange(UnitsAfter(h)) BY <1>1, <2>1, <2>3 DEF SeqRange
    <3>2. TitleFrom(d) = [is |-> "held", by |-> h] BY <2>1, <2>3, TitlesFromClaims
    <3>3. CASE u \in SeqRange(Unsold(h)) BY <1>2, <1>6, <3>2, <3>3 DEF Onward
    <3>4. CASE u \in come
      <4>1. HasClaim(u, <<"waits", h, 0>>) BY <1>4, <3>4 DEF HasClaim, IsWaited
      <4>2. TitleFrom(<<"waits", h, 0>>) = [is |-> "promised", by |-> h] BY TitlesFromClaims
      <4>3. Onward(TitleFrom(<<"waits", h, 0>>), TitleFrom(d))
        BY <3>2, <4>2 DEF Onward, Title!MoveIn
      <4>4. QED BY <4>1, <4>3
    <3>5. QED BY <1>3, <3>1, <3>3, <3>4
  <2>4. QED BY <2>2, <2>3
<1>8. ASSUME NEW d, IsPosted(u, d)'
      PROVE  \E c : HasClaim(u, c) /\ Onward(TitleFrom(c), TitleFrom(d))
  <2>1. PICK m \in out' : Promises(m, u) /\ d = <<"out", m, 0>> BY <1>8 DEF IsPosted
  <2>2. CASE m \in out
    <3>1. HasClaim(u, d) BY <2>1, <2>2 DEF HasClaim, IsPosted
    <3>2. QED BY <3>1 DEF Onward
  <2>3. CASE m \in SellerMail(h, Opened(h))
    <3>1. u \in Sold(h) /\ m = Response(seller[h].maxBid[u].bidder, u, "ACCEPTED")
      BY <2>1, <2>3, SellerPromises
    <3>2. QED BY <1>1, <2>1, <3>1, SoldOnward DEF Typed
  <2>4. CASE m \in LeavingMail(h, f)
    <3>1. u \in Posted(Unsold(h)) /\ m = [to |-> f, kind |-> "transfer", unit |-> u]
      BY <2>1, <2>4, LeavingPromises
    <3>2. u \in SeqRange(seller[h].units) BY <1>2, <3>1, ErasedPosted
    <3>3. m.kind = "transfer" /\ m.to = f BY <3>1
    <3>4. TitleFrom(d) = [is |-> "moving", by |-> f] BY <2>1, <3>3, TitlesFromClaims
    <3>5. Onward([is |-> "held", by |-> h], TitleFrom(d)) BY <3>4 DEF Onward, Title!Leave
    <3>6. QED BY <1>6, <3>2, <3>5
  <2>5. m.kind # "bid" BY <2>1 DEF Promises
  <2>6. QED BY <1>1, <2>1, <2>2, <2>3, <2>4, <2>5
<1>9. ASSUME NEW d, HasClaim(u, d)'
      PROVE  \E c : HasClaim(u, c) /\ Onward(TitleFrom(c), TitleFrom(d))
  <2>1. CASE HasClaim(u, d) BY <2>1 DEF Onward
  <2>2. QED BY <1>1, <1>5, <1>7, <1>8, <1>9, <2>1, MailedFewer, WaitedFewer DEF HasClaim
<1>10. ASSUME NEW c, IsHeld(u, c) PROVE ~ NoClaim(u)'
  <2>1. CASE u \in Sold(h)
    <3>1. SellerMail(h, Opened(h)) \subseteq out' BY <1>1
    <3>2. QED BY <2>1, <3>1, AcceptedClaim
  <2>2. CASE u \notin SeqRange(seller[h].units)
    <3>1. \A b \in Agents : u \in SeqRange(seller[b].units) => u \in SeqRange(seller'[b].units)
      BY <1>1, <2>2
    <3>2. QED BY <1>10, <3>1, HeldLeft
  <2>3. CASE u \in SeqRange(Unsold(h)) /\ ~ Transfers(h)
    <3>1. u \in SeqRange(UnitsAfter(h)) BY <1>3, <2>3
    <3>2. \A b \in Agents : u \in SeqRange(seller[b].units) => u \in SeqRange(seller'[b].units)
      BY <1>1, <3>1
    <3>3. QED BY <1>10, <3>2, HeldLeft
  <2>4. CASE u \in SeqRange(Unsold(h)) /\ Transfers(h)
    <3> DEFINE m == [to |-> f, kind |-> "transfer", unit |-> u]
    <3>1. garbled' = garbled \cup
            IF Transfers(h) /\ Len(Unsold(h)) > 1 THEN SeqRange(Unsold(h)) ELSE {}
      BY DEF UpdateHousehold
    <3>2. ~ (Len(Unsold(h)) > 1) BY <2>4, <3>1
    <3>3. u \in Posted(Unsold(h)) BY <1>2, <2>4, <3>2, OneUnitHandedOver
    <3>4. m \in LeavingMail(h, f) BY <2>4, <3>3 DEF LeavingMail
    <3>5. Promises(m, u) BY DEF Promises
    <3> HIDE DEF m
    <3>6. m \in out' BY <1>1, <3>4
    <3>7. HasClaim(u, <<"out", m, 0>>)' BY <3>5, <3>6 DEF HasClaim, IsPosted
    <3>8. QED BY <3>7 DEF NoClaim
  <2>5. QED BY <1>2, <2>1, <2>2, <2>3, <2>4
<1>11. QED BY <1>9, <1>10 DEF Traced

\* What is posted on one day is in the mail of the next.
LEMMA DistributeTitles == ASSUME Typed, Distribute PROVE \A u : Traced(u)
<1>1. /\ out' = {} /\ mail' \subseteq out /\ UNCHANGED <<seller, household>>
  BY DistributeOutcome
<1>2. SameHeld /\ NoMoreWaits BY <1>1 DEF SameHeld, NoMoreWaits
<1>3. ASSUME NEW u, NEW d, HasClaim(u, d)'
      PROVE  \E c : HasClaim(u, c) /\ Onward(TitleFrom(c), TitleFrom(d))
  <2>1. CASE HasClaim(u, d) BY <2>1 DEF Onward
  <2>2. CASE IsMailed(u, d)'
    <3>1. PICK m \in out : Promises(m, u) /\ d = <<"mail", m, 0>> BY <1>1, <2>2 DEF IsMailed
    <3>2. HasClaim(u, <<"out", m, 0>>) BY <3>1 DEF HasClaim, IsPosted
    <3>3. m.kind \in {"response", "transfer"} BY <3>1 DEF Promises
    <3>4. TitleFrom(<<"out", m, 0>>) = TitleFrom(d) BY <3>1, <3>3, TitlesFromClaims
    <3>5. QED BY <3>2, <3>4 DEF Onward
  <2>3. ~ IsPosted(u, d)' BY <1>1 DEF IsPosted
  <2>4. QED BY <1>2, <1>3, <2>1, <2>2, <2>3, HeldSame, WaitedFewer DEF HasClaim
<1>4. \A u, c : IsHeld(u, c) => ~ NoClaim(u)' BY <1>2, HeldLeft DEF SameHeld
<1>5. QED BY <1>3, <1>4 DEF Traced

\* A step that leaves the best bids of the households, or clears some, keeps them theirs.
LEMMA OwnBidsLeft ==
  ASSUME NoOwnBids, NEW a, DOMAIN seller = Agents, NEW s, seller' = [seller EXCEPT ![a] = s],
         a \in Households => s.maxBid = seller[a].maxBid \/ DOMAIN s.maxBid = {}
  PROVE  NoOwnBids'
<1> SUFFICES ASSUME NEW h \in Households, NEW u \in DOMAIN seller'[h].maxBid
             PROVE  seller'[h].maxBid[u].bidder # h
  BY DEF NoOwnBids
<1>1. h \in Agents BY DEF Agents
<1>2. CASE h = a
  <2>1. seller'[h] = s BY <1>1, <1>2
  <2>2. QED BY <1>2, <2>1 DEF NoOwnBids
<1>3. CASE h # a
  <2>1. seller'[h] = seller[h] BY <1>1, <1>3
  <2>2. QED BY <2>1 DEF NoOwnBids
<1>4. QED BY <1>2, <1>3

\* An agent that gains a unit keeps its best bids.
LEMMA GainsOwnBids == ASSUME NoOwnBids, NEW a, NEW u, Gains(a, u) PROVE NoOwnBids'
<1> SUFFICES ASSUME NEW h \in Households PROVE seller'[h].maxBid = seller[h].maxBid
  BY DEF NoOwnBids
<1>1. QED BY DEF Gains, Agents

\* A bid that is kept is the best so far, or the one that was sent by somebody else.
LEMMA ReceiveBidOwn ==
  ASSUME Typed, NoOwnBids, NEW m \in mail, NEW a, ReceiveBid(a, m) PROVE NoOwnBids'
<1>1. /\ a \in Agents /\ m.to = a /\ m.kind = "bid"
      /\ \/ seller' = seller
         \/ seller' = [seller EXCEPT ![a].maxBid = seller[a].maxBid]
         \/ seller' = [seller EXCEPT ![a].maxBid = Best(a, m.unit, m)]
  BY ReceiveBidOutcome
<1>2. SellerTyped(seller[a]) /\ DOMAIN seller = Agents BY <1>1 DEF Typed, SellersTyped
<1>3. m.bidder # a BY <1>1 DEF Typed, MailTyped, Sensible
<1>4. CASE seller' = seller BY <1>4 DEF NoOwnBids
<1>5. CASE seller' = [seller EXCEPT ![a].maxBid = seller[a].maxBid]
  <2>1. \A h \in Households : seller'[h].maxBid = seller[h].maxBid
    BY <1>2, <1>5 DEF SellerTyped, Agents
  <2>2. QED BY <2>1 DEF NoOwnBids
<1>6. CASE seller' = [seller EXCEPT ![a].maxBid = Best(a, m.unit, m)]
  <2>1. /\ seller'[a].maxBid = Best(a, m.unit, m)
        /\ \A h \in Agents \ {a} : seller'[h] = seller[h]
    BY <1>1, <1>2, <1>6 DEF SellerTyped
  <2>2. ASSUME NEW h \in Households, NEW u \in DOMAIN seller'[h].maxBid
        PROVE  seller'[h].maxBid[u].bidder # h
    <3>1. CASE h # a BY <2>1, <2>2, <3>1 DEF NoOwnBids, Agents
    <3>2. CASE h = a
      <4>1. u \in DOMAIN seller[a].maxBid \cup {m.unit} BY <2>1, <2>2, <3>2 DEF Best
      <4>2. Best(a, m.unit, m)[u] = IF u = m.unit THEN [bidder |-> m.bidder, value |-> m.value]
                                    ELSE seller[a].maxBid[u]
        BY <4>1 DEF Best
      <4>3. QED BY <1>3, <2>1, <3>2, <4>1, <4>2 DEF NoOwnBids
    <3>3. QED BY <3>1, <3>2
  <2>3. QED BY <2>2 DEF NoOwnBids
<1>7. QED BY <1>1, <1>4, <1>5, <1>6

\* No step lets a household keep a bid of its own.
LEMMA StepOwnBids == ASSUME Typed, NoOwnBids, [Next]_vars PROVE NoOwnBids'
<1>1. ASSUME NEW m \in mail, NEW a, ReceiveBid(a, m) PROVE NoOwnBids' BY <1>1, ReceiveBidOwn
<1>2. ASSUME NEW m \in mail, NEW a, ReceiveTransfer(a, m) PROVE NoOwnBids'
  <2>1. seller' = seller \/ Gains(a, m.unit) BY <1>2, ReceiveTransferOutcome
  <2>2. QED BY <2>1, GainsOwnBids DEF NoOwnBids
<1>3. ASSUME seller' = seller PROVE NoOwnBids' BY <1>3 DEF NoOwnBids
<1>4. ASSUME NEW m \in mail, NEW a, ReceiveResponse(a, m) \/ ReceiveEvent(a, m) PROVE NoOwnBids'
  BY <1>3, <1>4 DEF ReceiveResponse, ReceiveEvent
<1>5. ASSUME NEW d \in Developers, NEW u \in Units, Launch(d, u) PROVE NoOwnBids'
  BY <1>5, LaunchOutcome, GainsOwnBids
<1>6. DOMAIN seller = Agents BY DEF Typed, SellersTyped
<1>7. ASSUME NEW a \in Sellers, UpdateSeller(a) PROVE NoOwnBids'
  <2>1. a \notin Households BY MarketAssumption
  <2>2. \E s : seller' = [seller EXCEPT ![a] = s] BY <1>7 DEF UpdateSeller
  <2>3. QED BY <1>6, <2>1, <2>2, OwnBidsLeft
<1>8. ASSUME NEW h \in Households, NEW f \in Freelance, UpdateHousehold(h, f) PROVE NoOwnBids'
  <2> DEFINE s == [active |-> ~ Leaves(h) /\ Unsold(h) # <<>>, units |-> UnitsAfter(h),
                   onSale |-> IF Transfers(h) THEN Nothing ELSE OnSale(h, market'),
                   maxBid |-> BestAfter(h)]
  <2>1. seller' = [seller EXCEPT ![h] = s] BY <1>8 DEF UpdateHousehold
  <2>2. DOMAIN s.maxBid = {} BY BestCleared
  <2> HIDE DEF s
  <2>3. QED BY <1>6, <2>1, <2>2, OwnBidsLeft
<1>9. ASSUME NEW a \in Agents, UpdateIdle(a) PROVE NoOwnBids' BY <1>3, <1>9 DEF UpdateIdle
<1>10. ASSUME NEW h \in Households, Awaken(h) PROVE NoOwnBids' BY <1>3, <1>10 DEF Awaken
<1>11. CASE UpdateInjector BY <1>3, <1>11 DEF UpdateInjector
<1>12. CASE Distribute BY <1>3, <1>12 DEF Distribute
<1>13. CASE UNCHANGED vars BY <1>3, <1>13 DEF vars
<1>14. QED
  BY <1>1, <1>2, <1>4, <1>5, <1>7, <1>8, <1>9, <1>10, <1>11, <1>12, <1>13 DEF Next

-----------------------------------------------------------------------------
\* Where a step leaves the titles: only a launch ends a plan, and only a household that
\* hands over several units muddles them.
Launched(u) ==
  /\ u \in planned \ planned'
  /\ \E d \in Developers : \E c : HasClaim(u, c)' /\ TitleFrom(c) = [is |-> "held", by |-> d]

Muddled(u) == u \in garbled' \ garbled /\ \E h \in Households : u \in SeqRange(seller[h].units)

Entitled ==
  \A u \in Units \ garbled :
    \/ Muddled(u)
    \/ u \notin garbled' /\ Launched(u)
    \/ u \notin garbled' /\ Traced(u) /\ (u \in planned <=> u \in planned')

\* Every step does.
LEMMA StepEntitled == ASSUME Typed, NoOwnBids, [Next]_vars PROVE Entitled
<1>1. ASSUME UNCHANGED <<planned, garbled>>, \A u : Traced(u) PROVE Entitled
  BY <1>1 DEF Entitled
<1>2. ASSUME NEW m \in mail, NEW a, ReceiveBid(a, m) PROVE Entitled
  <2>1. UNCHANGED <<planned, garbled>> BY <1>2 DEF ReceiveBid
  <2>2. a \in Agents /\ (seller' = seller \/ \E best : seller' = [seller EXCEPT ![a].maxBid = best])
    BY <1>2, ReceiveBidOutcome
  <2>3. SellerTyped(seller[a]) /\ DOMAIN seller = Agents BY <2>2 DEF Typed, SellersTyped
  <2>4. SameHeld BY <2>2, <2>3 DEF SameHeld, SellerTyped
  <2>5. QED BY <1>1, <1>2, <2>1, <2>4, ReceiveBidClaims, QuietTraced
<1>3. ASSUME NEW m \in mail, NEW a, ReceiveTransfer(a, m) PROVE Entitled
  <2>1. UNCHANGED <<planned, garbled>> BY <1>3 DEF ReceiveTransfer
  <2>2. QED BY <1>1, <1>3, <2>1, ReceiveTransferTitles
<1>4. ASSUME NEW m \in mail, NEW a, ReceiveResponse(a, m) PROVE Entitled
  <2>1. UNCHANGED <<planned, garbled>> BY <1>4 DEF ReceiveResponse
  <2>2. QED BY <1>1, <1>4, <2>1, ReceiveResponseTitles
<1>5. ASSUME NEW m \in mail, NEW a, ReceiveEvent(a, m) PROVE Entitled
  <2>1. UNCHANGED <<planned, garbled>> /\ SameHeld BY <1>5 DEF ReceiveEvent, SameHeld
  <2>2. QED BY <1>1, <1>5, <2>1, ReceiveEventClaims, QuietTraced
<1>6. ASSUME NEW d \in Developers, NEW v \in Units, Launch(d, v) PROVE Entitled
  <2>1. planned' = planned \ {v} /\ garbled' = garbled BY <1>6 DEF Launch
  <2>2. v \in planned /\ d \in Agents /\ Gains(d, v) BY <1>6, LaunchOutcome
  <2>3. \A u : u # v => Traced(u) BY <1>6, LaunchTitles
  <2>4. Launched(v)
    <3>1. seller[d].units \in Seq(Units) BY <2>2 DEF Typed, SellersTyped, SellerTyped
    <3>2. v \in SeqRange(seller'[d].units) BY <2>2, <3>1, AppendRange DEF Gains
    <3>3. PICK i \in DOMAIN seller'[d].units : seller'[d].units[i] = v BY <3>2 DEF SeqRange
    <3> DEFINE c == <<"held", d, i>>
    <3>4. HasClaim(v, c)' BY <2>2, <3>3 DEF HasClaim, IsHeld
    <3>5. TitleFrom(c) = [is |-> "held", by |-> d] BY TitlesFromClaims
    <3> HIDE DEF c
    <3>6. QED BY <2>1, <2>2, <3>4, <3>5 DEF Launched
  <2>5. QED BY <2>1, <2>3, <2>4 DEF Entitled
<1>7. ASSUME NEW a \in Sellers, UpdateSeller(a) PROVE Entitled
  <2>1. UNCHANGED <<planned, garbled>> BY <1>7 DEF UpdateSeller
  <2>2. QED BY <1>1, <1>7, <2>1, UpdateSellerTitles
<1>8. ASSUME NEW h \in Households, NEW f \in Freelance, UpdateHousehold(h, f) PROVE Entitled
  <2>1. planned' = planned
        /\ garbled' = garbled \cup IF Transfers(h) /\ Len(Unsold(h)) > 1 THEN SeqRange(Unsold(h)) ELSE {}
    BY <1>8 DEF UpdateHousehold
  <2>2. \A u : u \notin garbled' => Traced(u) BY <1>8, UpdateHouseholdTitles
  <2>3. SeqRange(Unsold(h)) \subseteq SeqRange(seller[h].units) BY UnsoldUnits DEF Typed, Agents
  <2>4. \A u \in garbled' \ garbled : Muddled(u) BY <2>1, <2>3 DEF Muddled
  <2>5. QED BY <2>1, <2>2, <2>4 DEF Entitled
<1>9. ASSUME NEW a \in Agents, UpdateIdle(a) PROVE Entitled
  <2>1. UNCHANGED <<planned, garbled>> /\ SameHeld BY <1>9 DEF UpdateIdle, SameHeld
  <2>2. QED BY <1>1, <1>9, <2>1, IdleClaims, QuietTraced
<1>10. ASSUME NEW h \in Households, Awaken(h) PROVE Entitled
  <2>1. UNCHANGED <<planned, garbled>> /\ SameHeld BY <1>10 DEF Awaken, SameHeld
  <2>2. QED BY <1>1, <1>10, <2>1, AwakenClaims, QuietTraced
<1>11. CASE UpdateInjector
  <2>1. UNCHANGED <<planned, garbled>> /\ SameHeld BY <1>11 DEF UpdateInjector, SameHeld
  <2>2. QED BY <1>1, <1>11, <2>1, InjectorClaims, QuietTraced
<1>12. CASE Distribute
  <2>1. UNCHANGED <<planned, garbled>> BY <1>12 DEF Distribute
  <2>2. QED BY <1>1, <1>12, <2>1, DistributeTitles
<1>13. CASE UNCHANGED vars
  <2>1. UNCHANGED <<mail, out, seller, household, planned, garbled>> BY <1>13 DEF vars
  <2>2. SameHeld /\ NoMoreWaits /\ NoPromise({}) /\ out' = out \cup {}
    BY <2>1 DEF SameHeld, NoMoreWaits, NoPromise
  <2>3. QED BY <1>1, <2>1, <2>2, QuietClaims, QuietTraced
<1>14. QED
  BY <1>2, <1>3, <1>4, <1>5, <1>6, <1>7, <1>8, <1>9, <1>10, <1>11, <1>12, <1>13 DEF Next

\* The titles go on, as every unit has one claim at most.
LEMMA TitlesGoOn ==
  ASSUME Typed, NoOwnBids, Unplanned, Single, Single', [Next]_vars
  PROVE  \A u \in Units : Onward(TitleOf(u), TitleOf(u)')
<1> SUFFICES ASSUME NEW u \in Units PROVE Onward(TitleOf(u), TitleOf(u)')
  OBVIOUS
<1>1. Entitled /\ garbled \subseteq garbled' BY StepEntitled, StepConserves DEF Conserved
<1>2. /\ u \in garbled => TitleOf(u) = [is |-> "muddled", by |-> "none"]
      /\ u \in garbled' => TitleOf(u)' = [is |-> "muddled", by |-> "none"]
      /\ u \notin garbled /\ u \in planned => TitleOf(u) = [is |-> "planned", by |-> "none"]
      /\ u \notin garbled' /\ u \in planned' => TitleOf(u)' = [is |-> "planned", by |-> "none"]
      /\ u \notin garbled /\ u \notin planned => \A c : HasClaim(u, c) => TitleOf(u) = TitleFrom(c)
      /\ u \notin garbled' /\ u \notin planned' =>
           \A c : HasClaim(u, c)' => TitleOf(u)' = TitleFrom(c)
  BY TitlesAre, TitlesStay DEF TitlesRight, Single
<1>3. CASE u \in garbled
  <2>1. TitleOf(u)' = TitleOf(u) BY <1>1, <1>2, <1>3
  <2>2. QED BY <2>1 DEF Onward
<1>4. CASE u \notin garbled /\ Muddled(u)
  <2>1. PICK h \in Households : u \in SeqRange(seller[h].units) BY <1>4 DEF Muddled
  <2>2. PICK c : HasClaim(u, c) /\ TitleFrom(c) = [is |-> "held", by |-> h]
    BY <2>1, ListedClaim DEF Agents
  <2>3. u \notin planned BY <2>2 DEF Unplanned, NoClaim
  <2>4. TitleOf(u) = [is |-> "held", by |-> h] BY <1>2, <1>4, <2>2, <2>3
  <2>5. TitleOf(u)' = [is |-> "muddled", by |-> "none"] BY <1>2, <1>4 DEF Muddled
  <2>6. Title!Muddle(TitleOf(u), TitleOf(u)') BY <2>4, <2>5 DEF Title!Muddle
  <2>7. QED BY <2>6 DEF Onward
<1>5. CASE u \notin garbled /\ u \notin garbled' /\ Launched(u)
  <2>1. PICK d \in Developers :
          \E c : HasClaim(u, c)' /\ TitleFrom(c) = [is |-> "held", by |-> d]
    BY <1>5 DEF Launched
  <2>2. PICK c : HasClaim(u, c)' /\ TitleFrom(c) = [is |-> "held", by |-> d] BY <2>1
  <2>3. /\ TitleOf(u) = [is |-> "planned", by |-> "none"]
        /\ TitleOf(u)' = [is |-> "held", by |-> d]
    BY <1>2, <1>5, <2>2 DEF Launched
  <2>4. Title!Launch(TitleOf(u), TitleOf(u)') BY <2>3 DEF Title!Launch
  <2>5. QED BY <2>4 DEF Onward
<1>6. CASE u \notin garbled /\ u \notin garbled' /\ Traced(u) /\ (u \in planned <=> u \in planned')
  <2>1. CASE u \in planned
    <3>1. TitleOf(u)' = TitleOf(u) BY <1>2, <1>6, <2>1
    <3>2. QED BY <3>1 DEF Onward
  <2>2. CASE u \notin planned BY <1>6, <2>2, TracedOn DEF Single
  <2>3. QED BY <2>1, <2>2
<1>7. QED BY <1>1, <1>3, <1>4, <1>5, <1>6 DEF Entitled

\* A unit has one of the titles of UnitTitle, at any time and in the next state.
LEMMA TitleTyped == Typed /\ Single => \A u \in Units : TitleOf(u) \in Title!Titles
<1> SUFFICES ASSUME Typed, Single, NEW u \in Units PROVE TitleOf(u) \in Title!Titles
  OBVIOUS
<1>1. CASE u \in garbled \/ u \in planned
  BY <1>1, TitlesAre DEF TitlesRight, Title!Titles
<1>2. CASE u \notin garbled /\ u \notin planned /\ NoClaim(u)
  BY <1>2, TitlesAre DEF TitlesRight, Title!Titles
<1>3. ASSUME u \notin garbled, u \notin planned, NEW c, HasClaim(u, c)
      PROVE  TitleOf(u) \in Title!Titles
  BY <1>3, TitlesAre, ClaimKinds DEF TitlesRight, Single
<1>4. QED BY <1>1, <1>2, <1>3 DEF NoClaim

\* And in the next one.
LEMMA TitleTypedNext == (Typed /\ Single)' => (\A u \in Units : TitleOf(u) \in Title!Titles)'
BY TitleTyped, PTL

\* In the input data a unit is held or planned.
LEMMA InitTitles ==
  ASSUME Init, OneOwner
  PROVE  \A u \in Units : TitleOf(u).is \in {"held", "planned"}
<1> SUFFICES ASSUME NEW u \in Units PROVE TitleOf(u).is \in {"held", "planned"}
  OBVIOUS
<1>1. Single /\ garbled = {} /\ planned = Units \ UNION {SeqRange(Initial[a]) : a \in Agents}
  BY InitSingle DEF Init
<1>2. CASE u \in planned BY <1>1, <1>2, TitlesAre DEF TitlesRight
<1>3. CASE u \notin planned
  <2>1. PICK a \in Agents : u \in SeqRange(Initial[a]) BY <1>1, <1>3
  <2>2. u \in SeqRange(seller[a].units) BY <2>1, InitClaims
  <2>3. PICK c : HasClaim(u, c) /\ TitleFrom(c) = [is |-> "held", by |-> a] BY <2>2, ListedClaim
  <2>4. QED BY <1>1, <1>3, <2>3, TitlesAre DEF TitlesRight, Single
<1>4. QED BY <1>2, <1>3

\* Units change hands as UnitTitle says, if each has one owner at most in the input data: a
\* unit goes from its holder to the household it was promised to or to a freelance agent,
\* nobody sells to itself, and what is lost on the way nobody has again.
THEOREM ImplementsUnitTitle == ASSUME OneOwner PROVE Spec => TitleSpec
<1>1. Init => Title!Init
  <2> SUFFICES ASSUME Init PROVE Title!Init
    OBVIOUS
  <2>1. \A u \in Units : TitleOf(u) \in Title!Titles BY InitTyped, InitSingle, TitleTyped
  <2>2. \A u \in Units : TitleOf(u).is \in {"held", "planned"} BY InitTitles
  <2>3. QED BY <2>1, <2>2 DEF Title!Init
<1>2. Init => Typed /\ Unplanned /\ Single /\ NoOwnBids
  <2>1. Init => NoOwnBids
    <3> SUFFICES ASSUME Init, NEW h \in Households PROVE DOMAIN seller[h].maxBid = {}
      BY DEF NoOwnBids
    <3>1. QED BY DEF Init, Agents, Nothing
  <2>2. QED BY <2>1, InitTyped, InitClaims, InitSingle
<1>3. Typed /\ Unplanned /\ Single /\ NoOwnBids /\ [Next]_vars
      => Typed' /\ Unplanned' /\ Single' /\ NoOwnBids'
  BY StepTyped, StepConserves, ConservedClaims, StepOwnBids
<1>4. /\ Typed /\ Unplanned /\ Single /\ NoOwnBids /\ [Next]_vars /\ Typed' /\ Single'
      => Title!Next
  <2> SUFFICES ASSUME Typed, Unplanned, Single, NoOwnBids, [Next]_vars, Typed', Single'
               PROVE  Title!Next
    OBVIOUS
  <2>1. \A u \in Units : Onward(TitleOf(u), TitleOf(u)') BY TitlesGoOn
  <2>2. \A u \in Units : TitleOf(u)' \in Title!Titles BY TitleTypedNext
  <2>3. QED BY <2>1, <2>2 DEF Title!Next, Onward
<1>5. QED BY <1>1, <1>2, <1>3, <1>4, PTL DEF Spec, TitleSpec, Title!Spec
=============================================================================
