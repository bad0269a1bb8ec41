------------------------------ MODULE UnitTitle ------------------------------
(***************************************************************************)
(* Who has a housing unit.  The abstract specification of what the sellers *)
(* and bidders of HousingMarket.tla do with units between them: a unit     *)
(* goes from its holder to the buyer it was promised to, or to a freelance *)
(* agent; it may be lost on the way, and then nobody ever has it again.    *)
(* Of the units that a household leaves together it says nothing more.     *)
(***************************************************************************)
CONSTANTS Units, Households, Freelance, Developers

VARIABLE title  \* of each unit: its state, and whom it concerns

Titles == [is : {"held"}, by : Households \cup Freelance \cup Developers]
            \cup [is : {"promised"}, by : Households] \cup [is : {"moving"}, by : Freelance]
            \cup [is : {"planned", "lost", "muddled"}, by : {"none"}]

Init == title \in [Units -> {t \in Titles : t.is \in {"held", "planned"}}]

Launch(s, t) == s.is = "planned" /\ t.is = "held" /\ t.by \in Developers

\* A seller accepts the bid of somebody else; the buyer moves in.
Sell(s, t) == s.is = "held" /\ t.is = "promised" /\ t.by # s.by
MoveIn(s, t) == s.is = "promised" /\ t.is = "held" /\ t.by = s.by

\* A household that moves leaves its unit to a freelance agent.
Leave(s, t) == s.is = "held" /\ s.by \in Households /\ t.is = "moving"
Take(s, t) == s.is = "moving" /\ t.is = "held" /\ t.by = s.by

\* A household that leaves several units at once hands over some and keeps others,
\* not always different ones.
Muddle(s, t) == s.is = "held" /\ s.by \in Households /\ t.is = "muddled"

\* The buyer or the freelance agent does not listen any more, or wins another unit.
Lose(s, t) == s.is \in {"promised", "moving"} /\ t.is = "lost"

Next ==
  /\ title' \in [Units -> Titles]
  /\ \A u \in Units : LET s == title[u]
                          t == title'[u] IN
       t = s \/ Launch(s, t) \/ Sell(s, t) \/ MoveIn(s, t) \/ Leave(s, t) \/ Take(s, t)
            \/ Muddle(s, t) \/ Lose(s, t)

Spec == Init /\ [][Next]_title
=============================================================================
