--------------------------- MODULE MCHousingMarket ---------------------------
(***************************************************************************)
(* TLC instances of HousingMarket.tla.                                     *)
(***************************************************************************)
EXTENDS HousingMarketInv, TLC

CONSTANTS h1, h2, f, d, u1, u2, u3, u4

\* A household with two units, which it leaves together, and one without, a vacant unit and
\* one that is built to order, and two workers.
MCInitial == h1 :> <<u1, u4>> @@ h2 :> <<>> @@ f :> <<u2>> @@ d :> <<>>
MCCrews == {<<h1, f>>, <<d, h2>>}
MCEntryDay == [u \in {u1, u2, u3, u4} |-> 0]
MCLaunchDay == [u \in {u1, u2, u3, u4} |-> 1]
MCWindow == h1 :> {1, 3} @@ h2 :> {3}
MCTarget == 0 :> 2 @@ 1 :> 1
=============================================================================
