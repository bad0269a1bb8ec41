--------------------------- MODULE MCOnCallService ---------------------------
(***************************************************************************)
(* TLC instances of OnCallService.tla.                                     *)
(***************************************************************************)
EXTENDS OnCallServiceInv, TLC

CONSTANTS d1, d2, r1, r2

\* No car park near, one near the start of a driver and a destination, or one near
\* everything; with and without missing routes.
MCSettings == [parks : {{}, {d1, r1}, {d1, d2, r1, r2}}, lost : BOOLEAN]
\* The setting in which the end of a shift crosses a proposal.
MCParks == {[parks |-> {d1, d2, r1, r2}, lost |-> FALSE]}
MCLoad == d1 :> 0 @@ d2 :> 1
MCShift == d1 :> 5 @@ d2 :> 7
=============================================================================
