----------------------------- MODULE MCDashboard -----------------------------
(* A team of two whose names sort either way round. *)
EXTENDS DashboardProps

CONSTANTS w1, w2

\* The newcomer sorts before the one that was there.
Names2 == w1 :> 2 @@ w2 :> 1
=============================================================================
