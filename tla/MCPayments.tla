----------------------------- MODULE MCPayments -----------------------------
(* Three payments that may be tried for one milestone, two checkouts at once. *)
EXTENDS Payments, TLC

CONSTANTS m1, p1, p2, p3, r1, r2

MCMilestoneOf == [p \in Payment |-> m1]
=============================================================================
