-------------------------- MODULE MCSubscriptions --------------------------
(***************************************************************************)
(* The constants of the runs of Subscriptions: two monthly packages, a     *)
(* small pack with a bonus and a large one, and one cumulative reward,     *)
(* earned by one large pack or by two small ones.                          *)
(***************************************************************************)
EXTENDS Subscriptions, TLC

CONSTANTS small, large, bySum

Prices == small :> 1 @@ large :> 2
Thresholds == bySum :> 2
Symmetric == Permutations(Handlers) \cup Permutations(Orders) \cup Permutations(Monthly)
=============================================================================
