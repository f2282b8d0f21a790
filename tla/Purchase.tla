------------------------------ MODULE Purchase ------------------------------
(***************************************************************************)
(* What the shop promises about an order: the goods are delivered for an   *)
(* order that has been paid, once, and in the end.  How the payment comes  *)
(* to be known is the business of PaymentOrders, which implements this.    *)
(***************************************************************************)
EXTENDS Naturals

CONSTANT Orders

VARIABLES
    paid,        \* the orders whose money has been taken
    delivered    \* how often the goods of an order have been handed over

vars == <<paid, delivered>>

Init == paid = {} /\ delivered = [o \in Orders |-> 0]

Pay(o) ==
    /\ o \notin paid
    /\ paid' = paid \cup {o}
    /\ UNCHANGED delivered

Deliver(o) ==
    /\ o \in paid
    /\ delivered[o] = 0
    /\ delivered' = [delivered EXCEPT ![o] = 1]
    /\ UNCHANGED paid

Next == \E o \in Orders : Pay(o) \/ Deliver(o)

Spec == Init /\ [][Next]_vars

FairSpec == Spec /\ \A o \in Orders : WF_vars(Deliver(o))
=============================================================================
