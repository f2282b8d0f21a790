-------------------------- MODULE MCPaymentOrders --------------------------
(***************************************************************************)
(* The runs of PaymentOrders.  Handlers are alike.  While an order has two *)
(* sessions nothing fails, and beside the operators' query there are only  *)
(* polls and notifications: more than one of these at once is past what    *)
(* TLC explores in minutes.                                                *)
(***************************************************************************)
EXTENDS PaymentOrders, TLC

AlikeHandlers == Permutations(Handlers)

OneComplication ==
    (\E o \in Orders : Len(sessions[o]) > 1) =>
        /\ failures = 0
        /\ \A g, h \in Handlers :
              g # h /\ work[h].type = "ops" => work[g].type \in {"none", "poll", "notify"}
=============================================================================
