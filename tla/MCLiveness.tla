----------------------------- MODULE MCLiveness -----------------------------
(***************************************************************************)
(* What must happen in the end, of the ledger and of payment orders.  The  *)
(* two meet only in the callback that credits a paid order, which is one   *)
(* request to the ledger; so each is explored on its own, and part says    *)
(* which.                                                                  *)
(***************************************************************************)
EXTENDS Integers, Sequences

CONSTANTS Handlers, Users, NoHandler, Charges, Grants, Refunds, Adjustments, Ties,
          Period, MaxClock, Never,
          Orders, ShopRequests, MaxSessions, MaxFailures

VARIABLES part,
          clock, balance, ledger, lock, step, task, began, asOf, due, total, rows, charged,
          trade, acked, lapsed, status, sessions, credits, keys, stage, work, call, failures

ledgerVars == <<clock, balance, ledger, lock, step, task, began, asOf, due, total, rows, charged>>
orderVars == <<trade, acked, lapsed, status, sessions, credits, keys, stage, work, call, failures>>
vars == <<part, ledgerVars, orderVars>>

Ledger == INSTANCE CreditLedger
Shop == INSTANCE PaymentOrders WITH step <- stage, Requests <- ShopRequests

OneOfTwo == {{<<2>>}}
SubscriptionAndRecharge == {[kind |-> "subscription_grant", points |-> 2],
                            [kind |-> "recharge", points |-> 2]}
TakeTwo == {-2}

Init ==
    /\ part \in {"ledger", "orders"}
    /\ Ledger!Init /\ Shop!Init

InLedger(A) == part = "ledger" /\ A /\ UNCHANGED <<part, orderVars>>
InShop(A) == part = "orders" /\ A /\ UNCHANGED <<part, ledgerVars>>

Next == InLedger(Ledger!Next) \/ InShop(Shop!Next)

\* The fairness of CreditLedger and of PaymentOrders, each in its part.
Fairness ==
    /\ \A h \in Handlers :
        /\ WF_vars(InLedger(Ledger!Progress(h)))
        /\ WF_vars(InShop(Shop!Proceed(h)))
        /\ WF_vars(InShop(Shop!CallProceeds(h)))
    /\ \A o \in Orders : SF_vars(InShop(\E h \in Handlers : Shop!Notify(h, o)))

FairSpec == Init /\ [][Next]_vars /\ Fairness

\* Every request that has begun ends, and gives the account back (_postgres_conn).
RequestEnds == Ledger!RequestEnds

\* A paid order is delivered in the end, however it was closed in between
\* (internal_wechat_payment_notify).
DeliversInTheEnd == Shop!DeliversInTheEnd
=============================================================================
