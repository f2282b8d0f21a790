---------------------------- MODULE Subscriptions ----------------------------
(***************************************************************************)
(* What the orders of one buyer promise when they are placed, and what     *)
(* they give when they are paid: points, rewards of promotions, periods of *)
(* a monthly subscription and the plan tier that comes with it             *)
(* (api/portal_routes.py, api/internal_routes.py and                       *)
(* domains/billing/service.py).                                            *)
(*                                                                         *)
(* Requests run one transaction each, at READ COMMITTED.  Whoever changes  *)
(* points, claims, tier or a known subscription holds the row of the       *)
(* account while doing so; placing an order takes no lock at all.  When    *)
(* and how often the callback of an order arrives is the matter of         *)
(* PaymentOrders: here it may at any time, and again after a failure.      *)
(***************************************************************************)
EXTENDS Naturals, FiniteSets, FiniteSetsExt, Bags

CONSTANTS
    Orders, Handlers, NoHandler,
    Monthly,       \* packages of type monthly_subscription; each names its tier
    Packs,         \* packages of type credit_pack
    Price,         \* what a pack costs
    Bonused,       \* packs with a bonus on every purchase
    Single,        \* the rules: the bonus of a pack,
    Cumulative,    \*   rewards for the sum of all purchases,
    First,         \*   and a discount on the first subscription
    Threshold,     \* the sum at which a cumulative reward is due
    Buyer,         \* the user, as the key of a claim
    Free,          \* the tier of a user without a subscription
    Period,        \* the days of a monthly package
    Points,        \* its points, which one route takes for days
    MaxClock       \* bound: the clock stops here

Rules == {Single, First} \cup Cumulative

ASSUME ConstantsAssumption ==
    /\ IsFiniteSet(Orders) /\ NoHandler \notin Handlers
    /\ Monthly \cap Packs = {} /\ Free \notin Monthly
    /\ Bonused \subseteq Packs
    /\ Price \in [Packs -> Nat \ {0}] /\ Threshold \in [Cumulative -> Nat \ {0}]
    /\ Single # First /\ {Single, First} \cap Cumulative = {}
    /\ Buyer \notin Orders
    /\ Period \in Nat \ {0} /\ Points \in Nat \ {0} /\ MaxClock \in Nat

VARIABLES
    clock,
    orders,     \* app.payment_order: status, package and promotion_snapshot_json
    subs,       \* app.billing_subscription, by the order that opened it
    claims,     \* app.promotion_claim: rule and claim_key
    ledger,     \* app.credit_ledger_entry: a bag of entry type and reference
    tier,       \* app.app_user.plan_tier
    lock,       \* who holds the row of app.user_credit_account
    step, task, \* how far the transaction of a handler is, and what it does
    draft       \* what it has written and not yet committed

vars == <<clock, orders, subs, claims, ledger, tier, lock, step, task, draft>>

Packages == Monthly \cup Packs

NoOrder == [status |-> "none"]
\* _normalize_period_window, without a window in the request.
Lasting(start, days) == [start |-> start, end |-> start + days]

Periods == {Lasting(start, days) : start \in 0 .. MaxClock, days \in {Period, Points}}
FirstPeriod == Lasting(0, Period)

NoSub == [status |-> "none", period |-> FirstPeriod]
Active(period) == [status |-> "active", period |-> period]

Tasks == [type : {"idle", "view", "gift"}]
           \cup [type : {"order"}, package : Packages, claimed : SUBSET Rules]
           \cup [type : {"paid", "grant"}, of : Orders, period : Periods]

Idle == [type |-> "idle"]

NoDraft == [subs |-> [o \in Orders |-> NoSub], tier |-> Free, claims |-> {}, rows |-> {}]

-----------------------------------------------------------------------------
(***************************************************************************)
(* The references of ledger rows.                                          *)
(***************************************************************************)
Recharge(o) == <<"recharge", o, o>>
Grant(o, period) == <<"subscription_grant", o, period>>
Reward(claim) == <<"promotion_reward", claim[1], claim[2]>>
Gift == <<"signup_gift", Buyer, Buyer>>

IsMonthly(o) == orders[o].package \in Monthly
Paid == {o \in Orders : orders[o].status = "paid"}

\* The claim_key of a reward: the order for a bonus on every purchase, else the buyer.
Claim(o, rule) == <<rule, IF rule = Single THEN o ELSE Buyer>>

Rewards(o) == {Claim(o, rule) : rule \in orders[o].rewards}
Discounts(o) == {Claim(o, rule) : rule \in orders[o].applied}

Total(os) == MapThenSumSet(LAMBDA o : Price[orders[o].package], os)

\* _sum_paid_recharge_amount_cents
PaidTotal == Total({o \in Paid : ~IsMonthly(o)})

End(sub) == sub.period.end
InForce(sub) == sub.status = "active" /\ End(sub) > clock

Goto(h, s) == step' = [step EXCEPT ![h] = s]

-----------------------------------------------------------------------------
(***************************************************************************)
(* Placing an order reads three times, and other transactions may commit   *)
(* in between: the subscriptions (_build_monthly_package_purchase_guard),  *)
(* then the claims, then the orders already paid.                          *)
(***************************************************************************)
AskForOrder(h, p) ==
    /\ step[h] = "idle"
    /\ p \in Monthly => \A o \in Orders : ~InForce(subs[o])
    /\ task' = [task EXCEPT ![h] = [type |-> "order", package |-> p, claimed |-> {}]]
    /\ Goto(h, "allowed")
    /\ UNCHANGED <<clock, orders, subs, claims, ledger, tier, lock, draft>>

ReadClaims(h) ==
    /\ step[h] = "allowed"
    /\ task' = [task EXCEPT ![h].claimed = {c[1] : c \in claims}]
    /\ Goto(h, "claims read")
    /\ UNCHANGED <<clock, orders, subs, claims, ledger, tier, lock, draft>>

\* Faulty variant of Crossed: orders that are not paid yet count as well.
CrossedByPending(p, rule) ==
    LET before == Total({o \in Orders : orders[o].status # "none" /\ ~IsMonthly(o)})
    IN  before < Threshold[rule] /\ Threshold[rule] <= before + Price[p]

\* Whether paying for p, and nothing else, takes the sum across the threshold of a rule.
Crossed(p, rule) ==
    PaidTotal < Threshold[rule] /\ Threshold[rule] <= PaidTotal + Price[p]

(***************************************************************************)
(* _build_payment_order_snapshot and the INSERT of the order, which keeps  *)
(* the snapshot.                                                           *)
(***************************************************************************)
PlaceOrder(h, o) ==
    LET p == task[h].package
        open == Cumulative \ task[h].claimed
    IN  /\ step[h] = "claims read"
        /\ orders[o] = NoOrder
        /\ orders' = [orders EXCEPT ![o] =
               [status |-> "pending", package |-> p,
                applied |-> IF p \in Monthly /\ First \notin task[h].claimed
                                             /\ ~\E q \in Paid : IsMonthly(q)
                            THEN {First} ELSE {},
                rewards |-> IF p \in Packs
                            THEN {rule \in open : Crossed(p, rule)}
                                   \cup {rule \in {Single} : p \in Bonused}
                            ELSE {}]]
        /\ task' = [task EXCEPT ![h] = Idle]
        /\ Goto(h, "idle")
        /\ UNCHANGED <<clock, subs, claims, ledger, tier, lock, draft>>

-----------------------------------------------------------------------------
(***************************************************************************)
(* The start of internal_payment_provider_callback: the order is marked    *)
(* paid, which waits for another callback of the same order.  For a        *)
(* monthly package the period begins now, and a new subscription and its   *)
(* grant are inserted, before the row of the account is asked for.         *)
(***************************************************************************)
CallbackBegin(h, o) ==
    /\ step[h] = "idle"
    /\ orders[o].status = "pending"
    /\ \A g \in Handlers : ~(task[g].type = "paid" /\ task[g].of = o)
    /\ task' = [task EXCEPT ![h] = [type |-> "paid", of |-> o,
                                     period |-> IF IsMonthly(o) THEN Lasting(clock, Period) ELSE FirstPeriod]]
    /\ Goto(h, "begun")
    /\ UNCHANGED <<clock, orders, subs, claims, ledger, tier, lock, draft>>

\* Faulty variant of PeriodFree: SELECT first, and no unique index to wait on.
PeriodUnseen(o, period) == ~BagIn(Grant(o, period), ledger)

\* UNIQUE (subscription_id, period_start, period_end): an INSERT waits for another of the
\* same period, and is answered with 409 if that one is committed.
PeriodFree(o, period) ==
    /\ ~BagIn(Grant(o, period), ledger)
    /\ \A g \in Handlers : ~(task[g].type = "grant" /\ task[g].of = o /\ task[g].period = period)

(***************************************************************************)
(* The start of internal_grant_subscription_points.  A window given in the *)
(* request arrives as text, and _normalize_period_window fails on it; left *)
(* out, it begins now and lasts as many days as the package has points.    *)
(***************************************************************************)
PeriodBegin(h, o) ==
    LET period == Lasting(clock, Points)
    IN  /\ step[h] = "idle"
        /\ subs[o].status # "none"
        /\ PeriodFree(o, period)
        /\ task' = [task EXCEPT ![h] = [type |-> "grant", of |-> o, period |-> period]]
        /\ Goto(h, "begun")
        /\ UNCHANGED <<clock, orders, subs, claims, ledger, tier, lock, draft>>

\* _ensure_user_credit_account_state, of a user whose address is verified ("gift") or not.
AccountBegin(h) ==
    /\ step[h] = "idle"
    /\ \E type \in {"view", "gift"} : task' = [task EXCEPT ![h] = [type |-> type]]
    /\ Goto(h, "begun")
    /\ UNCHANGED <<clock, orders, subs, claims, ledger, tier, lock, draft>>

-----------------------------------------------------------------------------
\* Faulty variant of LockAccount: INSERT ... ON CONFLICT DO NOTHING, which takes no lock.
LockNothing(h) ==
    /\ step[h] = "begun"
    /\ Goto(h, "locked")
    /\ UNCHANGED <<clock, orders, subs, claims, ledger, tier, lock, task, draft>>

\* _ensure_credit_account: INSERT ... ON CONFLICT DO UPDATE locks the row of the account.
LockAccount(h) ==
    /\ step[h] = "begun"
    /\ lock = NoHandler
    /\ lock' = h
    /\ Goto(h, "locked")
    /\ UNCHANGED <<clock, orders, subs, claims, ledger, tier, task, draft>>

\* The subscriptions a transaction sees: those committed and the one it has inserted.
Visible(h) ==
    IF task[h].type = "paid" /\ IsMonthly(task[h].of)
    THEN [subs EXCEPT ![task[h].of] = Active(task[h].period)]
    ELSE subs

Lapse(ss) ==
    [o \in Orders |-> IF ss[o].status = "active" /\ End(ss[o]) <= clock
                      THEN [ss[o] EXCEPT !.status = "expired"] ELSE ss[o]]

(***************************************************************************)
(* The package whose tier the user gets: that of the subscription which    *)
(* ends last.  Of several that end together updated_at decides, which      *)
(* says when their transactions began: any of them, here.                  *)
(***************************************************************************)
Tiers(ss) ==
    LET active == {o \in Orders : InForce(ss[o])}
        last == {o \in active : \A q \in active : End(ss[q]) <= End(ss[o])}
    IN  IF active = {} THEN {Free} ELSE {orders[o].package : o \in last}

\* Faulty variant of Reconcile: subscriptions expire, and the tier stays.
ReconcileStatusOnly(h) ==
    /\ step[h] = "locked"
    /\ draft' = [draft EXCEPT ![h] =
           [subs |-> Lapse(Visible(h)), tier |-> tier, claims |-> claims, rows |-> {}]]
    /\ Goto(h, "reconciled")
    /\ UNCHANGED <<clock, orders, subs, claims, ledger, tier, lock, task>>

\* _reconcile_user_subscription_state
Reconcile(h) ==
    /\ step[h] = "locked"
    /\ LET ss == Lapse(Visible(h))
       IN  \E t \in Tiers(ss) :
               draft' = [draft EXCEPT ![h] = [subs |-> ss, tier |-> t, claims |-> claims, rows |-> {}]]
    /\ Goto(h, "reconciled")
    /\ UNCHANGED <<clock, orders, subs, claims, ledger, tier, lock, task>>

-----------------------------------------------------------------------------
\* The points of a credit pack.
CreditPack(h) ==
    /\ step[h] = "reconciled"
    /\ task[h].type = "paid" /\ ~IsMonthly(task[h].of)
    /\ draft' = [draft EXCEPT ![h].rows = @ \cup {Recharge(task[h].of)}]
    /\ Goto(h, "credited")
    /\ UNCHANGED <<clock, orders, subs, claims, ledger, tier, lock, task>>

\* The points and the period of _grant_subscription_period.
CreditPeriod(h) ==
    LET o == task[h].of
        period == task[h].period
    IN  /\ step[h] = "reconciled"
        /\ task[h].type = "grant" \/ (task[h].type = "paid" /\ IsMonthly(o))
        /\ draft' = [draft EXCEPT ![h].rows = @ \cup {Grant(o, period)},
                                  ![h].subs[o] = Active(period),
                                  \* _apply_user_plan_tier_from_package, after a payment only
                                  ![h].tier = IF task[h].type = "paid" THEN orders[o].package ELSE @]
        /\ Goto(h, IF task[h].type = "paid" THEN "credited" ELSE "written")
        /\ UNCHANGED <<clock, orders, subs, claims, ledger, tier, lock, task>>

(***************************************************************************)
(* More points for an account that was reconciled before, if rows are due: *)
(* _grant_points_with_ledger reconciles it again.                          *)
(***************************************************************************)
GrantMore(h, rows, claimed) ==
    LET ss == IF rows = {} THEN draft[h].subs ELSE Lapse(draft[h].subs)
    IN  /\ \E t \in IF rows = {} THEN {draft[h].tier} ELSE Tiers(ss) :
               draft' = [draft EXCEPT ![h].subs = ss, ![h].tier = t,
                                      ![h].claims = @ \cup claimed, ![h].rows = @ \cup rows]
        /\ Goto(h, "written")
        /\ UNCHANGED <<clock, orders, subs, claims, ledger, tier, lock, task>>

\* _grant_signup_gift_if_needed: once the account is locked, the ledger says whether
\* the gift was given.
CreditGift(h) ==
    /\ step[h] = "reconciled"
    /\ task[h].type \in {"gift", "view"}
    /\ GrantMore(h, IF task[h].type = "gift" /\ ~BagIn(Gift, ledger) THEN {Gift} ELSE {}, {})

\* Faulty variant of Promote: a reward is paid out whether or not its claim is new.
PromoteUnclaimed(h) ==
    LET o == task[h].of
    IN  /\ step[h] = "credited"
        /\ GrantMore(h, {Reward(c) : c \in Rewards(o)}, Rewards(o) \cup Discounts(o))

(***************************************************************************)
(* _apply_order_promotions_after_payment: a reward whose claim is new is   *)
(* paid out; a discount is only recorded.                                  *)
(***************************************************************************)
Promote(h) ==
    LET o == task[h].of
        new == Rewards(o) \ draft[h].claims
    IN  /\ step[h] = "credited"
        /\ GrantMore(h, {Reward(c) : c \in new}, new \cup Discounts(o))

-----------------------------------------------------------------------------
\* The end of a transaction: what it held is free, and what it had written is gone.
Leave(h) ==
    /\ task' = [task EXCEPT ![h] = Idle]
    /\ draft' = [draft EXCEPT ![h] = NoDraft]
    /\ lock' = IF lock = h THEN NoHandler ELSE lock
    /\ Goto(h, "idle")

Commit(h) ==
    /\ step[h] = "written"
    /\ orders' = IF task[h].type = "paid"
                 THEN [orders EXCEPT ![task[h].of].status = "paid"] ELSE orders
    /\ subs' = draft[h].subs
    /\ claims' = draft[h].claims
    /\ tier' = draft[h].tier
    /\ ledger' = ledger (+) SetToBag(draft[h].rows)
    /\ Leave(h)
    /\ UNCHANGED clock

\* Faulty variant of Fail: the order stays paid, as if its UPDATE had been committed at once.
FailAfterPaid(h) ==
    /\ step[h] # "idle"
    /\ orders' = IF task[h].type = "paid"
                 THEN [orders EXCEPT ![task[h].of].status = "paid"] ELSE orders
    /\ Leave(h)
    /\ UNCHANGED <<clock, subs, claims, ledger, tier>>

\* An exception, a refusal or the death of the process: the transaction is rolled back.
Fail(h) ==
    /\ step[h] # "idle"
    /\ Leave(h)
    /\ UNCHANGED <<clock, orders, subs, claims, ledger, tier>>

Tick ==
    /\ clock < MaxClock
    /\ clock' = clock + 1
    /\ UNCHANGED <<orders, subs, claims, ledger, tier, lock, step, task, draft>>

Init ==
    /\ clock = 0
    /\ orders = [o \in Orders |-> NoOrder]
    /\ subs = [o \in Orders |-> NoSub]
    /\ claims = {} /\ ledger = EmptyBag /\ tier = Free
    /\ lock = NoHandler
    /\ step = [h \in Handlers |-> "idle"]
    /\ task = [h \in Handlers |-> Idle]
    /\ draft = [h \in Handlers |-> NoDraft]

Next ==
    \/ Tick
    \/ \E h \in Handlers :
           \/ \E p \in Packages : AskForOrder(h, p)
           \/ \E o \in Orders : PlaceOrder(h, o) \/ CallbackBegin(h, o) \/ PeriodBegin(h, o)
           \/ ReadClaims(h) \/ AccountBegin(h)
           \/ LockAccount(h) \/ Reconcile(h)
           \/ CreditPack(h) \/ CreditPeriod(h) \/ CreditGift(h) \/ Promote(h)
           \/ Commit(h) \/ Fail(h)

Spec == Init /\ [][Next]_vars

-----------------------------------------------------------------------------
OrderRows ==
    {NoOrder} \cup [status : {"pending", "paid"}, package : Packages,
                    applied : SUBSET {First}, rewards : SUBSET (Rules \ {First})]

SubRows == [status : {"none", "active", "expired"}, period : Periods]

Claims == {<<rule, key>> : rule \in Rules, key \in Orders \cup {Buyer}}

Refs == {Recharge(o) : o \in Orders} \cup {Grant(o, period) : o \in Orders, period \in Periods}
          \cup {Reward(c) : c \in Claims} \cup {Gift}

Drafts ==
    [subs : [Orders -> SubRows], tier : Monthly \cup {Free}, claims : SUBSET Claims, rows : SUBSET Refs]

\* The steps of a transaction that holds the row of the account.
Holding == {"locked", "reconciled", "credited", "written"}

(***************************************************************************)
(* Every variable has its type, and only the transaction that holds the    *)
(* row of the account is past the point where it asked for it.             *)
(***************************************************************************)
TypeOK ==
    /\ clock \in 0 .. MaxClock
    /\ orders \in [Orders -> OrderRows]
    /\ subs \in [Orders -> SubRows]
    /\ claims \subseteq Claims
    /\ IsABag(ledger) /\ BagToSet(ledger) \subseteq Refs
    /\ tier \in Monthly \cup {Free}
    /\ lock \in Handlers \cup {NoHandler}
    /\ step \in [Handlers -> {"idle", "allowed", "claims read", "begun"} \cup Holding]
    /\ task \in [Handlers -> Tasks]
    /\ draft \in [Handlers -> Drafts]
    /\ \A h \in Handlers : step[h] \in Holding <=> lock = h

(***************************************************************************)
(* A recharge, a reward, a period and the sign-up gift are credited once,  *)
(* however many callbacks, retries and requests ask for them.              *)
(***************************************************************************)
CreditedOnce == \A r \in BagToSet(ledger) : ledger[r] = 1

(***************************************************************************)
(* The ledger, the claims and the subscriptions are what the paid orders   *)
(* promised: nothing of an order is left out or given before it is paid,   *)
(* and no reward is paid out without a claim, or claimed and not paid.     *)
(***************************************************************************)
PaidForExactly ==
    /\ \A o \in Orders :
           /\ o \in Paid /\ ~IsMonthly(o) <=> BagIn(Recharge(o), ledger)
           /\ o \in Paid /\ IsMonthly(o) <=> subs[o].status # "none"
           /\ subs[o].status # "none" => BagIn(Grant(o, subs[o].period), ledger)
    /\ claims = UNION {Rewards(o) \cup Discounts(o) : o \in Paid}
    /\ {r \in BagToSet(ledger) : r[1] = "promotion_reward"} = {Reward(c) : c \in claims \ {<<First, Buyer>>}}

(***************************************************************************)
(* A cumulative reward is only paid out to a buyer whose paid purchases    *)
(* come to its threshold, whichever orders were placed or paid meanwhile.  *)
(***************************************************************************)
RewardIsEarned ==
    \A rule \in Cumulative :
        BagIn(Reward(<<rule, Buyer>>), ledger) => PaidTotal >= Threshold[rule]

(***************************************************************************)
(* A user with the tier of a package has a subscription to it that is not  *)
(* yet marked as expired.                                                  *)
(***************************************************************************)
TierHasSubscription ==
    tier # Free => \E o \in Orders : subs[o].status = "active" /\ orders[o].package = tier

(***************************************************************************)
(* Nobody loses the tier of a subscription that is in force, not even when *)
(* the account is reconciled while a payment is being credited.            *)
(***************************************************************************)
DemotedOnlyWhenLapsed ==
    [][tier' = Free /\ tier # Free => \A o \in Orders : ~InForce(subs[o])]_vars

(***************************************************************************)
(* What the product description says of monthly packages: while one is in  *)
(* force, no other can be bought.                                          *)
(***************************************************************************)
OneSubscriptionInForce ==
    Cardinality({o \in Orders : InForce(subs[o])}) <= 1

(***************************************************************************)
(* What the product description says of cumulative rewards: whoever has    *)
(* paid the sum has the reward.                                            *)
(***************************************************************************)
ThresholdIsRewarded ==
    \A rule \in Cumulative : PaidTotal >= Threshold[rule] => <<rule, Buyer>> \in claims
=============================================================================
