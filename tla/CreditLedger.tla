---------------------------- MODULE CreditLedger ----------------------------
(***************************************************************************)
(* The credit account of a user and its ledger, as the request handlers of *)
(* api/internal_routes.py and api/admin_routes.py change them through      *)
(* domains/billing/service.py.                                             *)
(*                                                                         *)
(* Each handler runs one PostgreSQL transaction at READ COMMITTED          *)
(* (infra/postgres.py, _postgres_conn): it sees committed rows and its     *)
(* own, publishes its own by committing, and drops them on any exception.  *)
(* The steps of a transaction are actions of their own, so that those of   *)
(* two handlers interleave as the database lets them.                      *)
(*                                                                         *)
(* Two times matter.  created_at of a ledger row is NOW(), the time its    *)
(* transaction began; whether points have lapsed is asked of the clock at  *)
(* the moment of asking.                                                   *)
(***************************************************************************)
EXTENDS CreditBuckets

CONSTANTS
    Users,
    Handlers,        \* request handlers that run at the same time
    NoHandler,
    Charges,         \* the charges asked for; see below
    Grants,          \* records [kind, points]
    Refunds,         \* points a refund may give back
    Adjustments,     \* points an operator may add or take away
    Ties,            \* the order entry_id gives rows of one transaction
    Period,          \* how long subscription points last
    MaxClock         \* bound: the clock stops here, and with it new requests

(***************************************************************************)
(* A charge is the set of quotes the pricing cache may give for its events *)
(* while it runs; there are several when prices change meanwhile.  A quote *)
(* is the sequence of running totals of the points of the events.          *)
(***************************************************************************)
IsQuote(q) == /\ q \in Seq(Nat) \ {<<>>}
              /\ \A i, j \in DOMAIN q : i <= j => q[i] <= q[j]

ASSUME ConstantsAssumption ==
    /\ NoHandler \notin Handlers
    /\ \A c \in Charges : /\ c # {}
                          /\ \A q \in c : IsQuote(q)
                          /\ \A q, r \in c : Len(q) = Len(r)
    /\ Users # {}
    /\ \A g \in Grants : g.points \in Nat \ {0}
    /\ Refunds \subseteq Nat \ {0}
    /\ Adjustments \subseteq Int \ {0}
    /\ Ties \subseteq Nat
    /\ Period \in Nat \ {0} /\ MaxClock \in Nat
    /\ MaxClock + Period < Never

VARIABLES
    clock,
    balance,    \* app.user_credit_account.balance_points, committed
    ledger,     \* app.credit_ledger_entry, committed, in the order of insertion
    lock,       \* who holds the row of the account
    step,       \* how far the transaction of a handler has come
    task,       \* what it was asked to do
    began,      \* its NOW()
    asOf,       \* the time at which it looked for lapsed points
    due,        \* the buckets it has found lapsed and not yet expired
    total,      \* the balance as it has read and written it
    rows,       \* the ledger rows it has written
    charged     \* how many events of its charge it has charged

vars == <<clock, balance, ledger, lock, step, task, began, asOf, due, total, rows, charged>>

database == <<balance, ledger>>

Tasks ==
    [type : {"charge"}, user : Users, quotes : Charges]
        \cup [type : {"grant"}, user : Users, kind : {g.kind : g \in Grants},
              points : {g.points : g \in Grants}]
        \cup [type : {"refund"}, user : Users, ref : Nat, points : Refunds]
        \cup [type : {"adjust"}, user : Users, points : Adjustments]
        \cup [type : {"view"}, user : Users]

NoTask == [type |-> "view", user |-> CHOOSE u \in Users : TRUE]

User(h) == task[h].user

\* What the transaction of a handler sees in the ledger of its user.
Visible(h) == ledger[User(h)] \o rows[h]

Row(h, kind, delta, ref, tie, lapse, alloc) ==
    [kind |-> kind, delta |-> delta, after |-> total'[h], ref |-> ref, at |-> began[h],
     tie |-> tie, lapse |-> lapse, alloc |-> alloc]

Goto(h, s) == step' = [step EXCEPT ![h] = s]

-----------------------------------------------------------------------------
(***************************************************************************)
(* The references of the charges a refund can be asked for.                *)
(***************************************************************************)
ConsumedRefs(u) == {ledger[u][i].ref : i \in {j \in DOMAIN ledger[u] :
                                                ledger[u][j].kind = "consume"}}

Requests(u) ==
    [type : {"charge"}, user : {u}, quotes : Charges]
        \cup {[type |-> "grant", user |-> u, kind |-> g.kind, points |-> g.points] : g \in Grants}
        \cup [type : {"refund"}, user : {u}, ref : ConsumedRefs(u), points : Refunds]
        \cup [type : {"adjust"}, user : {u}, points : Adjustments]
        \cup [type : {"view"}, user : {u}]

\* No transaction stays open for as long as a subscription period, of 30 days.
Timely == \A h \in Handlers : step[h] # "idle" => clock + 1 < began[h] + Period

Tick ==
    /\ clock < MaxClock
    /\ Timely
    /\ clock' = clock + 1
    /\ UNCHANGED <<balance, ledger, lock, step, task, began, asOf, due, total, rows, charged>>

\* The first statement of a transaction fixes its NOW(), which is no other's.
Begin(h) ==
    /\ step[h] = "idle"
    /\ clock < MaxClock
    /\ Timely
    /\ clock' = clock + 1
    /\ began' = [began EXCEPT ![h] = clock + 1]
    /\ \E u \in Users : \E t \in Requests(u) : task' = [task EXCEPT ![h] = t]
    /\ Goto(h, "begun")
    /\ UNCHANGED <<balance, ledger, lock, asOf, due, total, rows, charged>>

\* Faulty variant of LockAccount: a plain SELECT, which neither waits nor locks.
ReadUnlocked(h) == UNCHANGED lock

(***************************************************************************)
(* Taking the row of the account: SELECT ... FOR UPDATE, or an UPDATE.  A  *)
(* handler waits while another holds the row, and holds it from then on    *)
(* until its transaction ends.                                             *)
(***************************************************************************)
LockAccount(h) ==
    /\ lock[User(h)] \in {NoHandler, h}
    /\ lock' = [lock EXCEPT ![User(h)] = h]

\* Faulty variant of EnsureAccount: ON CONFLICT DO NOTHING, which takes no lock.
EnsureWithoutLock(h) ==
    /\ step[h] = "begun"
    /\ Goto(h, "ensured")
    /\ UNCHANGED <<clock, balance, ledger, lock, task, began, asOf, due, total, rows, charged>>

(***************************************************************************)
(* _ensure_credit_account.  The account of a new user is inserted with no  *)
(* points; that of a known one is updated without a change, by ON CONFLICT *)
(* ... DO UPDATE.  Either way the row is locked from here on.              *)
(***************************************************************************)
EnsureAccount(h) ==
    /\ step[h] = "begun"
    /\ LockAccount(h)
    /\ Goto(h, "ensured")
    /\ UNCHANGED <<clock, balance, ledger, task, began, asOf, due, total, rows, charged>>

\* Faulty variant of ScanExpired: asks for what lapses within the coming period.
ScanAhead(h) ==
    /\ step[h] = "ensured"
    /\ asOf' = [asOf EXCEPT ![h] = clock + Period]
    /\ due' = [due EXCEPT ![h] = ExpiredBuckets(ledger[User(h)], clock + Period)]
    /\ Goto(h, "scanned")
    /\ UNCHANGED <<clock, balance, ledger, lock, task, began, total, rows, charged>>

(***************************************************************************)
(* _reconcile_expired_subscription_points, its read: replay the ledger and *)
(* keep the buckets of lapsed grants.                                      *)
(***************************************************************************)
ScanExpired(h) ==
    /\ step[h] = "ensured"
    /\ asOf' = [asOf EXCEPT ![h] = clock]
    /\ due' = [due EXCEPT ![h] = ExpiredBuckets(ledger[User(h)], clock)]
    /\ Goto(h, "scanned")
    /\ UNCHANGED <<clock, balance, ledger, lock, task, began, total, rows, charged>>

NothingExpired(h) ==
    /\ step[h] = "scanned"
    /\ due[h] = <<>>
    /\ Goto(h, "ready")
    /\ UNCHANGED <<clock, balance, ledger, lock, task, began, asOf, due, total, rows, charged>>

\* _get_credit_account_row(for_update=True), once there is something to expire.
LockForExpiry(h) ==
    /\ step[h] = "scanned"
    /\ due[h] # <<>>
    /\ LockAccount(h)
    /\ total' = [total EXCEPT ![h] = balance[User(h)]]
    /\ Goto(h, "expiring")
    /\ UNCHANGED <<clock, balance, ledger, task, began, asOf, due, rows, charged>>

\* One turn of its loop.  The UPDATE of the balance after the loop is in total.
ExpireBucket(h) ==
    /\ step[h] = "expiring"
    /\ due[h] # <<>>
    /\ total[h] > 0
    /\ \E points \in 1..total[h], tie \in Ties :
          /\ points = Smaller(Head(due[h]).left, total[h])
          /\ total' = [total EXCEPT ![h] = @ - points]
          /\ rows' = [rows EXCEPT ![h] =
                Append(@, Row(h, "subscription_expire", -points, Head(due[h]).id, tie,
                              Never, <<>>))]
    /\ due' = [due EXCEPT ![h] = Tail(@)]
    /\ UNCHANGED <<clock, balance, ledger, lock, step, task, began, asOf, charged>>

\* The loop ends with the buckets, or with the balance.
ExpiryDone(h) ==
    /\ step[h] = "expiring"
    /\ due[h] = <<>> \/ total[h] <= 0
    /\ due' = [due EXCEPT ![h] = <<>>]
    /\ Goto(h, "ready")
    /\ UNCHANGED <<clock, balance, ledger, lock, task, began, asOf, total, rows, charged>>

Expire(h) == ScanExpired(h) \/ NothingExpired(h) \/ LockForExpiry(h)
                \/ ExpireBucket(h) \/ ExpiryDone(h)

-----------------------------------------------------------------------------
(***************************************************************************)
(* The balance _get_credit_account returns: the committed one, or what     *)
(* the expiry in the same transaction made of it.                          *)
(***************************************************************************)
ReadBalance(h) == IF rows[h] = <<>> THEN balance[User(h)] ELSE total[h]

Write(h, kind, delta, ref, lapse, alloc) ==
    \E tie \in Ties :
        rows' = [rows EXCEPT ![h] = Append(@, Row(h, kind, delta, ref, tie, lapse, alloc))]

\* _get_credit_account(for_update=False): a page that shows the account.
ViewAccount(h) ==
    /\ step[h] = "ready" /\ task[h].type = "view"
    /\ total' = [total EXCEPT ![h] = ReadBalance(h)]
    /\ Goto(h, "written")
    /\ UNCHANGED <<clock, balance, ledger, lock, task, began, asOf, due, rows, charged>>

\* _grant_points_with_ledger, for every kind of grant.
GrantPoints(h) ==
    /\ step[h] = "ready" /\ task[h].type = "grant"
    /\ LockAccount(h)
    /\ total' = [total EXCEPT ![h] = ReadBalance(h) + task[h].points]
    /\ Write(h, task[h].kind, task[h].points, began[h],
             IF task[h].kind = "subscription_grant" THEN began[h] + Period ELSE Never, <<>>)
    /\ Goto(h, "written")
    /\ UNCHANGED <<clock, balance, ledger, task, began, asOf, due, charged>>

\* Faulty variant of AdjustPoints: nothing keeps the balance from going below zero.
AdjustUnchecked(h) ==
    /\ step[h] = "ready" /\ task[h].type = "adjust"
    /\ LockAccount(h)
    /\ total' = [total EXCEPT ![h] = ReadBalance(h) + task[h].points]
    /\ Write(h, "admin_adjustment", task[h].points, began[h], Never, <<>>)
    /\ Goto(h, "written")
    /\ UNCHANGED <<clock, balance, ledger, task, began, asOf, due, charged>>

\* _adjust_user_points_with_ledger.
AdjustPoints(h) ==
    /\ step[h] = "ready" /\ task[h].type = "adjust"
    /\ ReadBalance(h) + task[h].points >= 0
    /\ LockAccount(h)
    /\ total' = [total EXCEPT ![h] = ReadBalance(h) + task[h].points]
    /\ Write(h, "admin_adjustment", task[h].points, began[h], Never, <<>>)
    /\ Goto(h, "written")
    /\ UNCHANGED <<clock, balance, ledger, task, began, asOf, due, charged>>

\* refund_points.
RefundPoints(h) ==
    /\ step[h] = "ready" /\ task[h].type = "refund"
    /\ LockAccount(h)
    /\ total' = [total EXCEPT ![h] = ReadBalance(h) + task[h].points]
    /\ Write(h, "refund", task[h].points, task[h].ref, Never,
             RefundAllocations(Visible(h), task[h].ref, task[h].points))
    /\ Goto(h, "written")
    /\ UNCHANGED <<clock, balance, ledger, task, began, asOf, due, charged>>

\* charge_points, its check: the balance covers all events at the prices of now.
CheckFunds(h) ==
    /\ step[h] = "ready" /\ task[h].type = "charge"
    /\ \E q \in task[h].quotes : ReadBalance(h) >= Last(q)
    /\ LockAccount(h)
    /\ total' = [total EXCEPT ![h] = ReadBalance(h)]
    /\ charged' = [charged EXCEPT ![h] = 0]
    /\ Goto(h, "charging")
    /\ UNCHANGED <<clock, balance, ledger, task, began, asOf, due, rows>>

EventPoints(q, i) == IF i = 1 THEN q[1] ELSE q[i] - q[i - 1]

EventsLeft(h) == \E q \in task[h].quotes : charged[h] < Len(q)

(***************************************************************************)
(* charge_points, one event: price it again, find the buckets it is paid   *)
(* from, and write the balance and the row.                                *)
(***************************************************************************)
ChargeEvent(h) ==
    /\ step[h] = "charging"
    /\ EventsLeft(h)
    /\ \E q \in task[h].quotes :
          LET points == EventPoints(q, charged[h] + 1)
              preview == Preview(Visible(h), points)
          IN  /\ preview.rest = 0
              /\ total' = [total EXCEPT ![h] = @ - points]
              /\ Write(h, "consume", -points, began[h], Never, preview.taken)
    /\ charged' = [charged EXCEPT ![h] = @ + 1]
    /\ UNCHANGED <<clock, balance, ledger, lock, step, task, began, asOf, due>>

ChargeDone(h) ==
    /\ step[h] = "charging"
    /\ ~EventsLeft(h)
    /\ Goto(h, "written")
    /\ UNCHANGED <<clock, balance, ledger, lock, task, began, asOf, due, total, rows, charged>>

Operate(h) == ViewAccount(h) \/ GrantPoints(h) \/ AdjustPoints(h) \/ RefundPoints(h)
                 \/ CheckFunds(h) \/ ChargeEvent(h) \/ ChargeDone(h)

-----------------------------------------------------------------------------
\* Faulty variant of End: the row stays locked.
EndStillLocked(h) ==
    /\ Goto(h, "idle")
    /\ task' = [task EXCEPT ![h] = NoTask]
    /\ began' = [began EXCEPT ![h] = 0]
    /\ asOf' = [asOf EXCEPT ![h] = 0]
    /\ due' = [due EXCEPT ![h] = <<>>]
    /\ total' = [total EXCEPT ![h] = 0]
    /\ rows' = [rows EXCEPT ![h] = <<>>]
    /\ charged' = [charged EXCEPT ![h] = 0]
    /\ UNCHANGED <<clock, lock>>

\* The end of a transaction: it releases the row, and its variables are gone.
End(h) ==
    /\ lock' = [lock EXCEPT ![User(h)] = IF @ = h THEN NoHandler ELSE @]
    /\ Goto(h, "idle")
    /\ task' = [task EXCEPT ![h] = NoTask]
    /\ began' = [began EXCEPT ![h] = 0]
    /\ asOf' = [asOf EXCEPT ![h] = 0]
    /\ due' = [due EXCEPT ![h] = <<>>]
    /\ total' = [total EXCEPT ![h] = 0]
    /\ rows' = [rows EXCEPT ![h] = <<>>]
    /\ charged' = [charged EXCEPT ![h] = 0]
    /\ UNCHANGED clock

Commit(h) ==
    /\ step[h] = "written"
    /\ balance' = [balance EXCEPT ![User(h)] = IF rows[h] = <<>> THEN @ ELSE total[h]]
    /\ ledger' = [ledger EXCEPT ![User(h)] = @ \o rows[h]]
    /\ End(h)

(***************************************************************************)
(* The HTTPException of a handler that refuses: 402 when the balance or    *)
(* the buckets do not cover a charge, 400 for an adjustment below zero.    *)
(* What the transaction had expired is lost with it.                       *)
(***************************************************************************)
Refuse(h) ==
    /\ \/ /\ step[h] = "ready" /\ task[h].type = "charge"
          /\ \E q \in task[h].quotes : ReadBalance(h) < Last(q)
       \/ /\ step[h] = "ready" /\ task[h].type = "adjust"
          /\ ReadBalance(h) + task[h].points < 0
       \/ /\ step[h] = "charging" /\ EventsLeft(h)
          /\ \E q \in task[h].quotes :
                Preview(Visible(h), EventPoints(q, charged[h] + 1)).rest > 0
    /\ End(h)
    /\ UNCHANGED database

\* The handler dies or loses its connection; the database rolls back.
Crash(h) ==
    /\ step[h] # "idle"
    /\ End(h)
    /\ UNCHANGED database

-----------------------------------------------------------------------------
Init ==
    /\ clock = 0
    /\ balance = [u \in Users |-> 0]
    /\ ledger = [u \in Users |-> <<>>]
    /\ lock = [u \in Users |-> NoHandler]
    /\ step = [h \in Handlers |-> "idle"]
    /\ task = [h \in Handlers |-> NoTask]
    /\ began = [h \in Handlers |-> 0]
    /\ asOf = [h \in Handlers |-> 0]
    /\ due = [h \in Handlers |-> <<>>]
    /\ total = [h \in Handlers |-> 0]
    /\ rows = [h \in Handlers |-> <<>>]
    /\ charged = [h \in Handlers |-> 0]

Progress(h) == EnsureAccount(h) \/ Expire(h) \/ Operate(h) \/ Commit(h) \/ Refuse(h)

Next == \/ Tick
        \/ \E h \in Handlers : Begin(h) \/ Progress(h) \/ Crash(h)

Spec == Init /\ [][Next]_vars

(***************************************************************************)
(* A handler that has begun keeps running.  It waits for a row only while  *)
(* its holder runs, and only finitely many requests come in between, since *)
(* PostgreSQL grants a row in the order of asking.                         *)
(***************************************************************************)
Fairness == \A h \in Handlers : WF_vars(Progress(h))

FairSpec == Spec /\ Fairness

-----------------------------------------------------------------------------
(***************************************************************************)
(* Properties.                                                             *)
(***************************************************************************)
Steps == {"idle", "begun", "ensured", "scanned", "expiring", "ready", "charging", "written"}

Kinds == {g.kind : g \in Grants}
            \cup {"consume", "refund", "subscription_expire", "admin_adjustment"}

Sources == {"subscription", "recharge", "other"}

Allocation == [id : Nat, source : Sources, points : Nat, lapse : Nat]

RowType == [kind : Kinds, delta : Int, after : Int, ref : Nat, at : Nat, tie : Ties,
            lapse : Nat, alloc : Seq(Allocation)]

\* Every variable keeps its type.
TypeOK ==
    /\ clock \in 0..MaxClock
    /\ balance \in [Users -> Int]
    /\ lock \in [Users -> Handlers \cup {NoHandler}]
    /\ step \in [Handlers -> Steps]
    /\ DOMAIN task = Handlers /\ \A h \in Handlers : task[h] \in Tasks
    /\ began \in [Handlers -> 0..MaxClock] /\ asOf \in [Handlers -> 0..MaxClock]
    /\ total \in [Handlers -> Int] /\ charged \in [Handlers -> Nat]
    /\ DOMAIN ledger = Users /\ DOMAIN rows = Handlers
    /\ \A u \in Users : \A i \in DOMAIN ledger[u] : ledger[u][i] \in RowType
    /\ \A h \in Handlers : \A i \in DOMAIN rows[h] : rows[h][i] \in RowType

(***************************************************************************)
(* Each row of a sequence records the balance that follows from the one    *)
(* before it, the first from a given start.                                *)
(***************************************************************************)
IsChain(start, rs) ==
    \A i \in DOMAIN rs :
        rs[i].after = (IF i = 1 THEN start ELSE rs[i - 1].after) + rs[i].delta

\* The balance after the rows of a sequence, from a given start.
EndOf(start, rs) == IF rs = <<>> THEN start ELSE rs[Len(rs)].after

(***************************************************************************)
(* The account and its ledger tell the same story: every row carries on    *)
(* from the balance the row before it left, and the account holds what the *)
(* last row says.  No update is lost, whatever handlers ran side by side   *)
(* and wherever one of them died.                                          *)
(***************************************************************************)
LedgerExplainsBalance ==
    \A u \in Users :
        /\ IsChain(0, ledger[u])
        /\ balance[u] = EndOf(0, ledger[u])

(***************************************************************************)
(* Two transactions never work on one account at the same time: from the   *)
(* upsert that begins each of them, the second waits for the first to end. *)
(* This is what makes it safe that the ledger is replayed, and lapsed      *)
(* points are looked for, before any SELECT ... FOR UPDATE.                *)
(***************************************************************************)
OneTransactionPerAccount ==
    \A g, h \in Handlers :
        g # h /\ {step[g], step[h]} \cap {"idle", "begun"} = {} => User(g) # User(h)

\* No row ever leaves an account below zero, so a charge never spends what is not there.
NoOverdraft ==
    \A u \in Users : \A i \in DOMAIN ledger[u] : ledger[u][i].after >= 0

SumOver(rs, Points(_)) == FoldLeft(LAMBDA sum, r : sum + Points(r), 0, rs)

AllocatedTo(g, r) ==
    LET points == SumOver(r.alloc, LAMBDA a : IF a.id = g THEN a.points ELSE 0)
    IN  CASE r.kind = "consume" -> points [] r.kind = "refund" -> -points [] OTHER -> 0

ExpiredFrom(g, r) == IF r.kind = "subscription_expire" /\ r.ref = g THEN -r.delta ELSE 0

SubscriptionGrants(u) ==
    {i \in DOMAIN ledger[u] : ledger[u][i].kind = "subscription_grant"}

(***************************************************************************)
(* A grant lapses once: what expires of it never comes to more than was    *)
(* granted, though any number of handlers may find it lapsed at the same   *)
(* time, each from its own replay of the ledger.                           *)
(***************************************************************************)
GrantExpiresOnce ==
    \A u \in Users : \A i \in SubscriptionGrants(u) :
        LET g == ledger[u][i]
        IN  SumOver(ledger[u], LAMBDA r : ExpiredFrom(g.ref, r)) <= g.delta

(***************************************************************************)
(* Expiry removes the unspent points of the subscription and no others:    *)
(* what expires of a grant is at most what was granted less what charges   *)
(* have recorded as paid from it (net of refunds).  Were it more, the      *)
(* excess would come out of points that were recharged.                    *)
(***************************************************************************)
ExpiryTakesOnlyUnspentPoints ==
    \A u \in Users : \A i \in SubscriptionGrants(u) :
        LET g == ledger[u][i]
            expired == SumOver(ledger[u], LAMBDA r : ExpiredFrom(g.ref, r))
        IN  expired > 0 =>
                expired + SumOver(ledger[u], LAMBDA r : AllocatedTo(g.ref, r)) <= g.delta

\* Points a refund gave back beyond what the charge had taken: they are in no bucket.
Unplaced(rs) ==
    SumOver(rs, LAMBDA r : IF r.kind = "refund" /\ r.alloc # <<>>
                           THEN r.delta - SumOver(r.alloc, LAMBDA a : a.points) ELSE 0)

(***************************************************************************)
(* The buckets of a replay never hold less than the balance, but for what  *)
(* refunds gave back beyond the charge: a charge the balance covers is not *)
(* turned away for want of buckets.                                        *)
(***************************************************************************)
BucketsCoverBalance ==
    \A u \in Users : PointsIn(Replay(ledger[u])) + Unplaced(ledger[u]) >= balance[u]

(***************************************************************************)
(* Handlers that run one after the other leave buckets that hold the       *)
(* balance: no points appear in a bucket that the account does not have.   *)
(***************************************************************************)
BucketsMatchBalance ==
    /\ BucketsCoverBalance
    /\ \A u \in Users : PointsIn(Replay(ledger[u])) <= balance[u]

(***************************************************************************)
(* After the expiry of a transaction no points of a subscription are left  *)
(* whose period had ended when it looked.                                  *)
(***************************************************************************)
NoLapsedPoints ==
    \A h \in Handlers :
        step[h] = "ready" =>
            \A b \in ToSet(Replay(Visible(h))) :
                b.source = "subscription" /\ b.lapse <= asOf[h] => b.left = 0

(***************************************************************************)
(* Every request ends, and gives the account back: a handler is idle again *)
(* and again.                                                              *)
(***************************************************************************)
RequestEnds == \A h \in Handlers : []<>(step[h] = "idle")
=============================================================================
