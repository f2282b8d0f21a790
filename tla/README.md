# A formal model of xiamimate-chat-backend

These TLA+ modules describe the parts of the chat backend (`src/data_platform/chat_backend`)
in which steps of several actors meet, from the credit ledger and the payment of orders to mailings and the
checkout page, and the algorithms that must agree with each other. TLC checks them on small instances;
TLAPS proves the central invariants of ledger, payments, subscriptions, redeem codes, invitations, guests' quotas, limits
and caches, codes by mail, device sessions, mailings, notifications, jobs and user records for every instance.

Paths are relative to `src/data_platform/chat_backend` unless they begin with `src/`.

## 1. Inventory

The service is a FastAPI application. Synchronous handlers run in a thread pool; each opens one or more
transactions with `_postgres_conn` (`infra/postgres.py:58`), which commits when its block ends and rolls
back on any exception, a refusal with `HTTPException` included. Nothing sets an isolation level, so
PostgreSQL runs at READ COMMITTED: a statement sees what is committed when the statement begins, and
two transactions meet only at row locks and unique keys. Nothing retries, save the upsert of a user.

| Component | State | Operations | Talks to | What is hard | What makes it correct |
|---|---|---|---|---|---|
| Credit ledger (`domains/billing/service.py`, `api/internal_routes.py`, `domains/admin/service.py`) | `user_credit_account`, `credit_ledger_entry`, `subscription_grant` | charge, refund, grant, adjust, view; expiry inside each | every component that sells or gives points | expiry is lazy and reads before it locks; the replay follows `created_at`, the balance follows the lock; prices may change during a charge; refunds | the ledger explains the balance, nothing lapses twice, no overdraft, buckets and balance agree |
| Orders and payments (`api/portal_routes.py`, `api/internal_routes.py`, `domains/payments`) | `payment_order`, `payment_session`, `idempotency_request`, `payment_callback_event` | create, list, poll, cancel, QR code, notification, callback, operators' query and cleanup | WeChat; itself over HTTP; ledger, subscriptions, promotions | no handler is one transaction; late answers, timeouts whose work goes on, repeated notifications | credited once, only for money, in the end; paid is final; no false answer |
| Subscriptions and promotions (`domains/billing/service.py:1669-2371`) | `billing_subscription`, `subscription_grant`, `promotion_rule`, `promotion_claim`, `plan_tier` | guard, price, grant of a period, tier, rewards | orders, ledger, identity | decided at creation, granted at payment | one grant per period, one claim per rule and key |
| Redeem codes (`domains/billing/service.py:683-1207`) | `redeem_code`, `redeem_code_batch` | batch, disable, redeem | ledger | concurrent redemption, status written and rolled back | one use per code, one code of a batch per user |
| Guests and invitations (`domains/billing/service.py:1247-1613`, `quotas.py`, `domains/identity`) | daily quota row, referral binding, claims | reset, consume, correct, bind, reward | ledger, identity | midnight, first requests that race, rules switched | what is consumed explains the balance; each reward once |
| Device sessions (`domains/device_sessions/service.py`) | `user_device_session`, `auth_session_version` | bootstrap, reuse, touch, rotate, revoke, elevate | identity, portal | reuse with SKIP LOCKED, revocation racing with use | a reset ends every session |
| Identity (`domains/identity/service.py`, `domains/api_keys`) | `app_user`, challenges, keys, Open WebUI's users | upsert, import, confirm, reset, bind; clean-up script | Open WebUI, mail | two stores, retries on conflicts, addresses that change | one open code per address, a limit on mails, no row loses what it had |
| Runs and Dify callback (`api/internal_routes.py:380-497`, `api/public_routes.py:343-543`) | session, run, messages, artifacts | start, report, list, end | Dify | reports late, repeated, at once | all reports have the effect of one order |
| Email campaigns (`domains/email_campaigns/service.py`) | campaign, recipients | draft, materialise, send | SMTP | everything is sent inside one transaction; a mail may be taken and the sender not hear of it | nobody is mailed again but for a mail the records do not know of; counts are those of the rows |
| Notifications (`domains/notifications/service.py`) | `user_notification` | overview, read, broadcast | ledger, orders | overviews rewrite what the user has read | read stays read |
| Keepa jobs (`api/admin_routes.py:569-745`) | job table of an external worker | promote, cancel | worker | checked and then written without condition | ledger, audit and job agree |
| Quick trial, AI quota, rate limit, settings (`api/portal_routes.py:443`, `domains/tools/service.py:1066`, `infra/http.py:150`, `domains/site_config`) | counters and caches in the process | reserve, release, count, reload | - | two counters together, clocks read before a lock, dictionaries refilled in place | limits hold; settings are recent |
| Provider proxy and streams (`domains/provider_proxy`, `api/internal/provider_routes.py`) | none of its own | search, stream | Dify, IMA, Tavily | some sources fail, a stream breaks | failures are told |
| 1688 and TikTok Shop (`domains/onebound_1688_sourcing`, `domains/tiktok_shop_opportunity`) | snapshots | search, score | vendors | snapshots of failed searches are reused | the report says where its evidence is from; verdicts agree |
| LLM client (`src/data_platform/llm_client.py`) | none | chat, json | providers | a history rewritten in another format | the conversation is kept |
| Calculators, memory profile (`domains/tools/service.py`, `domains/memory_profile/service.py`) | none | compute | - | one thing computed in two places | inverses agree, more evidence never counts less |
| Checkout page (`chat_backend_portal_public_html.py:4195-4670`) | variables of the script | create, open, poll, close, reload | payments | answers in any order, or none; a closed order that is paid late | the page says only what has become of an order, and watches what is pending |
| Other HTML pages, `chat_backend_monolith_backup.py`, schema, tests | - | - | - | - | - |

`PROJECT.json` lists the components one by one, and under "hazards" what in each is hard to test, at its line.

## 2. Modules

### The credit ledger

`CreditBuckets` is the pure part of `domains/billing/service.py` (126-415): the replay of ledger rows
into buckets of points (`Replay`, `OpenBuckets`, `DrainBuckets`), the order in which buckets are consumed
(`ConsumedBefore`, `Allocate`), the preview of a charge, the lapsed buckets and the allocations a refund
gives back. It is written with folds, so that modules with proofs may use it: a loop over sorted rows or buckets is a fold over
the set of their indices that takes the latest last (`InTurn`). The orders `Earlier`, `Consumed` and `Visited` decide
between any two indices, by insertion in the end, as the identifiers of rows and stable sorting do.

`CreditLedger` is the account of a user under concurrent handlers. A handler's transaction is a
sequence of actions, cut where another transaction can come between:

| Action | Code |
|---|---|
| `Begin` | the first statement; it fixes `NOW()` and so `created_at` of every row of the transaction |
| `EnsureAccount` | the upsert of `_ensure_credit_account`. `ON CONFLICT DO UPDATE` locks the row: from here on the transaction has the account to itself |
| `ScanExpired`, `NothingExpired`, `LockForExpiry`, `ExpireBucket`, `ExpiryDone` | `_reconcile_expired_subscription_points`, which asks the clock, not `NOW()`, what has lapsed |
| `ViewAccount`, `GrantPoints`, `AdjustPoints`, `RefundPoints`, `CheckFunds`, `ChargeEvent`, `ChargeDone` | the operation |
| `Commit`, `Refuse`, `Crash` | the end of `_postgres_conn`; a refusal drops everything, expiries included |

A charge is a *set* of quotes, since each event is priced twice (`api/internal_routes.py:213` and `220`) from
a cache that lapses or is invalidated in between: the check takes one quote, the events another.
When they differ it is the preview of buckets, with its own 402, that keeps the balance from going
below zero, as long as the buckets do not hold more than the account.

### Orders and payments

`PaymentOrders` has three kinds of actors. WeChat and time (`CreateOrder`, `Pay`, `TradeExpires`, `Lapse`,
`QueryAges`, `Notify`, `NotifyOther`); handlers, which read in one transaction, talk to WeChat in none,
and write in another (`Scan` to `InsertSession`); and the callback, `call[h]`, which a handler sends to its
own service and which runs on when the handler has died or timed out (`CallBegin` to `CallForgotten`).
`Seen` is what a handler has read; it stays in `work[h]` until it is written back, however old.

`Purchase` is the promise to the customer, in two actions: an order is paid, and its goods are delivered.
`PaymentOrders` implements it under the mapping `paid <- {o : trade[o] = "SUCCESS"}`,
`delivered <- credits`: safety as `DeliversOnlyPaid`, liveness as `DeliversInTheEnd`.

### Subscriptions and promotions

`Subscriptions` follows the orders of one buyer from the moment they are placed. What an order will give beyond its
points is decided then (`AskForOrder`, `ReadClaims`, `PlaceOrder`: three reads, no lock, other commits in between) and kept with
the order; it is given when the order is paid. Payment, renewal and a view of the account are one
transaction each, in the order of the code:

| Action | Code |
|---|---|
| `CallbackBegin` | the order is marked as paid, and for a monthly package the subscription and its grant are inserted: before the account is locked |
| `PeriodBegin` | `internal_grant_subscription_points`: a period for a subscription that exists |
| `AccountBegin` | any page that brings the account up to date, with or without the sign-up gift |
| `LockAccount`, `Reconcile` | the upsert of the account; subscriptions lapse and the tier follows the one that ends last |
| `CreditPack`, `CreditPeriod`, `CreditGift`, `Promote` | points, period and tier; then the claims, and a reward for each that is new. Further points reconcile again (`GrantMore`) |
| `Commit`, `Fail` | the end of `_postgres_conn` |

`draft[h]` is what a transaction has written and the others do not see. `PaymentOrders` says how often and when a callback
arrives, and that it is applied once; here it arrives at any time, again after a failure, and the row of the order
keeps two callbacks of one order apart.

A grant by the route lasts `Points` days. That is what the code does: a window in the request is text, on
which `_normalize_period_window` fails, and without one the number of points is passed where days are expected.

### The account of a user

`MCAccounts` extends `EmailChallenges` and explores `DeviceSessions` beside it: one user, whose row they share, but no column of it.
`DeviceSessions`: a page evaluates its cookie (`Evaluate`), touches the row later (`Touch`), or bootstraps a session
(`Bootstrap`, then `Reuse` of the same device's session, skipping locked rows, or `InsertSession`); a confirmed code
elevates; `Aim` is what an UPDATE sees, `Revoke` what it does after it has waited. A reset stores the
password elsewhere first (`StorePassword`), then rotates the version and revokes. Its `vars` keep cookies,
tokens and rows apart, so an answer may be lost and an old token come back.
`EmailChallenges`: `Ask` to `SendMail` is a request for a code, automatic or wished for, under the advisory lock
where the code takes one; `ReturnCode` and `FollowLink` bring it back; `SignIn` and `Upsert` change the address.

### Parts without shared state

`MCServices` explores twenty modules side by side. Each has a specification of its own and shares nothing with
the others; one variable, `part`, says which is running, and `x1` to `x11` stand for its variables by
`INSTANCE ... WITH`. The state space is the union of theirs, not the product, and one run answers for all.
`Common` declares these variables. `Parts` has the parts that give something away or limit it (`RedeemCodes`, `GuestQuota`,
`QuickTrial`, `RateLimit`, `SellerTools`, `SiteConfig`) and the records of users and jobs (`UserRecords`, `KeepaJobs`), `Dialogues` those
in which one actor hands on, waits for or contradicts what another says (`Referrals`, `Runs`, `Retrieval`, `ReportStream`, `Sourcing`,
`CheckoutPage`, `Notifications`, `Campaigns`). `MCServices` extends both and adds the four that only compute.
`PartsProofs` reasons about `Parts`, `DialogueProofs` about `Dialogues`, which keeps what a prover has to look at small.

| Module | Models |
|---|---|
| `RedeemCodes` | batches, disabling, redemption under the lock of code and account, the unique index of code and batch, expiry that is rolled back |
| `Referrals` | binding an inviter, confirming, viewing, with both rewards, their claims and rules |
| `GuestQuota` | the daily reset, charges and refunds that correct it, midnight in between |
| `QuickTrial` | two counters in one event loop, reservation and release, what is announced, the evidence of the report |
| `RateLimit` | a sliding window whose clock is read before its lock |
| `SellerTools` | cache, quota and answers of the tools that ask a model |
| `SiteConfig` | a shared dictionary that is read, emptied, filled and invalidated |
| `Calculators` | pure functions of a sheet, every field of which changes in turn: amounts are shown in cents (`Rounded`), rates are entered as shares or percentages (`Rate`), and a shown price or rate is entered into another calculator |
| `MarketScores`, `MemoryProfile` | pure functions of a product and a history |
| `LlmClient` | a conversation with tools in two formats, calls without a name and results without an id included, and JSON asked of either provider and taken out of its answer |
| `Runs` | a run and its reports, each a transaction with its row lock |
| `Retrieval`, `ReportStream`, `Sourcing` | searches over sources that fail; a stream that breaks; snapshots, live calls and evidence |
| `CheckoutPage` | the script with its requests under way, the server's answers, the user and the network; an order is paid (`Pays`) while it is pending or after it was closed (`Lapses`, `ServeCancel`) |
| `Campaigns`, `KeepaJobs`, `Notifications`, `UserRecords` | operators, workers and users on the same rows |

`MCLiveness` puts `CreditLedger` and `PaymentOrders` together in the same way, for their temporal properties.

### Faulty variants

Some operators are preceded by a variant that says of itself that it is faulty (`ReadUnlocked`,
`CallUpdateBlindly`, ...). No specification uses them. Put in the place of the operator they belong to, each
must break a property: this is how the properties themselves are tested.

## 3. What the runs check

| Run | Instance | Properties |
|---|---|---|
| `concurrent` | one account, two handlers, five instants, a period of three | types; `OneTransactionPerAccount`; `LedgerExplainsBalance`; `GrantExpiresOnce`; `BucketsCoverBalance` |
| `serial` | one handler, charges of two events whose prices change, rows of one transaction replayed in either order | `ExpiryTakesOnlyUnspentPoints`, `BucketsMatchBalance`, `NoOverdraft` |
| `liveness` | the ledger with two handlers; one order with two handlers and one failure; fairness | `RequestEnds`, `DeliversInTheEnd` |
| `payment_failures` | one order, two handlers, every request; one failure or a second session, beside which an operators' query meets only polls and notifications | types, `CreditedExactlyWhenPaid`, `AnswersAreTrue`, `PaidSessionHasPaidOrder`, `PaidIsFinal`, `DeliversOnlyPaid` |
| `subscriptions` | one buyer, two orders, two handlers, two monthly packages, a small pack with a bonus and a large one, one cumulative reward | types, `CreditedOnce`, `PaidForExactly`, `RewardIsEarned`, `TierHasSubscription`, `DemotedOnlyWhenLapsed` |
| `accounts` | two handlers; two browsers, two sessions, one reset; two addresses, two codes of one purpose, one a day | types, `OneOpenCode`, `SendLimit`, `ResetEndsSessions` |
| `services` | two actors of each kind, the parts above | types, and one property for each question below |
| `refunded_points`, `replay_order`, `session_status`, `repurchase`, `threshold` | counterexamples, see 4 | one each |

The questions of `services`: does a code pay once, and once per batch (`CodePaysOnce`); is an invitation rewarded
exactly once (`RewardedExactlyOnce`); does a guest's consumption explain the balance (`QuotaExplainsBalance`); do
limits hold while requests overlap (`LimitsHold`: trials, windows, AI budget, age of a setting); do two computations
of one thing agree (`AnswersAgree`: calculators, verdicts, profile, conversation); have reports the effect of
one order (`ReportsInOneOrder`); is nobody left with less than happened (`FailuresAreTold`: searches, streams, evidence,
checkout page); and do rows that several write stay true (`RecordsAreKept`: campaigns, jobs, notifications, users).

Three of them are as weak as the code makes them. The page may show an order as cancelled that a late notification
has paid since: `PageIsTrue` asks of that word only that the order was closed, of the word paid that it is paid. A mail
that the server takes before the connection breaks is recorded as failed, and the next sending mails it again: `lost` counts, per
address, such mails and those a crash forgot, and `MailedOnce` allows one mail more than that. And prices are shown in cents: the
price for a margin of nothing may be called a loss by the forward calculator (a cost of 0.10 at 30 % is shown as 0.14, whose profit is
-0.002), so `PricesAgree` asks for the margin within what half a cent makes, and for a loss only where the profit shown is nil.

**Why the bounds are enough.** Accounts do not share rows, and orders only share handlers, so one of each
carries every interaction; two handlers give every pair of transactions. In the ledger every request costs an
instant, so `MaxClock` bounds their number: five make room for grant, charge, refund, the end of the period and
one more. `Timely` bounds how long a transaction stays open: not as long as a subscription
period, which is 30 days. One failure at any place is what separates a caller from its callback;
`MaxSessions = 2` is what separates the latest session from the one a handler had read. With more than one
handler the properties of `serial` do not hold, which is the second counterexample below.

For accounts and services two actors give every pair of transactions, and two or three codes, addresses, sources or
users what they compete for: a second batch, a code that is disabled while another is redeemed, an address that is
left and come back to. Three resets of a guest's day, four requests in a window of four, or three lines of a stream are each one
more than the code distinguishes. The calculators take values on both sides of each threshold. `MaxSendings`,
`MaxDecisions`, `MaxCommits`, `MaxTokens`, `MaxChallenges`, `MaxTurns`, `MaxCalls` and `MaxLines` bound counters that never fall, and are
guards of the actions that raise them.

Two orders give every pair of purchases: two packs that reach a threshold together, two subscriptions, a
subscription and a pack. With `Period = 1`, `Points = 2` and `MaxClock = 2` a subscription opens, lapses, is granted another
period and is overtaken by a second one.

**Deadlock** is checked for payments, subscriptions and accounts, which never stop. The ledger's runs and `services` switch it off: the
clock of the one ends, and parts of the other stop at their bounds (a stream is over, three mailings have begun).

**Symmetry** is used where handlers, owners or codes are alike in the specification and the property, and never for liveness.

**Fairness.** `RequestEnds` assumes weak fairness of each handler's next step: a thread that can run
does, and PostgreSQL grants a free row lock. Nothing is assumed of `Begin`, `Crash` or the clock.
A waiting handler is not starved since requests are finite in the model, as the queue of a row
lock is first come, first served in the database. For the payments handlers and calls are weakly fair;
the notification of each order is strongly fair, since WeChat repeats it at times, and a handler is free for it
again and again but not always. Customers, polls and operators need not come: delivery rests on the
notification alone.

## 4. Where code and documents differ

* `refunded_points`. The shop says that subscription points are cleared at the end of their period. Points
  that were charged and refunded are restored in a bucket of another type, which the expiry passes over.
* `replay_order`. Recharged points are valid for ever, says the balance breakdown. The replay sorts by the time
  transactions began, so a charge that waited for a grant is replayed before it; the grant then seems unspent,
  and its expiry takes recharged points.
* `session_status`. A paid order should have a paid session. A poll writes an answer of WeChat that
  is older than the notification over it. The order itself stays paid.

* `repurchase`. While a monthly package is in force no other can be bought, says the product description. The
  guard is asked when an order is placed, not when it is paid: two orders placed in time give two subscriptions
  (and, if they are the first, two discounts).
* `threshold`. Who has paid 100 yuan in all gets 100 points. The reward goes to the order that crosses the
  threshold by the sum when it was *placed*; of two orders placed before either is paid, neither may. A reward
  never goes to someone who has not paid the sum: `RewardIsEarned` holds.

Seen but not run, for want of a document that says otherwise or because it is a matter of wording: a code whose mail failed
is announced as sent (`domains/identity/service.py:885`); one failed poll ends the polling of the checkout page for good
(`chat_backend_portal_public_html.py:4535`), and a late answer about an order the page has left makes it current again (4524);
snapshots of searches that timed out are reused for half an hour (`domains/onebound_1688_sourcing/service.py:298`); a search of datasets whose
best records have no text tells nothing of its failures (`domains/provider_proxy/service.py`, see `FailuresAreTold` of `Retrieval`);
an order that is shown as cancelled is no longer polled, though a late notification may pay it (4393, `api/internal_routes.py:745`); a mail
that was taken but not acknowledged within 15 s is sent again (`domains/email_campaigns/service.py:300`); a rate of 1 % or less cannot be entered as
a percentage, since 0.5 is read as a half and 1 is refused (`domains/tools/service.py:92`); settings are invalidated before the update commits, so that an old row may be cached for another minute
(`domains/site_config/__init__.py:217`); "none" as tool choice still sends the tools (`llm_client.py:626`); the market of "australia" is read as
the United States (`domains/memory_profile/service.py:113`); a cancelled Keepa job may have been completed since the check
(`api/admin_routes.py:658`); and the event of a rejected notification is inserted and then rolled back by the
exception that is raised on (`api/internal_routes.py:604-617`), though
`src/docs/微信支付闭环实现测试操作说明-2026-05-18.md` has operators look for it. `api/internal_routes.py:940` passes points where
days are expected (section 2).

One more consequence of `replay_order` needs both of its conditions and so has no run: prices that change during a charge,
and overlapping transactions. With two handlers, no refunds or adjustments and the charges `{{<<1>>}, {<<1>>, <<2>>}}` in
`CreditLedger_concurrent.cfg`, TLC finds an account below zero: the replay has dropped a charge that was committed late, the
buckets hold more than the account, and a charge that was checked at the old price is paid from them at the new one
(`api/internal_routes.py:213-229`).

## 5. What is proved

`CreditLedgerProofs`, for any users, handlers, charges, grants, refunds and adjustments:

* `AccountsAreNotShared` and `LedgerAlwaysExplainsBalance`, from the inductive invariant `AccountInv`. The property
  alone is not inductive: a handler about to write must be known to have read the balance *and* to hold the
  row since. `AccountInv` therefore says who holds the row at which step, that `total` is the end of the
  chain of committed and own rows, and which parts of the state are typed.
* `NoOverdraftAtFixedPrices`, from `Solvent`: the balance, and every row, is at least zero, and a charge in progress has
  what its remaining events cost. It assumes `FixedPrices`, that a charge is priced once.
  Without it the guard is the preview of buckets. It suffices while transactions follow one another (`NoOverdraftSerially`, `serial`);
  when they overlap it does not: see the end of section 4.
* `CreditLedgerTypes` and `BucketsAlwaysCoverBalance`, from `AccountInv` and `RecordInv`: rows, drafts of rows, noted buckets
  and times are typed, and a refund gives points. The replay is a fold of folds: over rows in the order of their times, and for
  each row over buckets or allocations in the order of consumption. A row that adds points adds them all to the buckets but those
  of a refund that no allocation explains (`Unplaced`), and a row that takes points takes at most them (`OpenAdds`, `DrainTakes`). Neither
  depends on the buckets there are, so not on the order of rows either: whatever the replay does, the
  buckets hold at least the sum of all deltas less what is unplaced (`ReplayCovers`), and by the chain of `LedgerExplainsBalance` that sum is the
  balance (`ChainEnds`). Overlapping transactions may therefore leave more in buckets than in the account (`replay_order`), never less.
* `GrantsExpireOnce`, from `GrantInv`, which needs the replay bucket by bucket. A row of a ledger is an expiry, a refund or a row of
  the request itself, and no other row than its expiries has the reference of a grant (`IsLedger`). Replayed in whatever order rows of
  one time come, the bucket of a grant is then the first with its identifier, so that its expiries reach it before any bucket that
  a refund reopened, and what is left in it and what has expired come to no more than the grant (`TellsGrant`, `ReplayTells`). What a handler
  has found lapsed is outstanding once (`Outstanding`): nobody else writes to the ledger it has replayed while it has the row, so the
  claim still holds when its rows are committed (`DraftCommits`). `Dated` says why no row is taken for a grant: a request has a time of its own, and since
  no transaction is open for a period (`Timely`), what it finds lapsed or refunds is older than itself.
* `NoOverdraftSerially`, `BucketsMatchBalanceSerially` and `ExpiryTakesOnlyUnspentPointsSerially`, from `SerialInv`, at any prices and
  however they change while a charge runs, as long as no two transactions are open on one account at a time (`[]Serially`; those of
  different accounts may overlap as they like). The hypothesis is the one the properties need: a row is dated with the begin of its
  transaction, so only transactions that follow one another are replayed in the order in which they were committed; `replay_order`
  and the end of section 4 show what becomes of them otherwise. A single
  handler always satisfies it (`serial`). The argument is a ledger that is `Sound`: of every set of rows that has all earlier ones with each
  of its rows (`UpToTime`), and so at every point of any order in which rows of one time may be replayed, the deltas come to no
  less than zero, and so do, for each identifier, what is granted, expired and allocated under it (`Weight`). A sound ledger is replayed into buckets that hold no more
  than these totals (`ReplayBounded`), a charge that the buckets cover therefore keeps it sound (`ChargeFollows`), and so does
  an expiry, which is covered by what is left of the grant (`FoundAreLeft`, `LossFollows`). Rows of one time add no points before the last of
  them (`Proper`), so that their order does not matter (`NeverNegativeMore`). What a refund reopens
  is what the charge allocated, at most (`RefundGives`).

`PaymentOrdersProofs`, for any orders, handlers, requests, sessions and failures:

* `TypesHold`; `CreditedOnceWhenPaid`, `AnswersAlwaysTrue`, `PaidSessionAlwaysHasPaidOrder`, `PaidStays` and
  `OrdersImplementPurchase`, from `PaymentInv`. Its parts: money is behind each call that is under way
  (`MoneyBehindCalls`); a call that has found the order paid is right (`CallsKnowTheOrder`); one call at
  a time holds the row of an order (`OneUpdateAtATime`); whoever waits for an answer has a call for the same order
  (`CallersHaveCalls`); a session read as paid belongs to a paid order (`PaidWhenRead`), which is why writing it back is
  harmless. Most steps touch neither order nor call; they are `Quiet`, and one lemma covers them.

`SubscriptionsProofs`, for any orders, packages, rules, prices and handlers:

* `TypeCorrect`, `CreditsAreUnique`, `PromisesAreKept`, `TierIsBacked` and `NoEarlyDemotion`, from `IInv`. What it adds to the
  properties: what each task relies on is still so (`TaskInv`: the order of a callback is pending, and of no
  other callback; a period that is being granted is new, and of no other request), the ledger has a row for
  exactly what was paid and promised (`RowsInv`), and a draft is the committed state plus what its own task adds
  (`DraftInv`): whoever holds the account overwrites nothing that was committed since it read. `Commit` is then
  the only step that matters to the properties, and all others are covered by a lemma that says so.

`AccountsProofs`, about `MCAccounts`: for any addresses, purposes, limits, browsers, sessions and handlers, `TypeCorrect`,
`CodesAreSingle`, `SendingIsLimited` and `SessionsEnd`. Its two halves share no variable, so that each half's invariant is kept by
the other's steps.
Whoever is about to insert a code has held the advisory lock of the address since before it counted and looked for open
codes (`Sound`), no two handlers hold the same one or make the same row (`Apart`), and every row has a purpose and an address (`RowsOK`).
The open codes seen are therefore all there are, and the count is current. Other transactions only consume.
No session, committed or drafted, is of a version to come, which is why raising it ends all of them, those included that are
inserted beside the reset; and `Counted`: of the resets stored, at least those of the handlers still to rotate the version are
not counted in it, so that the version never runs ahead of the password. Which rows `Revoke` reaches plays no part in the
proof: it is tidiness.

`PartsProofs`, `DialogueProofs` and `ServicesProofs`, for any bounds and any number of actors, codes, batches, owners, addresses, requests,
readers, members, mailboxes and orders; the sources, results, reports and lines of `Dialogues` are those `Dialogues` lists. The first two have, part by
part, the inductive invariant and the lemma that every step keeps it; the third puts them together to theorems about `MCServices`:

* `CodesPayOnce`, from `Redeem!TypeOK`, `CodePaysOnce`, `OneCodePerBatch` and two facts: `CodeHeld`, a handler that redeems holds the
  row of its code from the check of the status to the write, and `CodeRows`, what a code's row says of its user. That a
  user has one code of a batch rests on the unique index alone, which the write asks; the lock of the account is not needed for it.
* `InvitationsAreRewarded`. The property is not inductive: between the look at a claim and the reward other transactions commit.
  `InviteInv` adds that a handler past its look holds the account it looked at (`InviteLocked`), that what it read is still so
  (`InviteSound`), that one transaction at a time inserts the binding of a user (`InviteAlone`), and that a claim in the table
  has its binding, or its reward (`InviteTables`). Rules may be switched at any step: nothing in it depends on them.
* `QuotaIsExplained`, from `GuestQuota!IInv`: consumption, resets and what was given beyond the quota add up to the balance,
  short of what a charge or refund has moved and not yet corrected (`Moved`); and so does the state a transaction would roll
  back to.
* `LimitsAreKept`, four limits. A trial (`QuickTrial`): the flight count of a key is the number of visits under way that have it,
  and used and in flight together stay within the limit, so what a device is told is what is left. A window (`RateLimit`): the clock
  is read before the lock, so times arrive out of order; the requests of the last `k` ticks are nevertheless the last entries of
  the queue and none is older than `k` and the delay (`Young`), which is less than the window, so that none of them is dropped. The AI
  budget (`SellerTools`): for each age, the last entries of an address's queue are exactly its calls of that age or less
  (`Last`); the day's counter is the number of calls of the day; and the cache holds at most `MaxEntries`, whatever is stored
  (`Held`). A setting (`SiteConfig`): what the dictionary holds while it counts as loaded is no older than the time it was
  loaded and one delay (`RecentCache`), and what a reader takes or stores is as old as its own delay allows
  (`RecentReader`).
* `ReportsAreOrdered`, from `Runs!IInv`: a report that is about to write the run holds its row and has read what is in it, so
  what it writes is what the log says when its own entry is added. The log is a history variable; `ReportsInOneOrder` says of it, by
  sets of positions, which report was the last to speak of the answer, the end or an artifact.
* `FailuresAreAlwaysTold`, from the invariants of four modules. A search (`Retrieval`): a source that was asked has answered or
  failed, and what was found is an answer of one that did. A stream (`ReportStream`): the titles kept are those of the lines sent, and
  lines are sent only while it is read. A report (`Sourcing`): a search that found something was answered, and one whose failure
  is not told went by a suggestion. The page (`CheckoutPage`): an order that an answer calls paid is and stays paid, one it calls closed has been closed (and may have been
  paid since), an
  answer is about the order it was asked about, what is shown is the page's order unless an answer strayed, and that order, while
  it is pending, is polled or asked for.
* `RecordsAreAlwaysKept`, an invariant of three modules and an action property of two. A mailing (`Campaigns`): until its user
  leaves an address, whoever has read its row holds it (`RowsAreHeld`), so one sending runs at a time (`OneByOne`), and of the mails
  the server took, all but one are such as the records do not know of (`lost`), and that one, if any, is in the rows or about to be
  (`MailsAreKnown`); hence no second sending finds it unsent. An address that was left (`left`) has a row that the next sending no longer locks. The counts are those of the rows since a sending's
  own count follows what it did (`Progress`, `CountsAreReal`), and no address is mailed more often than sendings began
  (`MailsAreCounted`), which only the type needs. Jobs (`KeepaJobs`): `BooksAgree` is inductive with the types, as ledger and audit
  grow in one step; it holds although the check of a job and its change are two transactions. Notifications: a broadcast being sent is
  new and the only one of its identifier, and counts whom it goes to (`SendingIsNew`), and before it nobody has its note
  (`NoneBefore`). Users (`UserRecords`): a draft is held by its request and keeps what the committed row has (`DraftsKeep`), which
  nobody else changes meanwhile; a key is inserted for a user who has none (`KeysAreNew`); and neither rows nor drafts of two
  users have the same invitation code (`CodesAreApart`).

`Induction` has the facts about data which these proofs need and the library states with operator parameters. There the property
is not a parameter but a *set*, of the subsets or numbers that have it; were something missing from it, there would be a least
one missing, since the strict subsets of a finite set are well founded. `EverySubset`, `UpTo`, `OneByOne` and `TakingOff` are the induction
rules; from them follow that the recursive functions and folds of the model exist, and what they return: sums over a set
(`IsSum`, `Sigma`), running sums over ages (`RunningSum`), the least and greatest element, a fold of a sequence step by step
(`FoldIterates`), a loop over a set in the turn of its elements (`TakesInTurn`, `TurnsExist`).
By such sums `SubscriptionsProofs` proves `RewardsAreEarned`: an order that promises a cumulative reward takes the sum of the
paid packs across the threshold when it is paid itself (`Earned`). That is so when it is placed, and the sum of what is paid
never falls.

All rest on the assumptions on constants in the modules, which TLC evaluates in each run: `ConstantsAssumption` and
`NeverAssumption` of ledger, payments and subscriptions; `NobodyAssumption` in `Parts` and `MCAccounts`, and `InvitationsAssumption` in
`Dialogues`, that the absent user, key or handler is none of those that exist; `BoundsAssumption` in `Parts` and `MCAccounts` and
`MessagesAssumption` in `Dialogues`, that bounds are numbers, sets that are counted are finite, browsers are devices, and the facts, the
broadcasts and the low balance a note can be about are different things. That there is a user at all is assumed since a task names one, and
the ties that order rows of the same time are numbers.

**Model-checked only.** Liveness (`RequestEnds`, `DeliversInTheEnd`), which the prover does not reach, and of what `services` asks,
its `TypeOK` and `AnswersAgree`. Three properties of the ledger are proved for transactions that follow one another and fail when they overlap
(`replay_order`, and the end of section 4).

## 6. What is left out

* Within the modelled parts: signatures, amounts and JSON payloads (an order has one amount, and a callback
  with another is refused without a change of state); trade states REFUND, PAYERROR and USERPAYING;
  the simulated payment, which is off in production; other providers than WeChat. In `PaymentOrders`, what a
  credit grants; in `Subscriptions`, how money arrives, renewal by `provider_subscription_id`, which no caller sends, rules
  and packages that are edited, and the guest tier. TTL of order and QR code end together (`_wechat_time_expire`) and are
  one flag, `lapsed`. One request at a time asks for a session of an order (`Begin` of `PaymentOrders`), though two may; a
  failed trade and one WeChat does not know both make a session fail. A refund in `CreditLedger` refers to a charge; one
  that names none is covered as a refund beyond the charge. Of the codes by mail, attempts that fail and the limit per user
  are left out, and of several sessions that may be reused any is taken.
* In `accounts` and `services`: the texts of mails, prompts, pages and reports; normalising what vendors send; HTTP itself. Identity is
  modelled without linking by external identity, and the upsert of `UserRecords` apart from that of `EmailChallenges`, which writes
  another column.
* The pool of threads and connections, whose sizes are settings of a deployment: a handler that waits for its own service is modelled as
  a call that may be lost.
* For good: HTML pages other than the checkout's, whose scripts show what they fetch; the monolith, a backup that nothing imports;
  settings and wiring.

## 7. Plan

1. *(done)* Ledger, payments and subscriptions, with proofs.
2. *(done)* Accounts, services, checkout page, model-checked; liveness of ledger and payments in one run.
3. *(done)* Proofs for sessions, codes by mail, redeem codes, invitations, guests, limits, rewards,
   runs, searches, streams, sources and the checkout page; expiry of grants; mailings, jobs, notifications and user records;
   the ledger of transactions that follow one another.
4. The orders of `Subscriptions` shown to be those of `PaymentOrders`, and `CheckoutPage`'s server likewise, by modules that compose them.
5. Threads and connections (`WorkerPool`), if a bound on them is ever stated.

## 8. Running

    tlc -config CreditLedger_concurrent.cfg MCCreditLedger.tla
    tlc -config PaymentOrders_failures.cfg  MCPaymentOrders.tla
    tlc -config Subscriptions_interleaved.cfg MCSubscriptions.tla
    tlc -config Accounts.cfg MCAccounts.tla
    tlc -config Services.cfg MCServices.tla
    tlc -config Liveness.cfg MCLiveness.tla
    tlapm CreditLedgerProofs.tla
    tlapm PaymentOrdersProofs.tla
    tlapm SubscriptionsProofs.tla
    tlapm AccountsProofs.tla
    tlapm PartsProofs.tla
    tlapm DialogueProofs.tla
    tlapm ServicesProofs.tla
    tlapm Induction.tla

Each run ends within five minutes on two workers.
