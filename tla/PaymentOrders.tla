--------------------------- MODULE PaymentOrders ---------------------------
(***************************************************************************)
(* Payment orders and their WeChat Pay sessions, as the portal routes      *)
(* (api/portal_routes.py), the notification of WeChat and the callback     *)
(* that credits an order (api/internal_routes.py), and the operators'      *)
(* script (scripts/manage_wechat_pay_orders.py) change them.               *)
(*                                                                         *)
(* None of these handlers is one transaction.  They read an order and its  *)
(* latest session in one, talk to WeChat, and write what they then believe *)
(* in another; and they credit the order by an HTTP call to their own      *)
(* service, which runs a transaction of its own and goes on when the       *)
(* caller has given up on it.  A handler is therefore a sequence of        *)
(* actions, and its call is a second process, call[h].                     *)
(*                                                                         *)
(* WeChat is external: it is modelled by the answers the code in src/      *)
(* tells apart.                                                            *)
(***************************************************************************)
EXTENDS Naturals, Sequences

CONSTANTS
    Orders,
    Handlers,
    Requests,       \* what handlers are asked for: all of them, or fewer in a small instance
    MaxSessions,    \* bound: sessions of one order
    MaxFailures     \* bound: lost replies, timeouts and deaths, taken together

ASSUME ConstantsAssumption ==
    /\ Orders # {}
    /\ Requests \subseteq {"list", "poll", "session", "cancel", "ops"}
    /\ MaxSessions \in Nat /\ MaxFailures \in Nat

VARIABLES
    trade,      \* at WeChat: the state of the trade of an order
    acked,      \* at WeChat: its notification has been answered with success
    lapsed,     \* created_at plus the QR code's TTL has passed
    status,     \* app.payment_order.status
    sessions,   \* app.payment_session: the sessions of an order, oldest first
    credits,    \* how often the order has been credited
    keys,       \* app.idempotency_request: the keys answered, <<order, source>>
    step,       \* where a handler has come to
    work,       \* what it does, and what it has read
    call,       \* the callback it has sent
    failures    \* how many failures there have been

vars == <<trade, acked, lapsed, status, sessions, credits, keys, step, work, call, failures>>

wechat == <<trade, acked>>
database == <<status, sessions, credits, keys>>

NoSession == [status |-> "none", queried |-> FALSE]

(***************************************************************************)
(* The work of a handler.  status, index and session are what it has read  *)
(* of the order and its latest session; expired and targets are the orders *)
(* and sessions it is about to close; then is what follows a refresh.      *)
(***************************************************************************)
Work(type, o) ==
    [type |-> type, order |-> o, status |-> "none", index |-> 0, session |-> NoSession,
     expired |-> {}, targets |-> {}, answer |-> "none", then |-> "idle"]

NoWork == Work("none", CHOOSE o \in Orders : TRUE)

NoCall == [stage |-> "none", order |-> NoWork.order, source |-> "none"]

Order(h) == work[h].order

Goto(h, s) == step' = [step EXCEPT ![h] = s]

Finish(h) == Goto(h, "idle") /\ work' = [work EXCEPT ![h] = NoWork]

Fail == failures < MaxFailures /\ failures' = failures + 1

\* A callback has updated the order and holds its row until it commits.
Locked(o) == \E h \in Handlers : call[h].stage = "updated" /\ call[h].order = o

Pending(o) == {<<o, i>> : i \in {j \in DOMAIN sessions[o] : sessions[o][j].status = "pending"}}

SetSession(o, i, s, queried) ==
    sessions' = [sessions EXCEPT ![o][i] = [status |-> s, queried |-> queried]]

-----------------------------------------------------------------------------
(***************************************************************************)
(* The customer, WeChat and time.                                          *)
(***************************************************************************)

\* portal_create_payment_order.
CreateOrder(o) ==
    /\ status[o] = "none"
    /\ status' = [status EXCEPT ![o] = "pending"]
    /\ UNCHANGED <<wechat, lapsed, sessions, credits, keys, step, work, call, failures>>

\* The TTL of order and QR code, which end at the same instant (_wechat_time_expire).
Lapse(o) ==
    /\ status[o] # "none" /\ ~lapsed[o]
    /\ lapsed' = [lapsed EXCEPT ![o] = TRUE]
    /\ UNCHANGED <<wechat, database, step, work, call, failures>>

\* Eight seconds after a query the next one is allowed.
QueryAges(o) ==
    /\ \E i \in DOMAIN sessions[o] :
          sessions[o][i].queried /\ SetSession(o, i, sessions[o][i].status, FALSE)
    /\ UNCHANGED <<wechat, lapsed, status, credits, keys, step, work, call, failures>>

\* The customer pays by the QR code of a session.
Pay(o) ==
    /\ trade[o] = "NOTPAY" /\ sessions[o] # <<>>
    /\ trade' = [trade EXCEPT ![o] = "SUCCESS"]
    /\ UNCHANGED <<acked, lapsed, database, step, work, call, failures>>

\* WeChat closes the trade after its time_expire.
TradeExpires(o) ==
    /\ trade[o] = "NOTPAY" /\ lapsed[o]
    /\ trade' = [trade EXCEPT ![o] = "CLOSED"]
    /\ UNCHANGED <<acked, lapsed, database, step, work, call, failures>>

-----------------------------------------------------------------------------
(***************************************************************************)
(* A request begins.  A handler whose last call is still running counts as *)
(* busy.  "list" is the list of a user's orders, "poll" the page of one    *)
(* order, "session" asks for a QR code, "ops" is the operators' query with *)
(* --apply.                                                                *)
(***************************************************************************)
Free(h) == step[h] = "idle" /\ call[h].stage = "none"

Asking(o) == {h \in Handlers : work[h].type = "session" /\ work[h].order = o}

RoomForSession(o) == Len(sessions[o]) < MaxSessions

Begin(h) ==
    /\ Free(h)
    /\ \E o \in Orders, type \in Requests :
          /\ status[o] # "none"
          /\ type = "session" => Asking(o) = {} /\ RoomForSession(o)
          /\ work' = [work EXCEPT ![h] = Work(type, o)]
          /\ Goto(h, IF type \in {"cancel", "ops"} THEN "read" ELSE "scan")
    /\ UNCHANGED <<wechat, lapsed, database, call, failures>>

(***************************************************************************)
(* The statement that closes orders, up to where it waits for the row of   *)
(* an order: it has found, in its snapshot, the pending orders whose TTL   *)
(* has passed, and their pending sessions.                                 *)
(***************************************************************************)
Scan(h) ==
    /\ step[h] = "scan"
    /\ LET expired == {o \in Orders : status[o] = "pending" /\ lapsed[o]}
       IN  work' = [work EXCEPT ![h].expired = expired,
                                ![h].targets = UNION {Pending(o) : o \in expired}]
    /\ Goto(h, "close")
    /\ UNCHANGED <<wechat, lapsed, database, call, failures>>

(***************************************************************************)
(* Faulty variant of Close: it trusts the scan, and does not look at the   *)
(* status of an order again before it closes it.                           *)
(***************************************************************************)
CloseAsScanned(h) ==
    /\ step[h] = "close"
    /\ \A o \in work[h].expired : ~Locked(o)
    /\ status' = [o \in Orders |-> IF o \in work[h].expired THEN "closed" ELSE status[o]]
    /\ IF work[h].type \in {"list", "cancel"}
       THEN Finish(h)
       ELSE /\ Goto(h, "read")
            /\ work' = [work EXCEPT ![h].expired = {}, ![h].targets = {}]
    /\ UNCHANGED <<wechat, lapsed, sessions, credits, keys, call, failures>>

(***************************************************************************)
(* The same statement, once no callback holds a row it wants: what is      *)
(* still pending is closed, order and session each for itself.             *)
(***************************************************************************)
Close(h) ==
    /\ step[h] = "close"
    /\ \A o \in work[h].expired : ~Locked(o)
    /\ status' = [o \in Orders |-> IF o \in work[h].expired /\ status[o] = "pending"
                                   THEN "closed" ELSE status[o]]
    /\ sessions' = [o \in Orders |-> [i \in DOMAIN sessions[o] |->
                       IF <<o, i>> \in work[h].targets /\ sessions[o][i].status = "pending"
                       THEN [sessions[o][i] EXCEPT !.status = "closed"]
                       ELSE sessions[o][i]]]
    /\ IF work[h].type \in {"list", "cancel"}
       THEN Finish(h)
       ELSE /\ Goto(h, "read")
            /\ work' = [work EXCEPT ![h].expired = {}, ![h].targets = {}]
    /\ UNCHANGED <<wechat, lapsed, credits, keys, call, failures>>

\* The order and its latest session, as a handler reads them.
Seen(h) ==
    LET o == Order(h)
        n == Len(sessions[o])
    IN  [work[h] EXCEPT !.status = status[o], !.index = n,
                        !.session = IF n = 0 THEN NoSession ELSE sessions[o][n]]

ReadForPoll(h) ==
    /\ work[h].type = "poll"
    /\ work' = [work EXCEPT ![h] = Seen(h)]
    /\ Goto(h, "refresh")

ReadForOps(h) ==
    /\ work[h].type = "ops"
    /\ work' = [work EXCEPT ![h] = Seen(h)]
    /\ Goto(h, "refresh")

\* An order that is over is not cancelled; one without a session is closed here only.
ReadForCancel(h) ==
    /\ work[h].type = "cancel"
    /\ IF Seen(h).status # "pending" THEN Finish(h)
       ELSE IF Seen(h).index = 0
            THEN Goto(h, "recheck") /\ UNCHANGED work
            ELSE /\ work' = [work EXCEPT ![h] = [Seen(h) EXCEPT !.then = "reread"]]
                 /\ Goto(h, "refresh")

\* 409 unless the order is pending; a live session may be reused.
ReadForSession(h) ==
    /\ work[h].type = "session"
    /\ \/ Seen(h).status = "pending" /\ Goto(h, "prepay") /\ UNCHANGED work
       \/ Seen(h).status # "pending" /\ Finish(h)
       \/ Seen(h).session.status = "pending" /\ ~lapsed[Order(h)] /\ Finish(h)

Read(h) ==
    /\ step[h] = "read"
    /\ ReadForPoll(h) \/ ReadForOps(h) \/ ReadForCancel(h) \/ ReadForSession(h)
    /\ UNCHANGED <<wechat, lapsed, database, call, failures>>

-----------------------------------------------------------------------------
(***************************************************************************)
(* _maybe_refresh_wechat_order_from_provider, for a page and a cancel, and *)
(* query_order, for the operators.                                         *)
(***************************************************************************)
AfterRefresh(h) ==
    IF work[h].then = "idle" THEN Finish(h) ELSE Goto(h, work[h].then) /\ UNCHANGED work

HasSession(h) == work[h].status = "pending" /\ work[h].index > 0

SkipRefresh(h) ==
    /\ step[h] = "refresh" /\ work[h].type # "ops"
    /\ \/ ~HasSession(h)
       \/ work[h].session.queried /\ ~lapsed[Order(h)]
    /\ AfterRefresh(h)
    /\ UNCHANGED <<wechat, lapsed, database, call, failures>>

\* The QR code it has read of is over; whatever the session is by now.
ExpireSession(h) ==
    /\ step[h] = "refresh" /\ work[h].type # "ops"
    /\ HasSession(h) /\ lapsed[Order(h)]
    /\ SetSession(Order(h), work[h].index, "expired", work[h].session.queried)
    /\ AfterRefresh(h)
    /\ UNCHANGED <<wechat, lapsed, status, credits, keys, call, failures>>

MayQuery(h) ==
    /\ step[h] = "refresh"
    /\ \/ work[h].type = "ops"
       \/ HasSession(h) /\ ~lapsed[Order(h)] /\ ~work[h].session.queried

Send(h, source) ==
    call' = [call EXCEPT ![h] = [stage |-> "sent", order |-> Order(h), source |-> source]]

\* WeChat says that the trade is paid: have the order credited.
QueryPaid(h) ==
    /\ MayQuery(h)
    /\ trade[Order(h)] = "SUCCESS"
    /\ Send(h, IF work[h].type = "ops" THEN "ops" ELSE "query")
    /\ Goto(h, "calling")
    /\ UNCHANGED <<wechat, lapsed, database, work, failures>>

\* It says that it is not paid, or closed.
QueryOpen(h) ==
    /\ MayQuery(h)
    /\ trade[Order(h)] \in {"NOTPAY", "CLOSED"}
    /\ work' = [work EXCEPT ![h].answer = trade[Order(h)]]
    /\ Goto(h, "answered")
    /\ UNCHANGED <<wechat, lapsed, database, call, failures>>

\* It knows of no such trade: an error, without a session to write it to.
QueryUnknown(h) ==
    /\ MayQuery(h)
    /\ trade[Order(h)] = "none"
    /\ Finish(h)
    /\ UNCHANGED <<wechat, lapsed, database, call, failures>>

\* It does not answer: a refresh notes the query in the session as it was read.
QueryFails(h) ==
    /\ MayQuery(h)
    /\ Fail
    /\ IF work[h].type = "ops"
       THEN Finish(h) /\ UNCHANGED sessions
       ELSE /\ SetSession(Order(h), work[h].index, work[h].session.status, TRUE)
            /\ AfterRefresh(h)
    /\ UNCHANGED <<wechat, lapsed, status, credits, keys, call>>

\* Faulty variant of WriteAnswer: the session takes WeChat's own word for the state.
WriteAnswerRaw(h) ==
    /\ step[h] = "answered"
    /\ work[h].index # 0 /\ SetSession(Order(h), work[h].index, work[h].answer, TRUE)
    /\ AfterRefresh(h)
    /\ UNCHANGED <<wechat, lapsed, status, credits, keys, call, failures>>

(***************************************************************************)
(* Write the answer, which may be late: the session takes it as it is, the *)
(* order closes only if it is still pending.  The operators' query never   *)
(* closes the order.                                                       *)
(***************************************************************************)
WriteAnswer(h) ==
    /\ step[h] = "answered"
    /\ LET o == Order(h)
           open == work[h].answer = "NOTPAY"
           ops == work[h].type = "ops"
       IN  /\ IF work[h].index = 0 THEN UNCHANGED sessions
              ELSE SetSession(o, work[h].index, IF open THEN "pending" ELSE "closed",
                              IF ops THEN work[h].session.queried ELSE TRUE)
           /\ IF open \/ ops THEN UNCHANGED status
              ELSE /\ ~Locked(o)
                   /\ status' = [status EXCEPT ![o] = IF @ = "pending" THEN "closed" ELSE @]
    /\ AfterRefresh(h)
    /\ UNCHANGED <<wechat, lapsed, credits, keys, call, failures>>

-----------------------------------------------------------------------------
(***************************************************************************)
(* portal_cancel_payment_order, after its refresh.                         *)
(***************************************************************************)
Reread(h) ==
    /\ step[h] = "reread"
    /\ IF Seen(h).status = "paid" THEN Finish(h)
       ELSE Goto(h, "shut") /\ work' = [work EXCEPT ![h] = [Seen(h) EXCEPT !.then = "idle"]]
    /\ UNCHANGED <<wechat, lapsed, database, call, failures>>

\* Closing the trade: WeChat refuses with ORDERPAID, which asks for another refresh.
Shut(h) ==
    /\ step[h] = "shut"
    /\ IF trade[Order(h)] = "SUCCESS"
       THEN Goto(h, "refresh") /\ UNCHANGED trade
       ELSE Goto(h, "recheck") /\ trade' = [trade EXCEPT ![Order(h)] = "CLOSED"]
    /\ UNCHANGED <<acked, lapsed, database, work, call, failures>>

\* The request or its reply is lost, and with it the cancel.
ShutFails(h) ==
    /\ step[h] = "shut"
    /\ Fail
    /\ \/ UNCHANGED trade
       \/ trade[Order(h)] = "NOTPAY" /\ trade' = [trade EXCEPT ![Order(h)] = "CLOSED"]
    /\ Finish(h)
    /\ UNCHANGED <<acked, lapsed, database, call>>

\* Its last transaction: closes the order, and its sessions, if it is still pending.
Recheck(h) ==
    /\ step[h] = "recheck"
    /\ IF status[Order(h)] # "pending" THEN Finish(h)
       ELSE /\ work' = [work EXCEPT ![h].expired = {Order(h)}, ![h].targets = Pending(Order(h))]
            /\ Goto(h, "close")
    /\ UNCHANGED <<wechat, lapsed, database, call, failures>>

-----------------------------------------------------------------------------
(***************************************************************************)
(* portal_create_payment_session, once the order was found pending.        *)
(***************************************************************************)
Prepay(h) ==
    /\ step[h] = "prepay"
    /\ IF ~lapsed[Order(h)] /\ trade[Order(h)] \in {"none", "NOTPAY"}
       THEN /\ trade' = [trade EXCEPT ![Order(h)] = "NOTPAY"]
            /\ Goto(h, "check") /\ UNCHANGED work
       ELSE Finish(h) /\ UNCHANGED trade
    /\ UNCHANGED <<acked, lapsed, database, call, failures>>

PrepayFails(h) ==
    /\ step[h] = "prepay"
    /\ Fail
    /\ \/ UNCHANGED trade
       \/ trade[Order(h)] = "none" /\ trade' = [trade EXCEPT ![Order(h)] = "NOTPAY"]
    /\ Finish(h)
    /\ UNCHANGED <<acked, lapsed, database, call>>

CheckPending(h) ==
    /\ step[h] = "check"
    /\ IF status[Order(h)] = "pending" THEN Goto(h, "insert") /\ UNCHANGED work ELSE Finish(h)
    /\ UNCHANGED <<wechat, lapsed, database, call, failures>>

InsertSession(h) ==
    /\ step[h] = "insert"
    /\ sessions' = [sessions EXCEPT ![Order(h)] =
                       Append(@, [status |-> "pending", queried |-> FALSE])]
    /\ Finish(h)
    /\ UNCHANGED <<wechat, lapsed, status, credits, keys, call, failures>>

-----------------------------------------------------------------------------
(***************************************************************************)
(* internal_wechat_payment_notify.  WeChat repeats the notification of a   *)
(* payment until it is answered with success, and may send it twice.       *)
(***************************************************************************)
Notify(h, o) ==
    /\ Free(h)
    /\ trade[o] = "SUCCESS" /\ ~acked[o]
    /\ work' = [work EXCEPT ![h] = Work("notify", o)]
    /\ call' = [call EXCEPT ![h] = [stage |-> "sent", order |-> o, source |-> "notify"]]
    /\ Goto(h, "calling")
    /\ UNCHANGED <<wechat, lapsed, database, failures>>

\* A notification that does not tell of a payment.
NotifyOther(o) ==
    /\ trade[o] \in {"NOTPAY", "CLOSED"}
    /\ sessions[o] # <<>>
    /\ LET n == Len(sessions[o]) IN SetSession(o, n, "pending", sessions[o][n].queried)
    /\ UNCHANGED <<wechat, lapsed, status, credits, keys, step, work, call, failures>>

(***************************************************************************)
(* internal_payment_provider_callback, a transaction of its own.  It first *)
(* inserts its idempotency key, waiting for another with the same key, and *)
(* returns the stored response if that one has committed.                  *)
(***************************************************************************)
Key(h) == <<call[h].order, call[h].source>>

Stage(h, s) == call' = [call EXCEPT ![h].stage = s]

KeyFree(h) == \A g \in Handlers \ {h} :
                 Key(g) = Key(h) => call[g].stage \notin {"open", "known", "updated"}

\* Faulty variant of CallBegin: a key that another call is still using counts as answered.
CallBeginImpatient(h) ==
    /\ call[h].stage = "sent"
    /\ IF Key(h) \in keys \/ ~KeyFree(h) THEN Stage(h, "done")
       ELSE Stage(h, IF status[call[h].order] = "paid" THEN "known" ELSE "open")
    /\ UNCHANGED <<wechat, lapsed, database, step, work, failures>>

CallBegin(h) ==
    /\ call[h].stage = "sent"
    /\ KeyFree(h)
    /\ IF Key(h) \in keys THEN Stage(h, "done")
       ELSE Stage(h, IF status[call[h].order] = "paid" THEN "known" ELSE "open")
    /\ UNCHANGED <<wechat, lapsed, database, step, work, failures>>

\* Faulty variant of CallUpdate: UPDATE ... WHERE order_id = %s, and no second look.
CallUpdateBlindly(h) ==
    /\ call[h].stage = "open"
    /\ ~Locked(call[h].order)
    /\ Stage(h, "updated")
    /\ UNCHANGED <<wechat, lapsed, database, step, work, failures>>

\* UPDATE ... WHERE status <> 'paid': it waits for the row, then looks again.
CallUpdate(h) ==
    /\ call[h].stage = "open"
    /\ ~Locked(call[h].order)
    /\ Stage(h, IF status[call[h].order] = "paid" THEN "known" ELSE "updated")
    /\ UNCHANGED <<wechat, lapsed, database, step, work, failures>>

\* It commits: the order is paid, its goods are granted, its key is answered.
CallCommit(h) ==
    /\ call[h].stage \in {"known", "updated"}
    /\ keys' = keys \cup {Key(h)}
    /\ IF call[h].stage = "known" THEN UNCHANGED <<status, credits>>
       ELSE /\ status' = [status EXCEPT ![call[h].order] = "paid"]
            /\ credits' = [credits EXCEPT ![call[h].order] = @ + 1]
    /\ Stage(h, "done")
    /\ UNCHANGED <<wechat, lapsed, sessions, step, work, failures>>

\* It fails, and is rolled back.
CallDies(h) ==
    /\ call[h].stage \in {"sent", "open", "known", "updated"}
    /\ Fail
    /\ Stage(h, "failed")
    /\ UNCHANGED <<wechat, lapsed, database, step, work>>

CallOver(h) == call[h].stage \in {"done", "failed"}

Hangup(h) == call' = [call EXCEPT ![h] = NoCall]

\* A call that has outlived its caller ends unheard.
CallForgotten(h) ==
    /\ step[h] # "calling" /\ CallOver(h)
    /\ Hangup(h)
    /\ UNCHANGED <<wechat, lapsed, database, step, work, failures>>

(***************************************************************************)
(* The caller learns that the order is credited and marks the session: the *)
(* one it had read, or, for a notification, the latest.  The notification  *)
(* is then answered with success, though WeChat may not hear it.           *)
(***************************************************************************)
Credited(h) ==
    /\ step[h] = "calling" /\ call[h].stage = "done"
    /\ LET o == Order(h)
           n == IF work[h].type = "notify" THEN Len(sessions[o]) ELSE work[h].index
       IN  IF n = 0 THEN UNCHANGED sessions
           ELSE SetSession(o, n, "paid",
                           CASE work[h].type = "notify" -> sessions[o][n].queried
                             [] work[h].type = "ops"    -> work[h].session.queried
                             [] OTHER                   -> TRUE)
    /\ \/ acked' = [acked EXCEPT ![Order(h)] = @ \/ work[h].type = "notify"]
          /\ UNCHANGED failures
       \/ work[h].type = "notify" /\ Fail /\ UNCHANGED acked
    /\ AfterRefresh(h)
    /\ Hangup(h)
    /\ UNCHANGED <<trade, lapsed, status, credits, keys>>

\* Faulty variant of NotCredited: the notification is answered with success all the same.
NotCreditedButAcked(h) ==
    /\ step[h] = "calling" /\ call[h].stage = "failed"
    /\ acked' = [acked EXCEPT ![Order(h)] = @ \/ work[h].type = "notify"]
    /\ Finish(h)
    /\ Hangup(h)
    /\ UNCHANGED <<trade, lapsed, database, failures>>

\* The callback was refused or broke: 502.
NotCredited(h) ==
    /\ step[h] = "calling" /\ call[h].stage = "failed"
    /\ Finish(h)
    /\ Hangup(h)
    /\ UNCHANGED <<wechat, lapsed, database, failures>>

-----------------------------------------------------------------------------
(***************************************************************************)
(* cleanup_orders, of the operators: pending sessions that have lapsed     *)
(* expire; pending orders, of more than a day, without a live session are  *)
(* closed.                                                                 *)
(***************************************************************************)
Cleanup ==
    /\ sessions' = [o \in Orders |-> [i \in DOMAIN sessions[o] |->
                       IF lapsed[o] /\ sessions[o][i].status = "pending"
                       THEN [sessions[o][i] EXCEPT !.status = "expired"] ELSE sessions[o][i]]]
    /\ \E old \in SUBSET {o \in Orders : lapsed[o] /\ status[o] = "pending"} :
          /\ \A o \in old : ~Locked(o)
          /\ status' = [o \in Orders |-> IF o \in old THEN "closed" ELSE status[o]]
    /\ UNCHANGED <<wechat, lapsed, credits, keys, step, work, call, failures>>

\* A handler dies, or gives up on its call after twelve seconds.  The call goes on.
Die(h) ==
    /\ step[h] # "idle"
    /\ Fail
    /\ Finish(h)
    /\ UNCHANGED <<wechat, lapsed, database, call>>

-----------------------------------------------------------------------------
Init ==
    /\ trade = [o \in Orders |-> "none"]
    /\ acked = [o \in Orders |-> FALSE]
    /\ lapsed = [o \in Orders |-> FALSE]
    /\ status = [o \in Orders |-> "none"]
    /\ sessions = [o \in Orders |-> <<>>]
    /\ credits = [o \in Orders |-> 0]
    /\ keys = {}
    /\ step = [h \in Handlers |-> "idle"]
    /\ work = [h \in Handlers |-> NoWork]
    /\ call = [h \in Handlers |-> NoCall]
    /\ failures = 0

Environment == \E o \in Orders : CreateOrder(o) \/ Lapse(o) \/ QueryAges(o) \/ Pay(o)
                                    \/ TradeExpires(o) \/ NotifyOther(o)

\* What a handler does next, short of failing.
Proceed(h) ==
    \/ Scan(h) \/ Close(h) \/ Read(h)
    \/ SkipRefresh(h) \/ ExpireSession(h) \/ QueryPaid(h) \/ QueryOpen(h) \/ QueryUnknown(h)
    \/ WriteAnswer(h) \/ Reread(h) \/ Shut(h) \/ Recheck(h)
    \/ Prepay(h) \/ CheckPending(h) \/ InsertSession(h)
    \/ Credited(h) \/ NotCredited(h)

CallProceeds(h) == CallBegin(h) \/ CallUpdate(h) \/ CallCommit(h) \/ CallForgotten(h)

Failure(h) == QueryFails(h) \/ ShutFails(h) \/ PrepayFails(h) \/ CallDies(h) \/ Die(h)

Next ==
    \/ Environment
    \/ Cleanup
    \/ \E h \in Handlers : \/ Begin(h) \/ Proceed(h) \/ CallProceeds(h) \/ Failure(h)
                           \/ \E o \in Orders : Notify(h, o)

Spec == Init /\ [][Next]_vars

(***************************************************************************)
(* Handlers and their calls keep running, and WeChat repeats the           *)
(* notification of a payment, at times when a handler is free for it.      *)
(***************************************************************************)
Fairness ==
    /\ \A h \in Handlers : WF_vars(Proceed(h)) /\ WF_vars(CallProceeds(h))
    /\ \A o \in Orders : SF_vars(\E h \in Handlers : Notify(h, o))

FairSpec == Spec /\ Fairness

-----------------------------------------------------------------------------
(***************************************************************************)
(* Properties.                                                             *)
(***************************************************************************)
SessionType == [status : {"none", "pending", "expired", "closed", "paid"}, queried : BOOLEAN]

WorkType ==
    [type : {"none", "list", "poll", "session", "cancel", "ops", "notify"}, order : Orders,
     status : {"none", "pending", "closed", "paid"}, index : Nat, session : SessionType,
     expired : SUBSET Orders, targets : SUBSET (Orders \X Nat),
     answer : {"none", "NOTPAY", "CLOSED"}, then : {"idle", "reread"}]

CallType ==
    [stage : {"none", "sent", "open", "known", "updated", "done", "failed"},
     order : Orders, source : {"none", "query", "ops", "notify"}]

Steps == {"idle", "scan", "close", "read", "refresh", "calling", "answered", "reread",
          "shut", "recheck", "prepay", "check", "insert"}

\* Every variable keeps its type.
TypeOK ==
    /\ trade \in [Orders -> {"none", "NOTPAY", "SUCCESS", "CLOSED"}]
    /\ acked \in [Orders -> BOOLEAN] /\ lapsed \in [Orders -> BOOLEAN]
    /\ status \in [Orders -> {"none", "pending", "closed", "paid"}]
    /\ sessions \in [Orders -> Seq(SessionType)]
    /\ credits \in [Orders -> Nat]
    /\ keys \subseteq Orders \X {"none", "query", "ops", "notify"}
    /\ step \in [Handlers -> Steps]
    /\ work \in [Handlers -> WorkType]
    /\ call \in [Handlers -> CallType]
    /\ failures \in 0..MaxFailures

(***************************************************************************)
(* An order has been credited once if it is paid and never if it is not,   *)
(* however many notifications, pages and operators found the payment at    *)
(* the same time, and wherever their calls broke off.                      *)
(***************************************************************************)
CreditedExactlyWhenPaid ==
    \A o \in Orders : credits[o] = IF status[o] = "paid" THEN 1 ELSE 0

(***************************************************************************)
(* WeChat is told to stop notifying, and a repeated callback is told that  *)
(* it has been applied, only when the order is paid in the database.       *)
(***************************************************************************)
AnswersAreTrue ==
    /\ \A o \in Orders : acked[o] => status[o] = "paid"
    /\ \A k \in keys : status[k[1]] = "paid"

(***************************************************************************)
(* A session says it is paid only of an order that is: the page never      *)
(* shows a payment that has not been credited.                             *)
(***************************************************************************)
PaidSessionHasPaidOrder ==
    \A o \in Orders : \A i \in DOMAIN sessions[o] :
        sessions[o][i].status = "paid" => status[o] = "paid"

(***************************************************************************)
(* A paid order stays paid: no page, cancel, cleanup or late answer of     *)
(* WeChat takes it back.                                                   *)
(***************************************************************************)
PaidIsFinal ==
    [][\A o \in Orders : status[o] = "paid" => status'[o] = "paid"]_vars

(***************************************************************************)
(* Orders and payments implement the promise of the shop.                  *)
(***************************************************************************)
P == INSTANCE Purchase WITH
        paid <- {o \in Orders : trade[o] = "SUCCESS"}, delivered <- credits

\* Goods are handed over only for money, and once.
DeliversOnlyPaid == P!Spec

\* They are handed over in the end, however the order was closed in between.
DeliversInTheEnd == P!FairSpec

(***************************************************************************)
(* When WeChat has heard that its notification is processed and nobody is  *)
(* at work, the latest session of the order is paid, as the acceptance     *)
(* list of the payment documents has it.                                   *)
(***************************************************************************)
PaidOrderHasPaidSession ==
    \A o \in Orders :
        acked[o] /\ sessions[o] # <<>> /\ (\A h \in Handlers : Free(h))
            => sessions[o][Len(sessions[o])].status = "paid"
=============================================================================
