---------------------------- MODULE CheckoutPage ----------------------------
(***************************************************************************)
(* The script of the checkout page (chat_backend_portal_public_html.py,    *)
(* 4195 to 4670).  It creates an order, shows the QR code of its payment   *)
(* session in a dialog, asks every 2.5 seconds what has become of the      *)
(* order, and cancels it when the dialog is closed or the page is left.    *)
(*                                                                         *)
(* Requests overlap, and their answers arrive in any order or not at all.  *)
(* The server answers as PaymentOrders has it; here it is what it says of  *)
(* the status of an order, and whether it has a payment session.  An order *)
(* that is closed may still be paid: a notification of a payment that was  *)
(* made before WeChat shut the trade is credited whenever it comes.        *)
(***************************************************************************)
EXTENDS Naturals

CONSTANTS
    Orders, Slots,
    None           \* no order

VARIABLES
    orders,     \* at the server: status of an order, whether it has a payment session, and
                \* (history) whether it has ever been closed
    requests,   \* requests under way
    url,        \* order_id in the address of the page
    current,    \* currentOrderId
    shown,      \* lastPaymentPayload: order, status and session
    dialog,     \* which dialogs are open: the QR code's, the one of success
    polling,    \* pollTimer is set
    told,       \* paymentSuccessShown
    loading,    \* the button that creates orders is disabled
    strayed     \* a request of this page has failed, or an answer came of an order it had left

page == <<url, current, shown, dialog, polling, told, loading, strayed>>
vars == <<orders, requests, page>>

Unused == [status |-> "none", session |-> FALSE, closed |-> FALSE]
Idle == [kind |-> "idle"]
Nothing == [order |-> None, status |-> "none", session |-> FALSE]
NoDialog == [code |-> FALSE, success |-> FALSE]

Init ==
    /\ orders = [o \in Orders |-> Unused]
    /\ requests = [q \in Slots |-> Idle]
    /\ url = None /\ current = None /\ shown = Nothing
    /\ dialog = NoDialog /\ polling = FALSE /\ told = FALSE
    /\ loading = FALSE /\ strayed = FALSE

Request(kind, o) == [kind |-> kind, order |-> o, answer |-> Nothing]
Send(q, kind, o) == requests[q] = Idle /\ requests' = [requests EXCEPT ![q] = Request(kind, o)]
UnderWay(q) == requests[q] # Idle /\ requests[q].answer = Nothing
Answered(q) == requests[q] # Idle /\ requests[q].answer # Nothing

-----------------------------------------------------------------------------
(* The server, and the user who pays. *)

Answer(q, o, row) ==
    /\ orders' = [orders EXCEPT ![o] = row]
    /\ requests' = [requests EXCEPT ![q].answer = [order |-> o, status |-> row.status, session |-> row.session]]
    /\ UNCHANGED page

Refused == [Nothing EXCEPT !.status = "error"]
Refuse(q) ==
    /\ requests' = [requests EXCEPT ![q].answer = Refused]
    /\ UNCHANGED <<orders, page>>

\* portal_create_payment_order: every call makes a new order.
ServeCreate(q, o) ==
    /\ UnderWay(q) /\ requests[q].kind = "create" /\ orders[o] = Unused
    /\ Answer(q, o, [Unused EXCEPT !.status = "pending"])

\* portal_create_payment_session: the session there is, or a new one, which is as good.
ServeSession(q) ==
    LET o == requests[q].order
    IN  /\ UnderWay(q) /\ requests[q].kind \in {"open", "refresh"}
        /\ IF orders[o].status # "pending" THEN Refuse(q)
           ELSE Answer(q, o, [orders[o] EXCEPT !.session = TRUE])

\* portal_get_payment_order
ServePoll(q) ==
    /\ UnderWay(q) /\ requests[q].kind = "poll"
    /\ Answer(q, requests[q].order, orders[requests[q].order])

\* portal_cancel_payment_order: closed, or paid before, or pending still when WeChat says that
\* it is paid and cannot be asked.  What the user has paid by then may be credited later (Pays).
ServeCancel(q, closes) ==
    LET o == requests[q].order
    IN  /\ UnderWay(q) /\ requests[q].kind \in {"cancel", "beacon"}
        /\ Answer(q, o, IF closes /\ orders[o].status = "pending"
                          THEN [orders[o] EXCEPT !.status = "closed", !.closed = TRUE] ELSE orders[o])

\* The notification of WeChat is credited: it updates the order wherever it is not paid yet, a
\* closed one too (external to this module: PaymentOrders has the callback).
Pays(o) ==
    /\ orders[o].status \in {"pending", "closed"} /\ orders[o].session
    /\ orders' = [orders EXCEPT ![o].status = "paid"]
    /\ UNCHANGED <<requests, page>>

\* The server closes an order whose time has run out.
Lapses(o) ==
    /\ orders[o].status = "pending"
    /\ orders' = [orders EXCEPT ![o].status = "closed", ![o].closed = TRUE]
    /\ UNCHANGED <<requests, page>>

\* The network loses a request or its answer.
Lose(q) ==
    /\ requests[q] # Idle /\ requests[q].answer # Refused
    /\ Refuse(q)

-----------------------------------------------------------------------------
(* What the user does. *)

Create(q) ==
    /\ ~loading /\ Send(q, "create", None)
    /\ loading' = TRUE
    /\ UNCHANGED <<orders, url, current, shown, dialog, polling, told, strayed>>

Poll(q) ==
    /\ polling /\ current # None
    /\ Send(q, "poll", current)
    /\ UNCHANGED <<orders, page>>

\* shouldCancelCurrentPayment
MayCancel == current # None /\ shown.status = "pending" /\ dialog.code

\* closeWechatModal
Close(q) ==
    /\ dialog.code
    /\ IF MayCancel THEN Send(q, "cancel", current) /\ UNCHANGED dialog
                    ELSE dialog' = [dialog EXCEPT !.code = FALSE] /\ UNCHANGED requests
    /\ UNCHANGED <<orders, url, current, shown, polling, told, loading, strayed>>

Open ==
    /\ shown.status = "pending" /\ shown.session
    /\ dialog' = [dialog EXCEPT !.code = TRUE]
    /\ UNCHANGED <<orders, requests, url, current, shown, polling, told, loading, strayed>>

Refresh(q) ==
    /\ shown.status = "pending" /\ shown.session /\ current # None
    /\ Send(q, "refresh", current)
    /\ UNCHANGED <<orders, page>>

HideSuccess ==
    /\ dialog.success
    /\ dialog' = [dialog EXCEPT !.success = FALSE]
    /\ UNCHANGED <<orders, requests, url, current, shown, polling, told, loading, strayed>>

\* The page is loaded anew: what was sent is served, but nobody waits for it; a dialog that is
\* open sends a cancellation, and the order of the address is asked for.
Reload(q, p) ==
    /\ p # q /\ requests[q] = Idle /\ requests[p] = Idle
    /\ requests' = [r \in Slots |->
          CASE r = q -> IF MayCancel THEN Request("beacon", current) ELSE Idle
            [] r = p -> IF url # None THEN Request("poll", url) ELSE Idle
            [] UnderWay(r) /\ requests[r].kind = "cancel" -> [requests[r] EXCEPT !.kind = "beacon"]
            [] OTHER -> Idle]
    /\ current' = url /\ shown' = Nothing
    /\ dialog' = NoDialog /\ polling' = FALSE /\ told' = FALSE
    /\ loading' = FALSE /\ strayed' = FALSE
    /\ UNCHANGED <<orders, url>>

-----------------------------------------------------------------------------
(* Answers. *)

\* renderOrderState, and renderWechatModal, which opens the dialog of the code if it is to.
Render(a, open) ==
    LET first == a.status = "paid" /\ shown.status \notin {"none", "paid"} /\ ~told
    IN  /\ shown' = a
        /\ told' = (told \/ first)
        /\ dialog' = [code |-> a.status # "paid" /\ (dialog.code \/ open),
                      success |-> dialog.success \/ first]

\* Faulty variant of Watches: a timer that runs is taken away and not set again.
WatchesOnce(status) == status = "pending" /\ ~polling

\* startPolling
Watches(status) == status = "pending"

Stray(a) == strayed' = (strayed \/ a.order # current)
Over(q) == requests' = [requests EXCEPT ![q] = Idle]

\* The order becomes that of the page, and its session is asked for.
Created(q) ==
    LET a == requests[q].answer
    IN  /\ requests[q].kind = "create" /\ Answered(q) /\ a # Refused
        /\ current' = a.order /\ url' = a.order
        /\ Render(a, FALSE)
        /\ requests' = [requests EXCEPT ![q] = IF a.status = "pending" THEN Request("open", a.order) ELSE Idle]
        /\ loading' = (a.status = "pending")
        /\ UNCHANGED <<orders, polling, strayed>>

\* createPaymentSession, after an order was created or for a new code.
SessionMade(q) ==
    LET a == requests[q].answer
    IN  /\ requests[q].kind \in {"open", "refresh"} /\ Answered(q) /\ a # Refused
        /\ Render(a, TRUE)
        /\ polling' = (polling \/ (Watches(a.status) /\ current # None))
        /\ loading' = (loading /\ requests[q].kind # "open")
        /\ Stray(a) /\ Over(q)
        /\ UNCHANGED <<orders, url, current>>

\* loadOrder makes the order it was answered about that of the page.
Loaded(q) ==
    LET a == requests[q].answer
    IN  /\ requests[q].kind = "poll" /\ Answered(q) /\ a # Refused
        /\ current' = a.order
        /\ Render(a, FALSE)
        /\ polling' = Watches(a.status)
        /\ Over(q)
        /\ UNCHANGED <<orders, url, loading, strayed>>

\* closeWechatModal shows what cancelCurrentPayment was answered, and success if it came too late.
Cancelled(q) ==
    LET a == requests[q].answer
        first == a.status = "paid"
    IN  /\ requests[q].kind = "cancel" /\ Answered(q) /\ a # Refused
        /\ shown' = a
        /\ told' = (told \/ (first /\ shown.status \notin {"none", "paid"}))
        /\ dialog' = [code |-> FALSE, success |-> dialog.success \/ first]
        /\ Stray(a) /\ Over(q)
        /\ UNCHANGED <<orders, url, current, polling, loading>>

\* Any error ends the polling if it is that of a poll, and is shown.
Failed(q) ==
    /\ requests[q] # Idle /\ requests[q].kind # "beacon" /\ requests[q].answer = Refused
    /\ polling' = (polling /\ requests[q].kind # "poll")
    /\ loading' = (loading /\ requests[q].kind \notin {"create", "open"})
    /\ strayed' = TRUE
    /\ Over(q)
    /\ UNCHANGED <<orders, url, current, shown, dialog, told>>

Unheard(q) ==
    /\ requests[q] # Idle /\ requests[q].kind = "beacon" /\ Answered(q)
    /\ Over(q)
    /\ UNCHANGED <<orders, page>>

Next ==
    \/ \E o \in Orders : Pays(o) \/ Lapses(o)
    \/ \E q \in Slots, o \in Orders : ServeCreate(q, o)
    \/ \E q \in Slots, closes \in BOOLEAN : ServeCancel(q, closes)
    \/ \E q, p \in Slots : Reload(q, p)
    \/ \E q \in Slots :
          \/ ServeSession(q) \/ ServePoll(q) \/ Lose(q)
          \/ Create(q) \/ Poll(q) \/ Close(q) \/ Refresh(q)
          \/ Created(q) \/ SessionMade(q) \/ Loaded(q) \/ Cancelled(q) \/ Failed(q) \/ Unheard(q)
    \/ Open \/ HideSuccess

Spec == Init /\ [][Next]_vars

-----------------------------------------------------------------------------
(* Properties. *)

\* The variables have their types: what is shown and asked about are orders that were created.
TypeOK ==
    /\ orders \in [Orders -> [status : {"none", "pending", "paid", "closed"}, session : BOOLEAN, closed : BOOLEAN]]
    /\ dialog \in [code : BOOLEAN, success : BOOLEAN]
    /\ <<polling, told, loading, strayed>> \in BOOLEAN \X BOOLEAN \X BOOLEAN \X BOOLEAN
    /\ \A o \in ({url, current, shown.order} \cup {requests[q].order : q \in {p \in Slots : requests[p] # Idle}})
               \ {None} : orders[o] # Unused

\* The page says that an order is paid only when it is, that it is cancelled only when it was (a
\* payment that is credited afterwards it does not learn of, for it asks no more), and
\* congratulates only on a payment, in whichever order the answers arrive (renderOrderState,
\* closeWechatModal).
PageIsTrue ==
    /\ shown.status = "paid" => orders[shown.order].status = "paid"
    /\ shown.status = "closed" => orders[shown.order].closed
    /\ dialog.success => \E o \in Orders : orders[o].status = "paid"

\* As long as no request fails and no late answer brings back an order the user has left, an order
\* that is shown as pending, and is, is asked about: the page polls, or waits for an answer.
PendingIsWatched ==
    (shown.status = "pending" /\ orders[shown.order].status = "pending" /\ ~strayed) =>
        polling \/ \E q \in Slots : requests[q] # Idle /\ requests[q].kind # "beacon"

(***************************************************************************)
(* PageIsTrue and PendingIsWatched with what they rest on.  An order that  *)
(* an answer calls paid is paid, and stays so; one it calls closed has     *)
(* been closed, and is closed still or paid since; an answer is about the  *)
(* order it was asked about; what is shown is the order of the page,       *)
(* unless an answer strayed; and that order, while it is pending, is       *)
(* polled, or its session or its status is asked for.                      *)
(***************************************************************************)
Rows == {row \in [status : {"none", "pending", "paid", "closed"}, session : BOOLEAN, closed : BOOLEAN] :
           /\ row.status = "closed" => row.closed
           /\ row.closed => row.status \in {"closed", "paid"}}
Replies == [order : Orders, status : {"pending", "paid", "closed"}, session : BOOLEAN]
Requests ==
    [kind : {"create", "open", "refresh", "poll", "cancel", "beacon"},
     order : Orders \cup {None}, answer : {Nothing, Refused} \cup Replies]

Made(o) == o # None => orders[o].status # "none"
True(a) ==
    /\ Made(a.order)
    /\ a.status = "paid" => orders[a.order].status = "paid"
    /\ a.status = "closed" => orders[a.order].closed
Sound(r) ==
    /\ Made(r.order) /\ True(r.answer)
    /\ r.kind # "create" =>
          /\ r.order # None /\ current # None
          /\ r.answer \in Replies => r.answer.order = r.order
          /\ r.answer \in Replies /\ r.kind \in {"open", "refresh"} => r.answer.status = "pending"

Typed ==
    /\ orders \in [Orders -> Rows] /\ requests \in [Slots -> {Idle} \cup Requests]
    /\ url \in Orders \cup {None} /\ current \in Orders \cup {None}
    /\ shown \in {Nothing} \cup Replies /\ dialog \in [code : BOOLEAN, success : BOOLEAN]

CurrentIsShown == ~strayed /\ shown # Nothing => shown.order = current
CurrentIsAsked ==
    ~strayed /\ current # None /\ orders[current].status = "pending" =>
        polling \/ \E q \in Slots :
            requests[q] # Idle /\ requests[q].kind \in {"open", "poll"} /\ requests[q].order = current

IInv ==
    /\ Typed /\ PageIsTrue
    /\ Made(url) /\ Made(current) /\ True(shown)
    /\ current # None => url # None
    /\ \A q \in Slots : requests[q] # Idle => Sound(requests[q])
    /\ CurrentIsShown /\ CurrentIsAsked
=============================================================================
