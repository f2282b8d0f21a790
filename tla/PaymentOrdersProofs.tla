------------------------ MODULE PaymentOrdersProofs ------------------------
(***************************************************************************)
(* Proofs about PaymentOrders, for any orders, handlers and requests, and  *)
(* any number of sessions and failures.                                    *)
(*                                                                         *)
(* An order is credited in one place, the commit of a call. PaymentInv     *)
(* says what makes that safe: a call exists only for money that was taken; *)
(* an order it has updated and not committed is not paid, and no other     *)
(* call can have updated it; and a caller that waits for a call waits for  *)
(* its own order. Sessions are written from what was read long before, so  *)
(* the records of handlers are part of the invariant: a session read as    *)
(* paid is of an order that is paid, and stays so.                         *)
(***************************************************************************)
EXTENDS PaymentOrders, SequenceTheorems, TLAPS

-----------------------------------------------------------------------------
\* Types.

\* The blank and the new records of a handler have their types.
LEMMA BlankTypes ==
    /\ NoWork \in WorkType /\ NoWork.order \in Orders
    /\ NoCall \in CallType
    /\ \A type \in {"list", "poll", "session", "cancel", "ops", "notify"}, o \in Orders :
          Work(type, o) \in WorkType
<1>1. (CHOOSE o \in Orders : TRUE) \in Orders
    BY ConstantsAssumption
<1> QED
    BY <1>1 DEF NoWork, NoCall, Work, NoSession, WorkType, CallType, SessionType

(***************************************************************************)
(* What a handler reads of its order, and that a session it reads as paid  *)
(* is one.                                                                 *)
(***************************************************************************)
LEMMA SeenType ==
    ASSUME TypeOK, NEW h \in Handlers
    PROVE  /\ Seen(h) \in WorkType
           /\ Seen(h).order = work[h].order
           /\ Seen(h).status = status[work[h].order]
           /\ Seen(h).session.status = "paid" =>
                 /\ Len(sessions[work[h].order]) \in DOMAIN sessions[work[h].order]
                 /\ sessions[work[h].order][Len(sessions[work[h].order])].status = "paid"
<1> DEFINE o == work[h].order
           n == Len(sessions[o])
<1>1. work[h] \in WorkType /\ o \in Orders /\ status[o] \in {"none", "pending", "closed", "paid"}
    BY DEF TypeOK, WorkType
<1>2. sessions[o] \in Seq(SessionType) /\ n \in Nat
    BY <1>1 DEF TypeOK
<1>3. n # 0 => n \in DOMAIN sessions[o] /\ sessions[o][n] \in SessionType
    BY <1>2
<1>4. NoSession \in SessionType
    BY DEF NoSession, SessionType
<1> QED
    BY <1>1, <1>2, <1>3, <1>4 DEF Seen, Order, WorkType, NoSession

\* The small moves of handlers and calls keep the types.
LEMMA HandlerMoves ==
    ASSUME TypeOK, NEW h \in Handlers
    PROVE  /\ \A s \in Steps : Goto(h, s) => step' \in [Handlers -> Steps]
           /\ Finish(h) => /\ step' \in [Handlers -> Steps]
                           /\ work' \in [Handlers -> WorkType]
           /\ AfterRefresh(h) => /\ step' \in [Handlers -> Steps]
                                 /\ work' \in [Handlers -> WorkType]
           /\ Hangup(h) => call' \in [Handlers -> CallType]
           /\ \A s \in {"query", "ops", "notify"} :
                 Send(h, s) => call' \in [Handlers -> CallType]
           /\ \A s \in {"known", "open", "updated", "done", "failed"} :
                 Stage(h, s) => call' \in [Handlers -> CallType]
           /\ Order(h) \in Orders /\ call[h].order \in Orders
           /\ Fail => failures' \in 0..MaxFailures
<1>1. work[h] \in WorkType /\ call[h] \in CallType
    BY DEF TypeOK
<1>2. \A s \in Steps : Goto(h, s) => step' \in [Handlers -> Steps]
    BY DEF TypeOK, Goto
<1>3. Finish(h) => step' \in [Handlers -> Steps] /\ work' \in [Handlers -> WorkType]
    BY <1>2, BlankTypes DEF Finish, TypeOK, Steps
<1>4. AfterRefresh(h) => step' \in [Handlers -> Steps] /\ work' \in [Handlers -> WorkType]
  <2>1. work[h].then \in Steps
    BY <1>1 DEF WorkType, Steps
  <2> QED
    BY <1>2, <1>3, <2>1 DEF AfterRefresh, TypeOK
<1>5. Order(h) \in Orders /\ call[h].order \in Orders
    BY <1>1 DEF Order, WorkType, CallType
<1>6. Hangup(h) => call' \in [Handlers -> CallType]
    BY BlankTypes DEF Hangup, TypeOK
<1>7. ASSUME NEW s \in {"query", "ops", "notify"}, Send(h, s)
      PROVE  call' \in [Handlers -> CallType]
    BY <1>5, <1>7 DEF Send, TypeOK, CallType
<1>8. ASSUME NEW s \in {"known", "open", "updated", "done", "failed"}, Stage(h, s)
      PROVE  call' \in [Handlers -> CallType]
  <2>1. [call[h] EXCEPT !.stage = s] \in CallType
    BY <1>1 DEF CallType
  <2>2. call' = [call EXCEPT ![h] = [call[h] EXCEPT !.stage = s]]
    BY <1>8 DEF Stage
  <2> QED
    BY <2>1, <2>2 DEF TypeOK
<1>9. Fail => failures' \in 0..MaxFailures
    BY ConstantsAssumption DEF Fail, TypeOK
<1> QED
    BY <1>2, <1>3, <1>4, <1>5, <1>6, <1>7, <1>8, <1>9

\* Writing a session keeps the type of sessions, whatever its index.
LEMMA SetSessionType ==
    ASSUME TypeOK, NEW o \in Orders, NEW i, NEW s \in {"none", "pending", "expired", "closed", "paid"},
           NEW q \in BOOLEAN, SetSession(o, i, s, q)
    PROVE  sessions' \in [Orders -> Seq(SessionType)]
<1>1. [status |-> s, queried |-> q] \in SessionType
    BY DEF SessionType
<1>2. [sessions[o] EXCEPT ![i] = [status |-> s, queried |-> q]] \in Seq(SessionType)
  <2>1. sessions[o] \in Seq(SessionType)
    BY DEF TypeOK
  <2>2. CASE i \in 1..Len(sessions[o])
    BY <1>1, <2>1, <2>2, ExceptSeq
  <2>3. CASE i \notin DOMAIN sessions[o]
    <3>1. [sessions[o] EXCEPT ![i] = [status |-> s, queried |-> q]] = sessions[o]
      BY <2>1, <2>3
    <3> QED
      BY <2>1, <3>1
  <2> QED
    BY <2>1, <2>2, <2>3
<1> QED
    BY <1>2 DEF SetSession, TypeOK

\* The fields of a session that exists.
LEMMA SessionFields ==
    ASSUME TypeOK, NEW o \in Orders, NEW i \in DOMAIN sessions[o]
    PROVE  /\ sessions[o][i] \in SessionType
           /\ sessions[o][i].status \in {"none", "pending", "expired", "closed", "paid"}
           /\ sessions[o][i].queried \in BOOLEAN
           /\ \A s \in {"closed", "expired"} :
                 [sessions[o][i] EXCEPT !.status = s] \in SessionType
<1>1. sessions[o] \in Seq(SessionType)
    BY DEF TypeOK
<1>2. sessions[o][i] \in SessionType
    BY <1>1
<1> QED
    BY <1>2 DEF SessionType

\* A sequence mapped over its indices is a sequence.
LEMMA MapIsSeq ==
    ASSUME NEW S, NEW s \in Seq(S), NEW f \in [DOMAIN s -> S]
    PROVE  f \in Seq(S)
<1>1. DOMAIN s = 1..Len(s) /\ Len(s) \in Nat
    OBVIOUS
<1> QED
    BY <1>1, SeqDef

\* The records of a handler after the updates the actions make.
LEMMA WorkFields ==
    ASSUME TypeOK, NEW h \in Handlers
    PROVE  /\ \A E \in SUBSET Orders, T \in SUBSET (Orders \X Nat) :
                 [work EXCEPT ![h].expired = E, ![h].targets = T] \in [Handlers -> WorkType]
           /\ \A a \in {"NOTPAY", "CLOSED"} :
                 [work EXCEPT ![h].answer = a] \in [Handlers -> WorkType]
           /\ \A then \in {"idle", "reread"} :
                 [work EXCEPT ![h] = [Seen(h) EXCEPT !.then = then]] \in [Handlers -> WorkType]
           /\ [work EXCEPT ![h] = Seen(h)] \in [Handlers -> WorkType]
           /\ work[h].session.queried \in BOOLEAN
           /\ work[h].session.status \in {"none", "pending", "expired", "closed", "paid"}
           /\ work[h].index \in Nat
           /\ work[h].expired \subseteq Orders
<1>1. work[h] \in WorkType
    BY DEF TypeOK
<1>2. ASSUME NEW E \in SUBSET Orders, NEW T \in SUBSET (Orders \X Nat)
      PROVE  [work EXCEPT ![h].expired = E, ![h].targets = T] \in [Handlers -> WorkType]
  <2>1. [work[h] EXCEPT !.expired = E, !.targets = T] \in WorkType
    BY <1>1 DEF WorkType
  <2>2. [work EXCEPT ![h].expired = E, ![h].targets = T]
            = [work EXCEPT ![h] = [work[h] EXCEPT !.expired = E, !.targets = T]]
    BY <1>1 DEF WorkType, TypeOK
  <2> QED
    BY <2>1, <2>2 DEF TypeOK
<1>3. ASSUME NEW a \in {"NOTPAY", "CLOSED"}
      PROVE  [work EXCEPT ![h].answer = a] \in [Handlers -> WorkType]
  <2>1. [work[h] EXCEPT !.answer = a] \in WorkType
    BY <1>1 DEF WorkType
  <2> QED
    BY <2>1 DEF TypeOK
<1>4. ASSUME NEW then \in {"idle", "reread"}
      PROVE  [work EXCEPT ![h] = [Seen(h) EXCEPT !.then = then]] \in [Handlers -> WorkType]
  <2>1. [Seen(h) EXCEPT !.then = then] \in WorkType
    BY SeenType DEF WorkType
  <2> QED
    BY <2>1 DEF TypeOK
<1>5. [work EXCEPT ![h] = Seen(h)] \in [Handlers -> WorkType]
    BY SeenType DEF TypeOK
<1> QED
    BY <1>1, <1>2, <1>3, <1>4, <1>5 DEF WorkType, SessionType

\* The pending sessions of an order are pairs of an order and an index.
LEMMA PendingType ==
    ASSUME TypeOK, NEW o \in Orders
    PROVE  Pending(o) \in SUBSET (Orders \X Nat)
<1>1. DOMAIN sessions[o] \subseteq Nat
    BY DEF TypeOK
<1> QED
    BY <1>1 DEF Pending

\* A new order keeps the types.
LEMMA CreateOrderTypes ==
    ASSUME TypeOK, NEW o \in Orders, CreateOrder(o)
    PROVE  TypeOK'
    BY SetSessionType DEF TypeOK, CreateOrder, Steps, wechat, database

\* The end of a TTL keeps the types.
LEMMA LapseTypes ==
    ASSUME TypeOK, NEW o \in Orders, Lapse(o)
    PROVE  TypeOK'
    BY SetSessionType DEF TypeOK, Lapse, Steps, wechat, database

\* Eight seconds after a query keeps the types.
LEMMA QueryAgesTypes ==
    ASSUME TypeOK, NEW o \in Orders, QueryAges(o)
    PROVE  TypeOK'
<1> PICK i \in DOMAIN sessions[o] :
        sessions[o][i].queried /\ SetSession(o, i, sessions[o][i].status, FALSE)
    BY DEF QueryAges
<1>1. sessions[o][i].status \in {"none", "pending", "expired", "closed", "paid"}
    BY SessionFields
<1>2. sessions' \in [Orders -> Seq(SessionType)]
    BY <1>1, SetSessionType
<1> QED
    BY <1>2 DEF TypeOK, QueryAges, wechat

\* A payment keeps the types.
LEMMA PayTypes ==
    ASSUME TypeOK, NEW o \in Orders, Pay(o)
    PROVE  TypeOK'
    BY SetSessionType DEF TypeOK, Pay, Steps, wechat, database

\* WeChat closing a trade of itself keeps the types.
LEMMA TradeExpiresTypes ==
    ASSUME TypeOK, NEW o \in Orders, TradeExpires(o)
    PROVE  TypeOK'
    BY SetSessionType DEF TypeOK, TradeExpires, Steps, wechat, database

\* A notification of no payment keeps the types.
LEMMA NotifyOtherTypes ==
    ASSUME TypeOK, NEW o \in Orders, NotifyOther(o)
    PROVE  TypeOK'
<1> DEFINE n == Len(sessions[o])
<1>1. sessions[o] \in Seq(SessionType) /\ sessions[o] # <<>>
    BY DEF TypeOK, NotifyOther
<1>2. sessions[o][n] \in SessionType
    BY <1>1
<1>3. sessions' \in [Orders -> Seq(SessionType)]
    BY <1>2, SetSessionType DEF SessionType, NotifyOther
<1> QED
    BY <1>3 DEF TypeOK, NotifyOther, wechat

\* A request that begins keeps the types.
LEMMA BeginTypes ==
    ASSUME TypeOK, NEW h \in Handlers, Begin(h)
    PROVE  TypeOK'
<1> PICK o \in Orders, type \in Requests :
        /\ work' = [work EXCEPT ![h] = Work(type, o)]
        /\ Goto(h, IF type \in {"cancel", "ops"} THEN "read" ELSE "scan")
    BY DEF Begin
<1>1. Work(type, o) \in WorkType
    BY BlankTypes, ConstantsAssumption
<1>2. step' \in [Handlers -> Steps]
    BY HandlerMoves DEF Steps
<1> QED
    BY <1>1, <1>2 DEF TypeOK, Begin, wechat, database

\* Finding what is to be closed keeps the types.
LEMMA ScanTypes ==
    ASSUME TypeOK, NEW h \in Handlers, Scan(h)
    PROVE  TypeOK'
<1> DEFINE E == {o \in Orders : status[o] = "pending" /\ lapsed[o]}
           T == UNION {Pending(o) : o \in E}
<1>1. E \in SUBSET Orders /\ T \in SUBSET (Orders \X Nat)
    BY PendingType
<1>2. work' = [work EXCEPT ![h].expired = E, ![h].targets = T]
    BY DEF Scan
<1>3. work' \in [Handlers -> WorkType]
    BY <1>1, <1>2, WorkFields
<1>4. step' \in [Handlers -> Steps]
    BY HandlerMoves DEF Scan, Steps
<1> QED
    BY <1>3, <1>4 DEF TypeOK, Scan, wechat, database

\* Closing orders and sessions keeps the types.
LEMMA CloseTypes ==
    ASSUME TypeOK, NEW h \in Handlers, Close(h)
    PROVE  TypeOK'
<1>1. sessions' \in [Orders -> Seq(SessionType)]
  <2> SUFFICES ASSUME NEW o \in Orders
               PROVE  [i \in DOMAIN sessions[o] |->
                           IF <<o, i>> \in work[h].targets /\ sessions[o][i].status = "pending"
                           THEN [sessions[o][i] EXCEPT !.status = "closed"]
                           ELSE sessions[o][i]] \in Seq(SessionType)
    BY DEF Close
  <2>1. \A i \in DOMAIN sessions[o] : /\ sessions[o][i] \in SessionType
                                     /\ [sessions[o][i] EXCEPT !.status = "closed"] \in SessionType
    BY SessionFields
  <2>2. sessions[o] \in Seq(SessionType)
    BY DEF TypeOK
  <2> QED
    BY <2>1, <2>2, MapIsSeq
<1>2. status' \in [Orders -> {"none", "pending", "closed", "paid"}]
    BY DEF Close, TypeOK
<1>3. step' \in [Handlers -> Steps] /\ work' \in [Handlers -> WorkType]
  <2>1. {} \in SUBSET Orders /\ {} \in SUBSET (Orders \X Nat) /\ "read" \in Steps
    BY DEF Steps
  <2>2. \/ Finish(h)
        \/ Goto(h, "read") /\ work' = [work EXCEPT ![h].expired = {}, ![h].targets = {}]
    BY DEF Close
  <2>3. [work EXCEPT ![h].expired = {}, ![h].targets = {}] \in [Handlers -> WorkType]
    BY <2>1, WorkFields
  <2>4. CASE Finish(h)
    BY <2>4, HandlerMoves
  <2>5. CASE Goto(h, "read") /\ work' = [work EXCEPT ![h].expired = {}, ![h].targets = {}]
    BY <2>1, <2>3, <2>5, HandlerMoves
  <2> QED
    BY <2>2, <2>4, <2>5
<1> QED
    BY <1>1, <1>2, <1>3 DEF TypeOK, Close, wechat

\* Reading the order keeps the types.
LEMMA ReadTypes ==
    ASSUME TypeOK, NEW h \in Handlers, Read(h)
    PROVE  TypeOK'
<1>1. step' \in [Handlers -> Steps] /\ work' \in [Handlers -> WorkType]
  <2>1. CASE ReadForPoll(h)
    BY <2>1, HandlerMoves, WorkFields DEF ReadForPoll, Steps
  <2>2. CASE ReadForOps(h)
    BY <2>2, HandlerMoves, WorkFields DEF ReadForOps, Steps
  <2>3. CASE ReadForCancel(h)
    <3>1. \/ Finish(h)
          \/ Goto(h, "recheck") /\ UNCHANGED work
          \/ /\ work' = [work EXCEPT ![h] = [Seen(h) EXCEPT !.then = "reread"]]
             /\ Goto(h, "refresh")
      BY <2>3 DEF ReadForCancel
    <3>2. {"recheck", "refresh"} \subseteq Steps
      BY DEF Steps
    <3>3. [work EXCEPT ![h] = [Seen(h) EXCEPT !.then = "reread"]] \in [Handlers -> WorkType]
      BY WorkFields
    <3>4. CASE Finish(h)
      BY <3>4, HandlerMoves
    <3>5. CASE Goto(h, "recheck") /\ UNCHANGED work
      BY <3>2, <3>5, HandlerMoves DEF TypeOK
    <3>6. CASE /\ work' = [work EXCEPT ![h] = [Seen(h) EXCEPT !.then = "reread"]]
               /\ Goto(h, "refresh")
      BY <3>2, <3>3, <3>6, HandlerMoves
    <3> QED
      BY <3>1, <3>4, <3>5, <3>6
  <2>4. CASE ReadForSession(h)
    BY <2>4, HandlerMoves, WorkFields DEF ReadForSession, Steps, TypeOK
  <2> QED
    BY <2>1, <2>2, <2>3, <2>4 DEF Read
<1> QED
    BY <1>1 DEF TypeOK, Read, wechat, database

\* A refresh that asks nothing keeps the types.
LEMMA SkipRefreshTypes ==
    ASSUME TypeOK, NEW h \in Handlers, SkipRefresh(h)
    PROVE  TypeOK'
    BY HandlerMoves, BlankTypes, SeenType, SetSessionType DEF TypeOK, SkipRefresh, Steps, wechat, database

\* Marking a session as expired keeps the types.
LEMMA ExpireSessionTypes ==
    ASSUME TypeOK, NEW h \in Handlers, ExpireSession(h)
    PROVE  TypeOK'
<1>1. sessions' \in [Orders -> Seq(SessionType)]
  <2>1. SetSession(Order(h), work[h].index, "expired", work[h].session.queried)
    BY DEF ExpireSession
  <2>2. Order(h) \in Orders /\ work[h].session.queried \in BOOLEAN
    BY HandlerMoves, WorkFields
  <2> QED
    BY <2>1, <2>2, SetSessionType
<1>2. step' \in [Handlers -> Steps] /\ work' \in [Handlers -> WorkType]
    BY HandlerMoves DEF ExpireSession
<1> QED
    BY <1>1, <1>2 DEF TypeOK, ExpireSession, wechat

\* The answer that an order is paid keeps the types.
LEMMA QueryPaidTypes ==
    ASSUME TypeOK, NEW h \in Handlers, QueryPaid(h)
    PROVE  TypeOK'
    BY HandlerMoves, BlankTypes, SeenType, SetSessionType DEF TypeOK, QueryPaid, Steps, wechat, database

\* The answer that it is not keeps the types.
LEMMA QueryOpenTypes ==
    ASSUME TypeOK, NEW h \in Handlers, QueryOpen(h)
    PROVE  TypeOK'
<1>1. step' \in [Handlers -> Steps] /\ work' \in [Handlers -> WorkType]
    BY HandlerMoves, WorkFields DEF QueryOpen, Steps
<1> QED
    BY <1>1 DEF TypeOK, QueryOpen, wechat, database

\* The answer that there is no such trade keeps the types.
LEMMA QueryUnknownTypes ==
    ASSUME TypeOK, NEW h \in Handlers, QueryUnknown(h)
    PROVE  TypeOK'
    BY HandlerMoves, BlankTypes, SeenType, SetSessionType DEF TypeOK, QueryUnknown, Steps, wechat, database

\* Writing an answer keeps the types.
LEMMA WriteAnswerTypes ==
    ASSUME TypeOK, NEW h \in Handlers, WriteAnswer(h)
    PROVE  TypeOK'
<1>1. sessions' \in [Orders -> Seq(SessionType)]
  <2> DEFINE s == IF work[h].answer = "NOTPAY" THEN "pending" ELSE "closed"
             q == IF work[h].type = "ops" THEN work[h].session.queried ELSE TRUE
  <2>1. sessions' = sessions \/ SetSession(Order(h), work[h].index, s, q)
    BY DEF WriteAnswer
  <2>2. s \in {"none", "pending", "expired", "closed", "paid"} /\ q \in BOOLEAN
    BY WorkFields
  <2> HIDE DEF s, q
  <2>3. Order(h) \in Orders
    BY HandlerMoves
  <2>4. CASE SetSession(Order(h), work[h].index, s, q)
    BY <2>2, <2>3, <2>4, SetSessionType
  <2> QED
    BY <2>1, <2>4 DEF TypeOK
<1>2. step' \in [Handlers -> Steps] /\ work' \in [Handlers -> WorkType]
    BY HandlerMoves DEF WriteAnswer
<1>3. status' \in [Orders -> {"none", "pending", "closed", "paid"}]
    BY DEF WriteAnswer, TypeOK
<1> QED
    BY <1>1, <1>2, <1>3 DEF TypeOK, WriteAnswer, wechat

\* Reading again, for a cancel keeps the types.
LEMMA RereadTypes ==
    ASSUME TypeOK, NEW h \in Handlers, Reread(h)
    PROVE  TypeOK'
<1>1. step' \in [Handlers -> Steps] /\ work' \in [Handlers -> WorkType]
    BY HandlerMoves, WorkFields DEF Reread, Steps
<1> QED
    BY <1>1 DEF TypeOK, Reread, wechat, database

\* Closing a trade keeps the types.
LEMMA ShutTypes ==
    ASSUME TypeOK, NEW h \in Handlers, Shut(h)
    PROVE  TypeOK'
    BY HandlerMoves, BlankTypes, SeenType, SetSessionType DEF TypeOK, Shut, Steps, wechat, database

\* The last look of a cancel keeps the types.
LEMMA RecheckTypes ==
    ASSUME TypeOK, NEW h \in Handlers, Recheck(h)
    PROVE  TypeOK'
<1>1. {Order(h)} \in SUBSET Orders /\ Pending(Order(h)) \in SUBSET (Orders \X Nat)
    BY HandlerMoves, PendingType
<1>2. step' \in [Handlers -> Steps] /\ work' \in [Handlers -> WorkType]
  <2>1. \/ Finish(h)
        \/ /\ work' = [work EXCEPT ![h].expired = {Order(h)}, ![h].targets = Pending(Order(h))]
           /\ Goto(h, "close")
    BY DEF Recheck
  <2>2. "close" \in Steps
    BY DEF Steps
  <2>3. [work EXCEPT ![h].expired = {Order(h)}, ![h].targets = Pending(Order(h))]
            \in [Handlers -> WorkType]
    BY <1>1, WorkFields
  <2>4. CASE Finish(h)
    BY <2>4, HandlerMoves
  <2>5. CASE /\ work' = [work EXCEPT ![h].expired = {Order(h)}, ![h].targets = Pending(Order(h))]
             /\ Goto(h, "close")
    BY <2>2, <2>3, <2>5, HandlerMoves
  <2> QED
    BY <2>1, <2>4, <2>5
<1> QED
    BY <1>2 DEF TypeOK, Recheck, wechat, database

\* A prepay keeps the types.
LEMMA PrepayTypes ==
    ASSUME TypeOK, NEW h \in Handlers, Prepay(h)
    PROVE  TypeOK'
    BY HandlerMoves, BlankTypes, SeenType, SetSessionType DEF TypeOK, Prepay, Steps, wechat, database

\* The look after a prepay keeps the types.
LEMMA CheckPendingTypes ==
    ASSUME TypeOK, NEW h \in Handlers, CheckPending(h)
    PROVE  TypeOK'
    BY HandlerMoves, BlankTypes, SeenType, SetSessionType DEF TypeOK, CheckPending, Steps, wechat, database

\* A new session keeps the types.
LEMMA InsertSessionTypes ==
    ASSUME TypeOK, NEW h \in Handlers, InsertSession(h)
    PROVE  TypeOK'
<1>1. [status |-> "pending", queried |-> FALSE] \in SessionType
    BY DEF SessionType
<1>2. sessions' \in [Orders -> Seq(SessionType)]
  <2>1. Append(sessions[Order(h)], [status |-> "pending", queried |-> FALSE]) \in Seq(SessionType)
    BY <1>1, HandlerMoves DEF TypeOK
  <2> QED
    BY <2>1 DEF InsertSession, TypeOK
<1>3. step' \in [Handlers -> Steps] /\ work' \in [Handlers -> WorkType]
    BY HandlerMoves DEF InsertSession
<1> QED
    BY <1>2, <1>3 DEF TypeOK, InsertSession, wechat

\* The caller learning that it is credited keeps the types.
LEMMA CreditedTypes ==
    ASSUME TypeOK, NEW h \in Handlers, Credited(h)
    PROVE  TypeOK'
<1> DEFINE o == Order(h)
           n == IF work[h].type = "notify" THEN Len(sessions[o]) ELSE work[h].index
           q == CASE work[h].type = "notify" -> sessions[o][n].queried
                  [] work[h].type = "ops"    -> work[h].session.queried
                  [] OTHER                   -> TRUE
<1>1. sessions' \in [Orders -> Seq(SessionType)]
  <2>1. CASE n = 0
    BY <2>1 DEF Credited, TypeOK
  <2>2. CASE n # 0
    <3>1. q \in BOOLEAN
      <4>1. CASE work[h].type = "notify"
        <5>1. sessions[o] \in Seq(SessionType)
          BY HandlerMoves DEF TypeOK
        <5>2. sessions[o][n] \in SessionType
          BY <2>2, <4>1, <5>1
        <5> QED
          BY <4>1, <5>2 DEF SessionType
      <4> QED
        BY <4>1, WorkFields
    <3>2. SetSession(o, n, "paid", q)
      BY <2>2 DEF Credited
    <3> QED
      BY <3>1, <3>2, HandlerMoves, SetSessionType
  <2> QED
    BY <2>1, <2>2
<1>2. /\ step' \in [Handlers -> Steps] /\ work' \in [Handlers -> WorkType]
      /\ call' \in [Handlers -> CallType] /\ failures' \in 0..MaxFailures
    BY HandlerMoves DEF Credited, TypeOK
<1>3. acked' \in [Orders -> BOOLEAN]
    BY DEF Credited, TypeOK
<1> QED
    BY <1>1, <1>2, <1>3 DEF TypeOK, Credited

\* The caller learning that it is not keeps the types.
LEMMA NotCreditedTypes ==
    ASSUME TypeOK, NEW h \in Handlers, NotCredited(h)
    PROVE  TypeOK'
    BY HandlerMoves, BlankTypes, SeenType, SetSessionType DEF TypeOK, NotCredited, Steps, wechat, database

\* A call taking its key keeps the types.
LEMMA CallBeginTypes ==
    ASSUME TypeOK, NEW h \in Handlers, CallBegin(h)
    PROVE  TypeOK'
    BY HandlerMoves, BlankTypes, SeenType, SetSessionType DEF TypeOK, CallBegin, Steps, wechat, database

\* A call updating the order keeps the types.
LEMMA CallUpdateTypes ==
    ASSUME TypeOK, NEW h \in Handlers, CallUpdate(h)
    PROVE  TypeOK'
    BY HandlerMoves, BlankTypes, SeenType, SetSessionType DEF TypeOK, CallUpdate, Steps, wechat, database

\* The commit of a call keeps the types.
LEMMA CallCommitTypes ==
    ASSUME TypeOK, NEW h \in Handlers, CallCommit(h)
    PROVE  TypeOK'
<1>1. call[h] \in CallType /\ call[h].source \in {"none", "query", "ops", "notify"}
    BY DEF TypeOK, CallType
<1>2. call' \in [Handlers -> CallType]
    BY HandlerMoves DEF CallCommit
<1>3. /\ status' \in [Orders -> {"none", "pending", "closed", "paid"}]
      /\ credits' \in [Orders -> Nat]
  <2>1. CASE call[h].stage = "known"
    BY <2>1 DEF CallCommit, TypeOK
  <2>2. CASE call[h].stage # "known"
    <3>1. credits[call[h].order] + 1 \in Nat
      BY HandlerMoves DEF TypeOK
    <3> QED
      BY <2>2, <3>1 DEF CallCommit, TypeOK
  <2> QED
    BY <2>1, <2>2
<1>4. keys' \subseteq Orders \X {"none", "query", "ops", "notify"}
    BY <1>1, HandlerMoves DEF CallCommit, TypeOK, Key
<1> QED
    BY <1>2, <1>3, <1>4 DEF TypeOK, CallCommit, wechat

\* A call nobody hears of keeps the types.
LEMMA CallForgottenTypes ==
    ASSUME TypeOK, NEW h \in Handlers, CallForgotten(h)
    PROVE  TypeOK'
    BY HandlerMoves, BlankTypes, SeenType, SetSessionType DEF TypeOK, CallForgotten, Steps, wechat, database

\* A query without an answer keeps the types.
LEMMA QueryFailsTypes ==
    ASSUME TypeOK, NEW h \in Handlers, QueryFails(h)
    PROVE  TypeOK'
<1>1. sessions' \in [Orders -> Seq(SessionType)]
  <2>1. \/ sessions' = sessions
        \/ SetSession(Order(h), work[h].index, work[h].session.status, TRUE)
    BY DEF QueryFails
  <2>2. /\ Order(h) \in Orders
        /\ work[h].session.status \in {"none", "pending", "expired", "closed", "paid"}
    BY HandlerMoves, WorkFields
  <2>3. CASE SetSession(Order(h), work[h].index, work[h].session.status, TRUE)
    BY <2>2, <2>3, SetSessionType
  <2> QED
    BY <2>1, <2>3 DEF TypeOK
<1>2. /\ step' \in [Handlers -> Steps] /\ work' \in [Handlers -> WorkType]
      /\ failures' \in 0..MaxFailures
    BY HandlerMoves DEF QueryFails
<1> QED
    BY <1>1, <1>2 DEF TypeOK, QueryFails, wechat

\* Closing a trade without an answer keeps the types.
LEMMA ShutFailsTypes ==
    ASSUME TypeOK, NEW h \in Handlers, ShutFails(h)
    PROVE  TypeOK'
<1>1. step' \in [Handlers -> Steps] /\ work' \in [Handlers -> WorkType]
    BY HandlerMoves DEF ShutFails
<1>2. trade' \in [Orders -> {"none", "NOTPAY", "SUCCESS", "CLOSED"}]
    BY DEF ShutFails, TypeOK
<1>3. failures' \in 0..MaxFailures
    BY HandlerMoves DEF ShutFails
<1> QED
    BY <1>1, <1>2, <1>3 DEF TypeOK, ShutFails, database

\* A prepay without an answer keeps the types.
LEMMA PrepayFailsTypes ==
    ASSUME TypeOK, NEW h \in Handlers, PrepayFails(h)
    PROVE  TypeOK'
<1>1. step' \in [Handlers -> Steps] /\ work' \in [Handlers -> WorkType]
    BY HandlerMoves DEF PrepayFails
<1>2. trade' \in [Orders -> {"none", "NOTPAY", "SUCCESS", "CLOSED"}]
    BY DEF PrepayFails, TypeOK
<1>3. failures' \in 0..MaxFailures
    BY HandlerMoves DEF PrepayFails
<1> QED
    BY <1>1, <1>2, <1>3 DEF TypeOK, PrepayFails, database

\* A call that is rolled back keeps the types.
LEMMA CallDiesTypes ==
    ASSUME TypeOK, NEW h \in Handlers, CallDies(h)
    PROVE  TypeOK'
    BY HandlerMoves, BlankTypes, SeenType, SetSessionType DEF TypeOK, CallDies, Steps, wechat, database

\* The death of a handler keeps the types.
LEMMA DieTypes ==
    ASSUME TypeOK, NEW h \in Handlers, Die(h)
    PROVE  TypeOK'
    BY HandlerMoves, BlankTypes, SeenType, SetSessionType DEF TypeOK, Die, Steps, wechat, database

\* A notification keeps the types.
LEMMA NotifyTypes ==
    ASSUME TypeOK, NEW h \in Handlers, NEW o \in Orders, Notify(h, o)
    PROVE  TypeOK'
<1>1. Work("notify", o) \in WorkType
    BY BlankTypes
<1>2. [stage |-> "sent", order |-> o, source |-> "notify"] \in CallType
    BY DEF CallType
<1>3. step' \in [Handlers -> Steps]
    BY HandlerMoves DEF Notify, Steps
<1> QED
    BY <1>1, <1>2, <1>3 DEF TypeOK, Notify, wechat, database

\* The cleanup of the operators keeps the types.
LEMMA CleanupTypes ==
    ASSUME TypeOK, Cleanup
    PROVE  TypeOK'
<1>1. sessions' \in [Orders -> Seq(SessionType)]
  <2> SUFFICES ASSUME NEW o \in Orders
               PROVE  [i \in DOMAIN sessions[o] |->
                           IF lapsed[o] /\ sessions[o][i].status = "pending"
                           THEN [sessions[o][i] EXCEPT !.status = "expired"]
                           ELSE sessions[o][i]] \in Seq(SessionType)
    BY DEF Cleanup
  <2>1. \A i \in DOMAIN sessions[o] : /\ sessions[o][i] \in SessionType
                                     /\ [sessions[o][i] EXCEPT !.status = "expired"] \in SessionType
    BY SessionFields
  <2>2. sessions[o] \in Seq(SessionType)
    BY DEF TypeOK
  <2> QED
    BY <2>1, <2>2, MapIsSeq
<1>2. status' \in [Orders -> {"none", "pending", "closed", "paid"}]
    BY DEF Cleanup, TypeOK
<1> QED
    BY <1>1, <1>2 DEF TypeOK, Cleanup, wechat

-----------------------------------------------------------------------------
\* The invariant.

\* A callback is only ever sent for an order whose money WeChat has taken.
MoneyBehindCalls ==
    \A h \in Handlers : call[h].stage # "none" => trade[call[h].order] = "SUCCESS"

(***************************************************************************)
(* What the stage of a call says of its order is so: updated but not       *)
(* committed, it is not paid yet; known or done, it is.                    *)
(***************************************************************************)
CallsKnowTheOrder ==
    \A h \in Handlers :
        /\ call[h].stage = "updated" => status[call[h].order] # "paid"
        /\ call[h].stage \in {"known", "done"} => status[call[h].order] = "paid"

\* Of one order, only one call has an update that is not committed.
OneUpdateAtATime ==
    \A g, h \in Handlers :
        call[g].stage = "updated" /\ call[h].stage = "updated" /\ call[g].order = call[h].order
            => g = h

\* A handler that waits for a call has one, for its own order.
CallersHaveCalls ==
    \A h \in Handlers :
        step[h] = "calling" => call[h].stage # "none" /\ call[h].order = work[h].order

\* A session read as paid is of an order that is paid, still.
PaidWhenRead ==
    \A h \in Handlers : work[h].session.status = "paid" => status[work[h].order] = "paid"

\* What calls keep true.
CallInv == MoneyBehindCalls /\ CallsKnowTheOrder /\ OneUpdateAtATime
                /\ CreditedExactlyWhenPaid /\ AnswersAreTrue

\* What the records of handlers keep true.
HandlerInv == CallersHaveCalls /\ PaidWhenRead

\* The inductive invariant.
PaymentInv == TypeOK /\ CallInv /\ HandlerInv /\ PaidSessionHasPaidOrder

\* A step that takes no order back from paid.
PaidStaysPaid == \A o \in Orders : status[o] = "paid" => status'[o] = "paid"
\* A step that makes no order paid.
NobodyPaid == \A o \in Orders : status'[o] = "paid" => status[o] = "paid"
\* A step that takes no trade back from SUCCESS.
MoneyStays == \A o \in Orders : trade[o] = "SUCCESS" => trade'[o] = "SUCCESS"

\* A step that is none of the calls' business.
Quiet == PaidStaysPaid /\ NobodyPaid /\ MoneyStays /\ UNCHANGED <<acked, credits, keys, call>>

\* A step after which handler h waits for no call.
StepsAside(h) ==
    /\ \A g \in Handlers \ {h} : step'[g] = step[g] /\ work'[g] = work[g]
    /\ step'[h] # "calling"
    /\ work'[h].session.status = "paid" => status[work'[h].order] = "paid"

\* A quiet step keeps what calls keep true.
LEMMA QuietKeepsCallInv ==
    ASSUME PaymentInv, TypeOK', Quiet
    PROVE  CallInv'
<1>0. TypeOK /\ CallInv
    BY DEF PaymentInv
<1>1. \A h \in Handlers : call[h].order \in Orders
    BY <1>0 DEF TypeOK, CallType
<1>2. MoneyBehindCalls'
    BY <1>0, <1>1 DEF CallInv, MoneyBehindCalls, Quiet, MoneyStays
<1>3. CallsKnowTheOrder'
    BY <1>0, <1>1 DEF CallInv, CallsKnowTheOrder, Quiet, PaidStaysPaid, NobodyPaid
<1>4. OneUpdateAtATime'
    BY <1>0 DEF CallInv, OneUpdateAtATime, Quiet
<1>5. CreditedExactlyWhenPaid'
    BY <1>0 DEF CallInv, CreditedExactlyWhenPaid, Quiet, PaidStaysPaid, NobodyPaid
<1>6. AnswersAreTrue'
  <2>1. \A k \in keys : k[1] \in Orders
    BY <1>0 DEF TypeOK
  <2> QED
    BY <1>0, <2>1 DEF CallInv, AnswersAreTrue, Quiet, PaidStaysPaid
<1> QED
    BY <1>2, <1>3, <1>4, <1>5, <1>6 DEF CallInv

\* A step that leaves h waiting for no call keeps the records true.
LEMMA AsideKeepsHandlerInv ==
    ASSUME PaymentInv, TypeOK', NEW h \in Handlers, StepsAside(h), PaidStaysPaid, UNCHANGED call
    PROVE  HandlerInv'
<1>0. TypeOK /\ HandlerInv
    BY DEF PaymentInv
<1>1. \A g \in Handlers : work[g].order \in Orders /\ work'[g].order \in Orders
    BY <1>0 DEF TypeOK, WorkType
<1>2. CallersHaveCalls'
    BY <1>0 DEF HandlerInv, CallersHaveCalls, StepsAside
<1>3. PaidWhenRead'
    BY <1>0, <1>1 DEF HandlerInv, PaidWhenRead, StepsAside, PaidStaysPaid
<1> QED
    BY <1>2, <1>3 DEF HandlerInv

\* So does a step that leaves handlers alone.
LEMMA RestKeepsHandlerInv ==
    ASSUME PaymentInv, UNCHANGED <<step, work, call>>, PaidStaysPaid
    PROVE  HandlerInv'
<1>0. TypeOK /\ HandlerInv
    BY DEF PaymentInv
<1>1. \A g \in Handlers : work[g].order \in Orders
    BY <1>0 DEF TypeOK, WorkType
<1> QED
    BY <1>0, <1>1 DEF HandlerInv, CallersHaveCalls, PaidWhenRead, PaidStaysPaid

(***************************************************************************)
(* Writing a session keeps PaidSessionHasPaidOrder, if it says paid only   *)
(* of a paid order.                                                        *)
(***************************************************************************)
LEMMA SetSessionKeeps ==
    ASSUME PaymentInv, PaidStaysPaid, NEW o \in Orders, NEW i, NEW s, NEW q, SetSession(o, i, s, q),
           s = "paid" => status'[o] = "paid"
    PROVE  PaidSessionHasPaidOrder'
<1>0. TypeOK /\ PaidSessionHasPaidOrder
    BY DEF PaymentInv
<1> SUFFICES ASSUME NEW p \in Orders, NEW j \in DOMAIN sessions'[p], sessions'[p][j].status = "paid"
             PROVE  status'[p] = "paid"
    BY DEF PaidSessionHasPaidOrder
<1>1. /\ DOMAIN sessions = Orders
      /\ sessions' = [sessions EXCEPT ![o] = [sessions[o] EXCEPT ![i] =
                                                [status |-> s, queried |-> q]]]
    BY <1>0 DEF TypeOK, SetSession
<1>2. CASE p = o /\ j = i
    BY <1>1, <1>2
<1>3. CASE ~(p = o /\ j = i)
  <2>1. j \in DOMAIN sessions[p] /\ sessions'[p][j] = sessions[p][j]
    BY <1>1, <1>3
  <2> QED
    BY <1>0, <2>1 DEF PaidSessionHasPaidOrder, PaidStaysPaid
<1> QED
    BY <1>2, <1>3

(***************************************************************************)
(* Leaving the sessions alone keeps PaidSessionHasPaidOrder, as no order   *)
(* is taken back.                                                          *)
(***************************************************************************)
LEMMA SameSessionsKeep ==
    ASSUME PaymentInv, PaidStaysPaid, UNCHANGED sessions
    PROVE  PaidSessionHasPaidOrder'
    BY DEF PaymentInv, PaidSessionHasPaidOrder, PaidStaysPaid

\* The moves after which a handler waits for no call.
LEMMA Aside ==
    ASSUME PaymentInv, NEW h \in Handlers
    PROVE  /\ Finish(h) => StepsAside(h)
           /\ AfterRefresh(h) => StepsAside(h)
           /\ \A s \in Steps \ {"calling"} :
                 Goto(h, s) =>
                    /\ UNCHANGED work => StepsAside(h)
                    /\ work' = [work EXCEPT ![h] = Seen(h)] => StepsAside(h)
                    /\ \A then \in {"idle", "reread"} :
                          work' = [work EXCEPT ![h] = [Seen(h) EXCEPT !.then = then]]
                              => StepsAside(h)
<1>0. TypeOK /\ PaidWhenRead /\ PaidSessionHasPaidOrder
    BY DEF PaymentInv, HandlerInv
<1>1. work[h] \in WorkType /\ work[h].order \in Orders
    BY <1>0 DEF TypeOK, WorkType
<1>2. Finish(h) => StepsAside(h)
    BY <1>0 DEF Finish, Goto, StepsAside, TypeOK, NoWork, Work, NoSession
<1>3. ASSUME NEW s \in Steps \ {"calling"}, Goto(h, s), UNCHANGED work
      PROVE  StepsAside(h)
    BY <1>0, <1>3 DEF Goto, StepsAside, TypeOK, PaidWhenRead
<1>4. AfterRefresh(h) => StepsAside(h)
  <2>1. work[h].then \in Steps \ {"calling"}
    BY <1>1 DEF WorkType, Steps
  <2> QED
    BY <1>2, <1>3, <2>1 DEF AfterRefresh
<1>5. /\ Seen(h).order = work[h].order /\ Seen(h) \in WorkType
      /\ Seen(h).session.status = "paid" => status[work[h].order] = "paid"
    BY <1>0, <1>1, SeenType DEF PaidSessionHasPaidOrder
<1>6. ASSUME NEW s \in Steps \ {"calling"}, Goto(h, s), work' = [work EXCEPT ![h] = Seen(h)]
      PROVE  StepsAside(h)
    BY <1>0, <1>5, <1>6 DEF Goto, StepsAside, TypeOK
<1>7. ASSUME NEW s \in Steps \ {"calling"}, Goto(h, s), NEW then \in {"idle", "reread"},
             work' = [work EXCEPT ![h] = [Seen(h) EXCEPT !.then = then]]
      PROVE  StepsAside(h)
  <2>1. /\ [Seen(h) EXCEPT !.then = then].order = work[h].order
        /\ [Seen(h) EXCEPT !.then = then].session = Seen(h).session
    BY <1>5 DEF WorkType
  <2> QED
    BY <1>0, <1>5, <1>7, <2>1 DEF Goto, StepsAside, TypeOK
<1> QED
    BY <1>2, <1>3, <1>4, <1>6, <1>7

-----------------------------------------------------------------------------
\* Every action keeps the invariant.

\* A new order keeps the invariant.
LEMMA CreateOrderKeeps ==
    ASSUME PaymentInv, NEW o \in Orders, CreateOrder(o)
    PROVE  PaymentInv'
<1>0. TypeOK /\ TypeOK'
    BY CreateOrderTypes DEF PaymentInv
<1>1. Quiet
    BY <1>0 DEF Quiet, PaidStaysPaid, NobodyPaid, MoneyStays, CreateOrder, TypeOK, wechat, database
<1>2. CallInv'
    BY <1>0, <1>1, QuietKeepsCallInv
<1>3. HandlerInv' /\ PaidSessionHasPaidOrder'
    BY <1>1, RestKeepsHandlerInv, SameSessionsKeep DEF CreateOrder, Quiet, database
<1> QED
    BY <1>0, <1>2, <1>3 DEF PaymentInv

\* The end of a TTL keeps the invariant.
LEMMA LapseKeeps ==
    ASSUME PaymentInv, NEW o \in Orders, Lapse(o)
    PROVE  PaymentInv'
<1>0. TypeOK /\ TypeOK'
    BY LapseTypes DEF PaymentInv
<1>1. Quiet
    BY <1>0 DEF Quiet, PaidStaysPaid, NobodyPaid, MoneyStays, Lapse, TypeOK, wechat, database
<1>2. CallInv'
    BY <1>0, <1>1, QuietKeepsCallInv
<1>3. HandlerInv' /\ PaidSessionHasPaidOrder'
    BY <1>1, RestKeepsHandlerInv, SameSessionsKeep DEF Lapse, Quiet, database
<1> QED
    BY <1>0, <1>2, <1>3 DEF PaymentInv

\* A payment keeps the invariant.
LEMMA PayKeeps ==
    ASSUME PaymentInv, NEW o \in Orders, Pay(o)
    PROVE  PaymentInv'
<1>0. TypeOK /\ TypeOK'
    BY PayTypes DEF PaymentInv
<1>1. Quiet
    BY <1>0 DEF Quiet, PaidStaysPaid, NobodyPaid, MoneyStays, Pay, TypeOK, wechat, database
<1>2. CallInv'
    BY <1>0, <1>1, QuietKeepsCallInv
<1>3. HandlerInv' /\ PaidSessionHasPaidOrder'
    BY <1>1, RestKeepsHandlerInv, SameSessionsKeep DEF Pay, Quiet, database
<1> QED
    BY <1>0, <1>2, <1>3 DEF PaymentInv

\* WeChat closing a trade of itself keeps the invariant.
LEMMA TradeExpiresKeeps ==
    ASSUME PaymentInv, NEW o \in Orders, TradeExpires(o)
    PROVE  PaymentInv'
<1>0. TypeOK /\ TypeOK'
    BY TradeExpiresTypes DEF PaymentInv
<1>1. Quiet
    BY <1>0 DEF Quiet, PaidStaysPaid, NobodyPaid, MoneyStays, TradeExpires, TypeOK, wechat, database
<1>2. CallInv'
    BY <1>0, <1>1, QuietKeepsCallInv
<1>3. HandlerInv' /\ PaidSessionHasPaidOrder'
    BY <1>1, RestKeepsHandlerInv, SameSessionsKeep DEF TradeExpires, Quiet, database
<1> QED
    BY <1>0, <1>2, <1>3 DEF PaymentInv

\* Eight seconds after a query keeps the invariant.
LEMMA QueryAgesKeeps ==
    ASSUME PaymentInv, NEW o \in Orders, QueryAges(o)
    PROVE  PaymentInv'
<1>0. TypeOK /\ TypeOK'
    BY QueryAgesTypes DEF PaymentInv
<1>1. Quiet
    BY <1>0 DEF Quiet, PaidStaysPaid, NobodyPaid, MoneyStays, QueryAges, TypeOK, wechat
<1>2. CallInv' /\ HandlerInv'
    BY <1>0, <1>1, QuietKeepsCallInv, RestKeepsHandlerInv DEF QueryAges, Quiet
<1>3. PICK i \in DOMAIN sessions[o] : SetSession(o, i, sessions[o][i].status, FALSE)
    BY DEF QueryAges
<1>4. PaidSessionHasPaidOrder'
    BY <1>1, <1>3, SetSessionKeeps DEF PaymentInv, PaidSessionHasPaidOrder, Quiet, PaidStaysPaid
<1> QED
    BY <1>0, <1>2, <1>4 DEF PaymentInv

\* A notification of no payment keeps the invariant.
LEMMA NotifyOtherKeeps ==
    ASSUME PaymentInv, NEW o \in Orders, NotifyOther(o)
    PROVE  PaymentInv'
<1>0. TypeOK /\ TypeOK'
    BY NotifyOtherTypes DEF PaymentInv
<1>1. Quiet
    BY <1>0 DEF Quiet, PaidStaysPaid, NobodyPaid, MoneyStays, NotifyOther, TypeOK, wechat
<1>2. CallInv' /\ HandlerInv'
    BY <1>0, <1>1, QuietKeepsCallInv, RestKeepsHandlerInv DEF NotifyOther, Quiet
<1>4. PaidSessionHasPaidOrder'
    BY <1>1, SetSessionKeeps DEF NotifyOther, Quiet
<1> QED
    BY <1>0, <1>2, <1>4 DEF PaymentInv

\* Noting an answer, or what is to be closed, leaves what a handler has read.
LEMMA WorkKept ==
    ASSUME PaymentInv, NEW h \in Handlers
    PROVE  /\ work[h].session.status = "paid" => status[work[h].order] = "paid"
           /\ \A E, T : LET w == [work EXCEPT ![h].expired = E, ![h].targets = T]
                       IN  /\ w[h].session = work[h].session /\ w[h].order = work[h].order
                           /\ \A g \in Handlers \ {h} : w[g] = work[g]
           /\ \A a : LET w == [work EXCEPT ![h].answer = a]
                    IN  /\ w[h].session = work[h].session /\ w[h].order = work[h].order
                        /\ \A g \in Handlers \ {h} : w[g] = work[g]
    BY DEF PaymentInv, HandlerInv, PaidWhenRead, TypeOK, WorkType

\* A refresh that asks nothing keeps the invariant.
LEMMA SkipRefreshKeeps ==
    ASSUME PaymentInv, NEW h \in Handlers, SkipRefresh(h)
    PROVE  PaymentInv'
<1>0. TypeOK /\ TypeOK'
    BY SkipRefreshTypes DEF PaymentInv
<1>1. Quiet
    BY <1>0 DEF Quiet, PaidStaysPaid, NobodyPaid, MoneyStays, SkipRefresh, TypeOK, wechat, database
<1>2. StepsAside(h)
    BY Aside DEF SkipRefresh, Steps
<1>3. CallInv' /\ HandlerInv'
    BY <1>0, <1>1, <1>2, QuietKeepsCallInv, AsideKeepsHandlerInv DEF Quiet
<1>4. PaidSessionHasPaidOrder'
    BY <1>1, SameSessionsKeep DEF SkipRefresh, Quiet, database
<1> QED
    BY <1>0, <1>3, <1>4 DEF PaymentInv

\* The answer that there is no such trade keeps the invariant.
LEMMA QueryUnknownKeeps ==
    ASSUME PaymentInv, NEW h \in Handlers, QueryUnknown(h)
    PROVE  PaymentInv'
<1>0. TypeOK /\ TypeOK'
    BY QueryUnknownTypes DEF PaymentInv
<1>1. Quiet
    BY <1>0 DEF Quiet, PaidStaysPaid, NobodyPaid, MoneyStays, QueryUnknown, TypeOK, wechat, database
<1>2. StepsAside(h)
    BY Aside DEF QueryUnknown, Steps
<1>3. CallInv' /\ HandlerInv'
    BY <1>0, <1>1, <1>2, QuietKeepsCallInv, AsideKeepsHandlerInv DEF Quiet
<1>4. PaidSessionHasPaidOrder'
    BY <1>1, SameSessionsKeep DEF QueryUnknown, Quiet, database
<1> QED
    BY <1>0, <1>3, <1>4 DEF PaymentInv

\* The death of a handler keeps the invariant.
LEMMA DieKeeps ==
    ASSUME PaymentInv, NEW h \in Handlers, Die(h)
    PROVE  PaymentInv'
<1>0. TypeOK /\ TypeOK'
    BY DieTypes DEF PaymentInv
<1>1. Quiet
    BY <1>0 DEF Quiet, PaidStaysPaid, NobodyPaid, MoneyStays, Die, TypeOK, wechat, database
<1>2. StepsAside(h)
    BY Aside DEF Die, Steps
<1>3. CallInv' /\ HandlerInv'
    BY <1>0, <1>1, <1>2, QuietKeepsCallInv, AsideKeepsHandlerInv DEF Quiet
<1>4. PaidSessionHasPaidOrder'
    BY <1>1, SameSessionsKeep DEF Die, Quiet, database
<1> QED
    BY <1>0, <1>3, <1>4 DEF PaymentInv

\* The look after a prepay keeps the invariant.
LEMMA CheckPendingKeeps ==
    ASSUME PaymentInv, NEW h \in Handlers, CheckPending(h)
    PROVE  PaymentInv'
<1>0. TypeOK /\ TypeOK'
    BY CheckPendingTypes DEF PaymentInv
<1>1. Quiet
    BY <1>0 DEF Quiet, PaidStaysPaid, NobodyPaid, MoneyStays, CheckPending, TypeOK, wechat, database
<1>2. StepsAside(h)
    BY Aside DEF CheckPending, Steps
<1>3. CallInv' /\ HandlerInv'
    BY <1>0, <1>1, <1>2, QuietKeepsCallInv, AsideKeepsHandlerInv DEF Quiet
<1>4. PaidSessionHasPaidOrder'
    BY <1>1, SameSessionsKeep DEF CheckPending, Quiet, database
<1> QED
    BY <1>0, <1>3, <1>4 DEF PaymentInv

\* A prepay keeps the invariant.
LEMMA PrepayKeeps ==
    ASSUME PaymentInv, NEW h \in Handlers, Prepay(h)
    PROVE  PaymentInv'
<1>0. TypeOK /\ TypeOK'
    BY PrepayTypes DEF PaymentInv
<1>1. Quiet
    BY <1>0 DEF Quiet, PaidStaysPaid, NobodyPaid, MoneyStays, Prepay, TypeOK, wechat, database
<1>2. StepsAside(h)
    BY Aside DEF Prepay, Steps
<1>3. CallInv' /\ HandlerInv'
    BY <1>0, <1>1, <1>2, QuietKeepsCallInv, AsideKeepsHandlerInv DEF Quiet
<1>4. PaidSessionHasPaidOrder'
    BY <1>1, SameSessionsKeep DEF Prepay, Quiet, database
<1> QED
    BY <1>0, <1>3, <1>4 DEF PaymentInv

\* Closing a trade keeps the invariant.
LEMMA ShutKeeps ==
    ASSUME PaymentInv, NEW h \in Handlers, Shut(h)
    PROVE  PaymentInv'
<1>0. TypeOK /\ TypeOK'
    BY ShutTypes DEF PaymentInv
<1>1. Quiet
    BY <1>0 DEF Quiet, PaidStaysPaid, NobodyPaid, MoneyStays, Shut, TypeOK, wechat, database
<1>2. StepsAside(h)
    BY Aside DEF Shut, Steps
<1>3. CallInv' /\ HandlerInv'
    BY <1>0, <1>1, <1>2, QuietKeepsCallInv, AsideKeepsHandlerInv DEF Quiet
<1>4. PaidSessionHasPaidOrder'
    BY <1>1, SameSessionsKeep DEF Shut, Quiet, database
<1> QED
    BY <1>0, <1>3, <1>4 DEF PaymentInv

\* Closing a trade without an answer keeps the invariant.
LEMMA ShutFailsKeeps ==
    ASSUME PaymentInv, NEW h \in Handlers, ShutFails(h)
    PROVE  PaymentInv'
<1>0. TypeOK /\ TypeOK'
    BY ShutFailsTypes DEF PaymentInv
<1>1. Quiet
    BY <1>0 DEF Quiet, PaidStaysPaid, NobodyPaid, MoneyStays, ShutFails, TypeOK, wechat, database
<1>2. StepsAside(h)
    BY Aside DEF ShutFails, Steps
<1>3. CallInv' /\ HandlerInv'
    BY <1>0, <1>1, <1>2, QuietKeepsCallInv, AsideKeepsHandlerInv DEF Quiet
<1>4. PaidSessionHasPaidOrder'
    BY <1>1, SameSessionsKeep DEF ShutFails, Quiet, database
<1> QED
    BY <1>0, <1>3, <1>4 DEF PaymentInv

\* A prepay without an answer keeps the invariant.
LEMMA PrepayFailsKeeps ==
    ASSUME PaymentInv, NEW h \in Handlers, PrepayFails(h)
    PROVE  PaymentInv'
<1>0. TypeOK /\ TypeOK'
    BY PrepayFailsTypes DEF PaymentInv
<1>1. Quiet
    BY <1>0 DEF Quiet, PaidStaysPaid, NobodyPaid, MoneyStays, PrepayFails, TypeOK, wechat, database
<1>2. StepsAside(h)
    BY Aside DEF PrepayFails, Steps
<1>3. CallInv' /\ HandlerInv'
    BY <1>0, <1>1, <1>2, QuietKeepsCallInv, AsideKeepsHandlerInv DEF Quiet
<1>4. PaidSessionHasPaidOrder'
    BY <1>1, SameSessionsKeep DEF PrepayFails, Quiet, database
<1> QED
    BY <1>0, <1>3, <1>4 DEF PaymentInv

\* Reading again, for a cancel keeps the invariant.
LEMMA RereadKeeps ==
    ASSUME PaymentInv, NEW h \in Handlers, Reread(h)
    PROVE  PaymentInv'
<1>0. TypeOK /\ TypeOK'
    BY RereadTypes DEF PaymentInv
<1>1. Quiet
    BY <1>0 DEF Quiet, PaidStaysPaid, NobodyPaid, MoneyStays, Reread, TypeOK, wechat, database
<1>2. StepsAside(h)
    BY Aside DEF Reread, Steps
<1>3. CallInv' /\ HandlerInv'
    BY <1>0, <1>1, <1>2, QuietKeepsCallInv, AsideKeepsHandlerInv DEF Quiet
<1>4. PaidSessionHasPaidOrder'
    BY <1>1, SameSessionsKeep DEF Reread, Quiet, database
<1> QED
    BY <1>0, <1>3, <1>4 DEF PaymentInv

\* Marking a session as expired keeps the invariant.
LEMMA ExpireSessionKeeps ==
    ASSUME PaymentInv, NEW h \in Handlers, ExpireSession(h)
    PROVE  PaymentInv'
<1>0. TypeOK /\ TypeOK'
    BY ExpireSessionTypes DEF PaymentInv
<1>1. Quiet
    BY <1>0 DEF Quiet, PaidStaysPaid, NobodyPaid, MoneyStays, ExpireSession, TypeOK, wechat, database
<1>2. StepsAside(h)
    BY Aside DEF ExpireSession, Steps
<1>3. CallInv' /\ HandlerInv'
    BY <1>0, <1>1, <1>2, QuietKeepsCallInv, AsideKeepsHandlerInv DEF Quiet
<1>4. PaidSessionHasPaidOrder'
  <2>1. SetSession(Order(h), work[h].index, "expired", work[h].session.queried)
    BY DEF ExpireSession
  <2> QED
    BY <1>0, <1>1, <2>1, HandlerMoves, SetSessionKeeps DEF Quiet
<1> QED
    BY <1>0, <1>3, <1>4 DEF PaymentInv

\* A query without an answer keeps the invariant.
LEMMA QueryFailsKeeps ==
    ASSUME PaymentInv, NEW h \in Handlers, QueryFails(h)
    PROVE  PaymentInv'
<1>0. TypeOK /\ TypeOK'
    BY QueryFailsTypes DEF PaymentInv
<1>1. Quiet
    BY <1>0 DEF Quiet, PaidStaysPaid, NobodyPaid, MoneyStays, QueryFails, TypeOK, wechat, database
<1>2. StepsAside(h)
    BY Aside DEF QueryFails, Steps
<1>3. CallInv' /\ HandlerInv'
    BY <1>0, <1>1, <1>2, QuietKeepsCallInv, AsideKeepsHandlerInv DEF Quiet
<1>4. PaidSessionHasPaidOrder'
  <2>1. \/ UNCHANGED sessions
        \/ SetSession(Order(h), work[h].index, work[h].session.status, TRUE)
    BY DEF QueryFails
  <2>2. work[h].session.status = "paid" => status'[Order(h)] = "paid"
    BY <1>1, WorkKept DEF QueryFails, Order
  <2>3. Order(h) \in Orders /\ PaidStaysPaid
    BY <1>0, <1>1, HandlerMoves DEF Quiet
  <2>4. CASE SetSession(Order(h), work[h].index, work[h].session.status, TRUE)
    BY <2>2, <2>3, <2>4, SetSessionKeeps
  <2> QED
    BY <2>1, <2>3, <2>4, SameSessionsKeep
<1> QED
    BY <1>0, <1>3, <1>4 DEF PaymentInv

\* Writing an answer keeps the invariant.
LEMMA WriteAnswerKeeps ==
    ASSUME PaymentInv, NEW h \in Handlers, WriteAnswer(h)
    PROVE  PaymentInv'
<1>0. TypeOK /\ TypeOK'
    BY WriteAnswerTypes DEF PaymentInv
<1>1. Quiet
    BY <1>0 DEF Quiet, PaidStaysPaid, NobodyPaid, MoneyStays, WriteAnswer, TypeOK, wechat, database
<1>2. StepsAside(h)
    BY Aside DEF WriteAnswer, Steps
<1>3. CallInv' /\ HandlerInv'
    BY <1>0, <1>1, <1>2, QuietKeepsCallInv, AsideKeepsHandlerInv DEF Quiet
<1>4. PaidSessionHasPaidOrder'
  <2> DEFINE s == IF work[h].answer = "NOTPAY" THEN "pending" ELSE "closed"
             q == IF work[h].type = "ops" THEN work[h].session.queried ELSE TRUE
  <2>1. UNCHANGED sessions \/ SetSession(Order(h), work[h].index, s, q)
    BY DEF WriteAnswer
  <2>2. s # "paid"
    OBVIOUS
  <2> HIDE DEF s, q
  <2>3. Order(h) \in Orders /\ PaidStaysPaid
    BY <1>0, <1>1, HandlerMoves DEF Quiet
  <2>4. CASE SetSession(Order(h), work[h].index, s, q)
    BY <2>2, <2>3, <2>4, SetSessionKeeps
  <2> QED
    BY <2>1, <2>3, <2>4, SameSessionsKeep
<1> QED
    BY <1>0, <1>3, <1>4 DEF PaymentInv

\* A request that begins keeps the invariant.
LEMMA BeginKeeps ==
    ASSUME PaymentInv, NEW h \in Handlers, Begin(h)
    PROVE  PaymentInv'
<1>0. TypeOK /\ TypeOK'
    BY BeginTypes DEF PaymentInv
<1>1. Quiet
    BY <1>0 DEF Quiet, PaidStaysPaid, NobodyPaid, MoneyStays, Begin, TypeOK, wechat, database
<1>2. StepsAside(h)
  <2> PICK o \in Orders, type \in Requests :
          /\ work' = [work EXCEPT ![h] = Work(type, o)]
          /\ Goto(h, IF type \in {"cancel", "ops"} THEN "read" ELSE "scan")
    BY DEF Begin
  <2> QED
    BY <1>0 DEF StepsAside, Goto, TypeOK, Work, NoSession
<1>3. CallInv' /\ HandlerInv'
    BY <1>0, <1>1, <1>2, QuietKeepsCallInv, AsideKeepsHandlerInv DEF Quiet
<1>4. PaidSessionHasPaidOrder'
    BY <1>1, SameSessionsKeep DEF Begin, Quiet, database
<1> QED
    BY <1>0, <1>3, <1>4 DEF PaymentInv

\* Finding what is to be closed keeps the invariant.
LEMMA ScanKeeps ==
    ASSUME PaymentInv, NEW h \in Handlers, Scan(h)
    PROVE  PaymentInv'
<1>0. TypeOK /\ TypeOK'
    BY ScanTypes DEF PaymentInv
<1>1. Quiet
    BY <1>0 DEF Quiet, PaidStaysPaid, NobodyPaid, MoneyStays, Scan, TypeOK, wechat, database
<1>2. StepsAside(h)
    BY <1>0, WorkKept DEF Scan, Goto, StepsAside, TypeOK
<1>3. CallInv' /\ HandlerInv'
    BY <1>0, <1>1, <1>2, QuietKeepsCallInv, AsideKeepsHandlerInv DEF Quiet
<1>4. PaidSessionHasPaidOrder'
    BY <1>1, SameSessionsKeep DEF Scan, Quiet, database
<1> QED
    BY <1>0, <1>3, <1>4 DEF PaymentInv

\* The answer that it is not keeps the invariant.
LEMMA QueryOpenKeeps ==
    ASSUME PaymentInv, NEW h \in Handlers, QueryOpen(h)
    PROVE  PaymentInv'
<1>0. TypeOK /\ TypeOK'
    BY QueryOpenTypes DEF PaymentInv
<1>1. Quiet
    BY <1>0 DEF Quiet, PaidStaysPaid, NobodyPaid, MoneyStays, QueryOpen, TypeOK, wechat, database
<1>2. StepsAside(h)
    BY <1>0, WorkKept DEF QueryOpen, Goto, StepsAside, TypeOK
<1>3. CallInv' /\ HandlerInv'
    BY <1>0, <1>1, <1>2, QuietKeepsCallInv, AsideKeepsHandlerInv DEF Quiet
<1>4. PaidSessionHasPaidOrder'
    BY <1>1, SameSessionsKeep DEF QueryOpen, Quiet, database
<1> QED
    BY <1>0, <1>3, <1>4 DEF PaymentInv

\* The last look of a cancel keeps the invariant.
LEMMA RecheckKeeps ==
    ASSUME PaymentInv, NEW h \in Handlers, Recheck(h)
    PROVE  PaymentInv'
<1>0. TypeOK /\ TypeOK'
    BY RecheckTypes DEF PaymentInv
<1>1. Quiet
    BY <1>0 DEF Quiet, PaidStaysPaid, NobodyPaid, MoneyStays, Recheck, TypeOK, wechat, database
<1>2. StepsAside(h)
  <2> DEFINE w == [work EXCEPT ![h].expired = {Order(h)}, ![h].targets = Pending(Order(h))]
  <2>1. CASE Finish(h)
    BY <2>1, Aside
  <2>2. CASE Goto(h, "close") /\ (UNCHANGED work \/ work' = w)
    <3>1. /\ w[h].session = work[h].session /\ w[h].order = work[h].order
          /\ \A g \in Handlers \ {h} : w[g] = work[g]
      BY <1>0 DEF TypeOK, WorkType
    <3> HIDE DEF w
    <3> QED
      BY <1>0, <2>2, <3>1, WorkKept DEF Goto, StepsAside, TypeOK
  <2> QED
    BY <2>1, <2>2 DEF Recheck
<1>3. CallInv' /\ HandlerInv'
    BY <1>0, <1>1, <1>2, QuietKeepsCallInv, AsideKeepsHandlerInv DEF Quiet
<1>4. PaidSessionHasPaidOrder'
    BY <1>1, SameSessionsKeep DEF Recheck, Quiet, database
<1> QED
    BY <1>0, <1>3, <1>4 DEF PaymentInv

\* Closing orders and sessions keeps the invariant.
LEMMA CloseKeeps ==
    ASSUME PaymentInv, NEW h \in Handlers, Close(h)
    PROVE  PaymentInv'
<1>0. TypeOK /\ TypeOK'
    BY CloseTypes DEF PaymentInv
<1>1. Quiet
    BY <1>0 DEF Quiet, PaidStaysPaid, NobodyPaid, MoneyStays, Close, TypeOK, wechat, database
<1>2. StepsAside(h)
  <2> DEFINE w == [work EXCEPT ![h].expired = {}, ![h].targets = {}]
  <2>1. CASE Finish(h)
    BY <2>1, Aside
  <2>2. CASE Goto(h, "read") /\ (UNCHANGED work \/ work' = w)
    <3>1. /\ w[h].session = work[h].session /\ w[h].order = work[h].order
          /\ \A g \in Handlers \ {h} : w[g] = work[g]
      BY <1>0 DEF TypeOK, WorkType
    <3> HIDE DEF w
    <3> QED
      BY <1>0, <2>2, <3>1, WorkKept DEF Goto, StepsAside, TypeOK
  <2> QED
    BY <2>1, <2>2 DEF Close
<1>3. CallInv' /\ HandlerInv'
    BY <1>0, <1>1, <1>2, QuietKeepsCallInv, AsideKeepsHandlerInv DEF Quiet
<1>4. PaidSessionHasPaidOrder'
  <2>1. \A p \in Orders : \A j \in DOMAIN sessions'[p] :
            sessions'[p][j].status = "paid" =>
                j \in DOMAIN sessions[p] /\ sessions[p][j].status = "paid"
    BY <1>0, SessionFields DEF Close, SessionType
  <2> QED
    BY <1>1, <2>1 DEF PaymentInv, PaidSessionHasPaidOrder, Quiet, PaidStaysPaid
<1> QED
    BY <1>0, <1>3, <1>4 DEF PaymentInv

\* Reading the order keeps the invariant.
LEMMA ReadKeeps ==
    ASSUME PaymentInv, NEW h \in Handlers, Read(h)
    PROVE  PaymentInv'
<1>0. TypeOK /\ TypeOK'
    BY ReadTypes DEF PaymentInv
<1>1. Quiet
    BY <1>0 DEF Quiet, PaidStaysPaid, NobodyPaid, MoneyStays, Read, TypeOK, wechat, database
<1>2. StepsAside(h)
  <2>1. {"refresh", "recheck", "prepay"} \subseteq Steps \ {"calling"}
    BY DEF Steps
  <2>2. CASE ReadForPoll(h)
    BY <2>1, <2>2, Aside DEF ReadForPoll
  <2>3. CASE ReadForOps(h)
    BY <2>1, <2>3, Aside DEF ReadForOps
  <2>4. CASE ReadForCancel(h)
    BY <2>1, <2>4, Aside DEF ReadForCancel
  <2>5. CASE ReadForSession(h)
    BY <2>1, <2>5, Aside DEF ReadForSession
  <2> QED
    BY <2>2, <2>3, <2>4, <2>5 DEF Read
<1>3. CallInv' /\ HandlerInv'
    BY <1>0, <1>1, <1>2, QuietKeepsCallInv, AsideKeepsHandlerInv DEF Quiet
<1>4. PaidSessionHasPaidOrder'
    BY <1>1, SameSessionsKeep DEF Read, Quiet, database
<1> QED
    BY <1>0, <1>3, <1>4 DEF PaymentInv

\* A new session keeps the invariant.
LEMMA InsertSessionKeeps ==
    ASSUME PaymentInv, NEW h \in Handlers, InsertSession(h)
    PROVE  PaymentInv'
<1>0. TypeOK /\ TypeOK'
    BY InsertSessionTypes DEF PaymentInv
<1>1. Quiet
    BY <1>0 DEF Quiet, PaidStaysPaid, NobodyPaid, MoneyStays, InsertSession, TypeOK, wechat, database
<1>2. StepsAside(h)
    BY Aside DEF InsertSession
<1>3. CallInv' /\ HandlerInv'
    BY <1>0, <1>1, <1>2, QuietKeepsCallInv, AsideKeepsHandlerInv DEF Quiet
<1>4. PaidSessionHasPaidOrder'
  <2>1. sessions' = [sessions EXCEPT ![Order(h)] =
                        Append(@, [status |-> "pending", queried |-> FALSE])]
    BY DEF InsertSession
  <2>2. \A p \in Orders : \A j \in DOMAIN sessions'[p] :
            sessions'[p][j].status = "paid" =>
                j \in DOMAIN sessions[p] /\ sessions[p][j].status = "paid"
    BY <1>0, <2>1 DEF TypeOK
  <2> QED
    BY <1>1, <2>2 DEF PaymentInv, PaidSessionHasPaidOrder, Quiet, PaidStaysPaid
<1> QED
    BY <1>0, <1>3, <1>4 DEF PaymentInv

\* The cleanup of the operators keeps the invariant.
LEMMA CleanupKeeps ==
    ASSUME PaymentInv, Cleanup
    PROVE  PaymentInv'
<1>0. TypeOK /\ TypeOK'
    BY CleanupTypes DEF PaymentInv
<1>1. Quiet
    BY <1>0 DEF Quiet, PaidStaysPaid, NobodyPaid, MoneyStays, Cleanup, TypeOK, wechat
<1>2. CallInv' /\ HandlerInv'
    BY <1>0, <1>1, QuietKeepsCallInv, RestKeepsHandlerInv DEF Cleanup, Quiet
<1>3. PaidSessionHasPaidOrder'
  <2>1. \A p \in Orders : \A j \in DOMAIN sessions'[p] :
            sessions'[p][j].status = "paid" =>
                j \in DOMAIN sessions[p] /\ sessions[p][j].status = "paid"
    BY <1>0, SessionFields DEF Cleanup, SessionType
  <2> QED
    BY <1>1, <2>1 DEF PaymentInv, PaidSessionHasPaidOrder, Quiet, PaidStaysPaid
<1> QED
    BY <1>0, <1>2, <1>3 DEF PaymentInv

-----------------------------------------------------------------------------
\* The answer that an order is paid keeps the invariant.
LEMMA QueryPaidKeeps ==
    ASSUME PaymentInv, NEW h \in Handlers, QueryPaid(h)
    PROVE  PaymentInv'
<1>0. TypeOK /\ TypeOK' /\ CallInv /\ HandlerInv /\ Order(h) \in Orders
    BY QueryPaidTypes, HandlerMoves DEF PaymentInv
<1>1. /\ UNCHANGED <<trade, acked, status, sessions, credits, keys, work>>
      /\ \A g \in Handlers \ {h} : call'[g] = call[g] /\ step'[g] = step[g]
      /\ call'[h].stage = "sent" /\ call'[h].order = Order(h) /\ trade[Order(h)] = "SUCCESS"
    BY <1>0 DEF QueryPaid, wechat, database, Send, Goto, TypeOK
<1>2. MoneyBehindCalls' /\ CallsKnowTheOrder' /\ OneUpdateAtATime'
    BY <1>0, <1>1 DEF CallInv, MoneyBehindCalls, CallsKnowTheOrder, OneUpdateAtATime
<1>3. CreditedExactlyWhenPaid' /\ AnswersAreTrue' /\ PaidSessionHasPaidOrder'
    BY <1>0, <1>1 DEF CallInv, CreditedExactlyWhenPaid, AnswersAreTrue, PaymentInv,
                      PaidSessionHasPaidOrder
<1>4. HandlerInv'
    BY <1>0, <1>1 DEF HandlerInv, CallersHaveCalls, PaidWhenRead, Order
<1> QED
    BY <1>0, <1>2, <1>3, <1>4 DEF PaymentInv, CallInv

\* A notification keeps the invariant.
LEMMA NotifyKeeps ==
    ASSUME PaymentInv, NEW h \in Handlers, NEW o \in Orders, Notify(h, o)
    PROVE  PaymentInv'
<1>0. TypeOK /\ TypeOK' /\ CallInv /\ HandlerInv
    BY NotifyTypes DEF PaymentInv
<1>1. /\ UNCHANGED <<trade, acked, status, sessions, credits, keys>>
      /\ \A g \in Handlers \ {h} : call'[g] = call[g] /\ step'[g] = step[g] /\ work'[g] = work[g]
      /\ call'[h].stage = "sent" /\ call'[h].order = o /\ trade[o] = "SUCCESS"
      /\ work'[h].order = o /\ work'[h].session.status = "none"
    BY <1>0 DEF Notify, wechat, database, Goto, TypeOK, Work, NoSession
<1>2. MoneyBehindCalls' /\ CallsKnowTheOrder' /\ OneUpdateAtATime'
    BY <1>0, <1>1 DEF CallInv, MoneyBehindCalls, CallsKnowTheOrder, OneUpdateAtATime
<1>3. CreditedExactlyWhenPaid' /\ AnswersAreTrue' /\ PaidSessionHasPaidOrder'
    BY <1>0, <1>1 DEF CallInv, CreditedExactlyWhenPaid, AnswersAreTrue, PaymentInv,
                      PaidSessionHasPaidOrder
<1>4. HandlerInv'
    BY <1>0, <1>1 DEF HandlerInv, CallersHaveCalls, PaidWhenRead
<1> QED
    BY <1>0, <1>2, <1>3, <1>4 DEF PaymentInv, CallInv

\* What moving one call to another stage means for it and for the others.
LEMMA CallMoves ==
    ASSUME PaymentInv, NEW h \in Handlers, NEW s \in {"known", "open", "updated", "done", "failed"},
           Stage(h, s), call[h].stage # "none"
    PROVE  /\ \A g \in Handlers \ {h} : call'[g] = call[g]
           /\ call'[h].stage = s /\ call'[h].order = call[h].order
           /\ \A g \in Handlers : call'[g].stage # "none" <=> call[g].stage # "none"
           /\ \A g \in Handlers : call'[g].order = call[g].order /\ call[g].order \in Orders
<1>1. TypeOK
    BY DEF PaymentInv
<1>2. \A g \in Handlers : call[g] \in CallType
    BY <1>1 DEF TypeOK
<1> QED
    BY <1>1, <1>2 DEF Stage, TypeOK, CallType

\* A call that is rolled back keeps the invariant.
LEMMA CallDiesKeeps ==
    ASSUME PaymentInv, NEW h \in Handlers, CallDies(h)
    PROVE  PaymentInv'
<1>0. TypeOK /\ TypeOK' /\ CallInv /\ HandlerInv
    BY CallDiesTypes DEF PaymentInv
<1> PICK s \in {"failed"} :
           /\ Stage(h, s)
    BY DEF CallDies
<1>1. call[h].stage # "none" /\ UNCHANGED <<trade, acked, status, sessions, credits, keys, step, work>>
    BY DEF CallDies, wechat, database
<1>2. MoneyBehindCalls' /\ HandlerInv'
    BY <1>0, <1>1, CallMoves DEF CallInv, MoneyBehindCalls, HandlerInv, CallersHaveCalls,
                                 PaidWhenRead
<1>3. CallsKnowTheOrder'
    BY <1>0, <1>1, CallMoves DEF CallInv, CallsKnowTheOrder
<1>4. OneUpdateAtATime'
    BY <1>0, <1>1, CallMoves DEF CallInv, OneUpdateAtATime
<1>5. CreditedExactlyWhenPaid' /\ AnswersAreTrue' /\ PaidSessionHasPaidOrder'
    BY <1>0, <1>1 DEF CallInv, CreditedExactlyWhenPaid, AnswersAreTrue, PaymentInv,
                      PaidSessionHasPaidOrder
<1> QED
    BY <1>0, <1>2, <1>3, <1>4, <1>5 DEF PaymentInv, CallInv

\* A call taking its key keeps the invariant.
LEMMA CallBeginKeeps ==
    ASSUME PaymentInv, NEW h \in Handlers, CallBegin(h)
    PROVE  PaymentInv'
<1>0. TypeOK /\ TypeOK' /\ CallInv /\ HandlerInv
    BY CallBeginTypes DEF PaymentInv
<1> PICK s \in {"done", "known", "open"} :
           /\ Stage(h, s)
           /\ s = "done" => <<call[h].order, call[h].source>> \in keys
           /\ s = "known" => status[call[h].order] = "paid"
    BY DEF CallBegin, Key
<1>1. call[h].stage # "none" /\ UNCHANGED <<trade, acked, status, sessions, credits, keys, step, work>>
    BY DEF CallBegin, wechat, database
<1>2. MoneyBehindCalls' /\ HandlerInv'
    BY <1>0, <1>1, CallMoves DEF CallInv, MoneyBehindCalls, HandlerInv, CallersHaveCalls,
                                 PaidWhenRead
<1>3. CallsKnowTheOrder'
  <2>1. s = "done" => status[call[h].order] = "paid"
    BY <1>0 DEF CallInv, AnswersAreTrue
  <2> QED
    BY <1>0, <1>1, <2>1, CallMoves DEF CallInv, CallsKnowTheOrder
<1>4. OneUpdateAtATime'
    BY <1>0, <1>1, CallMoves DEF CallInv, OneUpdateAtATime
<1>5. CreditedExactlyWhenPaid' /\ AnswersAreTrue' /\ PaidSessionHasPaidOrder'
    BY <1>0, <1>1 DEF CallInv, CreditedExactlyWhenPaid, AnswersAreTrue, PaymentInv,
                      PaidSessionHasPaidOrder
<1> QED
    BY <1>0, <1>2, <1>3, <1>4, <1>5 DEF PaymentInv, CallInv

\* A call updating the order keeps the invariant.
LEMMA CallUpdateKeeps ==
    ASSUME PaymentInv, NEW h \in Handlers, CallUpdate(h)
    PROVE  PaymentInv'
<1>0. TypeOK /\ TypeOK' /\ CallInv /\ HandlerInv
    BY CallUpdateTypes DEF PaymentInv
<1> PICK s \in {"known", "updated"} :
           /\ Stage(h, s)
           /\ ~Locked(call[h].order)
           /\ s = (IF status[call[h].order] = "paid" THEN "known" ELSE "updated")
    BY DEF CallUpdate
<1>1. call[h].stage # "none" /\ UNCHANGED <<trade, acked, status, sessions, credits, keys, step, work>>
    BY DEF CallUpdate, wechat, database
<1>2. MoneyBehindCalls' /\ HandlerInv'
    BY <1>0, <1>1, CallMoves DEF CallInv, MoneyBehindCalls, HandlerInv, CallersHaveCalls,
                                 PaidWhenRead
<1>3. CallsKnowTheOrder'
    BY <1>0, <1>1, CallMoves DEF CallInv, CallsKnowTheOrder
<1>4. OneUpdateAtATime'
    BY <1>0, <1>1, CallMoves DEF CallInv, OneUpdateAtATime, Locked
<1>5. CreditedExactlyWhenPaid' /\ AnswersAreTrue' /\ PaidSessionHasPaidOrder'
    BY <1>0, <1>1 DEF CallInv, CreditedExactlyWhenPaid, AnswersAreTrue, PaymentInv,
                      PaidSessionHasPaidOrder
<1> QED
    BY <1>0, <1>2, <1>3, <1>4, <1>5 DEF PaymentInv, CallInv

\* The commit of a call keeps the invariant.
LEMMA CallCommitKeeps ==
    ASSUME PaymentInv, NEW h \in Handlers, CallCommit(h)
    PROVE  PaymentInv'
<1> DEFINE o == call[h].order
<1>0. TypeOK /\ TypeOK' /\ CallInv /\ HandlerInv /\ o \in Orders
    BY CallCommitTypes, HandlerMoves DEF PaymentInv
<1>1. /\ Stage(h, "done") /\ call[h].stage \in {"known", "updated"}
      /\ UNCHANGED <<trade, acked, sessions, step, work>>
      /\ keys' = keys \cup {Key(h)}
    BY DEF CallCommit, wechat
<1>2. /\ status'[o] = "paid" /\ credits'[o] = 1
      /\ \A p \in Orders \ {o} : status'[p] = status[p] /\ credits'[p] = credits[p]
  <2>1. CASE call[h].stage = "known"
    BY <1>0, <2>1 DEF CallCommit, CallInv, CallsKnowTheOrder, CreditedExactlyWhenPaid
  <2>2. CASE call[h].stage = "updated"
    <3>1. credits[o] = 0
      BY <1>0, <2>2 DEF CallInv, CallsKnowTheOrder, CreditedExactlyWhenPaid
    <3> QED
      BY <1>0, <2>2, <3>1 DEF CallCommit, TypeOK
  <2> QED
    BY <1>1, <2>1, <2>2
<1>3. MoneyBehindCalls' /\ OneUpdateAtATime'
    BY <1>0, <1>1, CallMoves DEF CallInv, MoneyBehindCalls, OneUpdateAtATime
<1>4. CallsKnowTheOrder'
  <2> SUFFICES ASSUME NEW g \in Handlers
               PROVE  /\ call'[g].stage = "updated" => status'[call'[g].order] # "paid"
                      /\ call'[g].stage \in {"known", "done"} => status'[call'[g].order] = "paid"
    BY DEF CallsKnowTheOrder
  <2>1. CASE g = h
    BY <1>1, <1>2, <2>1, CallMoves
  <2>2. CASE g # h /\ call[g].order # o
    BY <1>0, <1>1, <1>2, <2>2, CallMoves DEF CallInv, CallsKnowTheOrder
  <2>3. CASE g # h /\ call[g].order = o
    <3>1. call[g].stage # "updated"
      <4>1. CASE call[h].stage = "known"
        BY <1>0, <2>3, <4>1 DEF CallInv, CallsKnowTheOrder
      <4>2. CASE call[h].stage = "updated"
        BY <1>0, <2>3, <4>2 DEF CallInv, OneUpdateAtATime
      <4> QED
        BY <1>1, <4>1, <4>2
    <3> QED
      BY <1>1, <1>2, <2>3, <3>1, CallMoves
  <2> QED
    BY <2>1, <2>2, <2>3
<1>5. CreditedExactlyWhenPaid'
    BY <1>0, <1>2 DEF CallInv, CreditedExactlyWhenPaid
<1>6. PaidStaysPaid
    BY <1>2 DEF PaidStaysPaid
<1>7. AnswersAreTrue'
  <2>1. \A k \in keys : k[1] \in Orders
    BY <1>0 DEF TypeOK
  <2>2. Key(h)[1] = o
    BY DEF Key
  <2> QED
    BY <1>0, <1>1, <1>2, <1>6, <2>1, <2>2 DEF CallInv, AnswersAreTrue, PaidStaysPaid
<1>8. HandlerInv'
  <2>1. \A g \in Handlers : work[g].order \in Orders
    BY <1>0 DEF TypeOK, WorkType
  <2> QED
    BY <1>0, <1>1, <1>6, <2>1, CallMoves DEF HandlerInv, CallersHaveCalls, PaidWhenRead,
                                             PaidStaysPaid
<1>9. PaidSessionHasPaidOrder'
    BY <1>1, <1>6, SameSessionsKeep
<1> QED
    BY <1>0, <1>3, <1>4, <1>5, <1>7, <1>8, <1>9 DEF PaymentInv, CallInv

\* A call that is gone keeps what the others keep true.
LEMMA HangupKeepsCalls ==
    ASSUME PaymentInv, NEW h \in Handlers, Hangup(h), UNCHANGED <<trade, status>>
    PROVE  MoneyBehindCalls' /\ CallsKnowTheOrder' /\ OneUpdateAtATime'
<1>1. TypeOK /\ CallInv
    BY DEF PaymentInv
<1>2. call'[h].stage = "none" /\ \A g \in Handlers \ {h} : call'[g] = call[g]
    BY <1>1 DEF Hangup, TypeOK, NoCall
<1> QED
    BY <1>1, <1>2 DEF CallInv, MoneyBehindCalls, CallsKnowTheOrder, OneUpdateAtATime

\* And so do the records, when its handler waits for it no more.
LEMMA HangupAside ==
    ASSUME PaymentInv, NEW h \in Handlers, Hangup(h), UNCHANGED status, StepsAside(h)
    PROVE  HandlerInv'
<1>1. TypeOK /\ HandlerInv
    BY DEF PaymentInv
<1>2. \A g \in Handlers \ {h} : call'[g] = call[g]
    BY <1>1 DEF Hangup, TypeOK
<1> QED
    BY <1>1, <1>2 DEF HandlerInv, CallersHaveCalls, PaidWhenRead, StepsAside

\* A call nobody hears of keeps the invariant.
LEMMA CallForgottenKeeps ==
    ASSUME PaymentInv, NEW h \in Handlers, CallForgotten(h)
    PROVE  PaymentInv'
<1>0. TypeOK /\ TypeOK' /\ CallInv /\ HandlerInv
    BY CallForgottenTypes DEF PaymentInv
<1>1. UNCHANGED <<trade, acked, status, sessions, credits, keys, step, work>> /\ Hangup(h)
    BY DEF CallForgotten, wechat, database
<1>2. StepsAside(h)
    BY <1>0, <1>1 DEF CallForgotten, StepsAside, HandlerInv, PaidWhenRead
<1>3. HandlerInv' /\ MoneyBehindCalls' /\ CallsKnowTheOrder' /\ OneUpdateAtATime'
    BY <1>1, <1>2, HangupKeepsCalls, HangupAside
<1>4. CreditedExactlyWhenPaid' /\ AnswersAreTrue' /\ PaidSessionHasPaidOrder'
    BY <1>0, <1>1 DEF CallInv, CreditedExactlyWhenPaid, AnswersAreTrue, PaymentInv,
                      PaidSessionHasPaidOrder
<1> QED
    BY <1>0, <1>3, <1>4 DEF PaymentInv, CallInv

\* The caller learning that it is not keeps the invariant.
LEMMA NotCreditedKeeps ==
    ASSUME PaymentInv, NEW h \in Handlers, NotCredited(h)
    PROVE  PaymentInv'
<1>0. TypeOK /\ TypeOK' /\ CallInv /\ HandlerInv
    BY NotCreditedTypes DEF PaymentInv
<1>1. UNCHANGED <<trade, acked, status, sessions, credits, keys>> /\ Hangup(h)
    BY DEF NotCredited, wechat, database
<1>2. StepsAside(h)
    BY Aside DEF NotCredited
<1>3. HandlerInv' /\ MoneyBehindCalls' /\ CallsKnowTheOrder' /\ OneUpdateAtATime'
    BY <1>1, <1>2, HangupKeepsCalls, HangupAside
<1>4. CreditedExactlyWhenPaid' /\ AnswersAreTrue' /\ PaidSessionHasPaidOrder'
    BY <1>0, <1>1 DEF CallInv, CreditedExactlyWhenPaid, AnswersAreTrue, PaymentInv,
                      PaidSessionHasPaidOrder
<1> QED
    BY <1>0, <1>3, <1>4 DEF PaymentInv, CallInv

\* The caller learning that it is credited keeps the invariant.
LEMMA CreditedKeeps ==
    ASSUME PaymentInv, NEW h \in Handlers, Credited(h)
    PROVE  PaymentInv'
<1> DEFINE o == Order(h)
           n == IF work[h].type = "notify" THEN Len(sessions[o]) ELSE work[h].index
           q == CASE work[h].type = "notify" -> sessions[o][n].queried
                  [] work[h].type = "ops"    -> work[h].session.queried
                  [] OTHER                   -> TRUE
<1>0. TypeOK /\ TypeOK' /\ CallInv /\ HandlerInv /\ o \in Orders
    BY CreditedTypes, HandlerMoves DEF PaymentInv
<1>1. UNCHANGED <<trade, status, credits, keys>> /\ Hangup(h)
    BY DEF Credited
<1>2. StepsAside(h)
    BY Aside DEF Credited
<1>3. HandlerInv' /\ MoneyBehindCalls' /\ CallsKnowTheOrder' /\ OneUpdateAtATime'
    BY <1>1, <1>2, HangupKeepsCalls, HangupAside
<1>4. status[o] = "paid"
    BY <1>0 DEF Credited, HandlerInv, CallersHaveCalls, CallInv, CallsKnowTheOrder, Order
<1>5. CreditedExactlyWhenPaid'
    BY <1>0, <1>1 DEF CallInv, CreditedExactlyWhenPaid
<1>6. AnswersAreTrue'
    BY <1>0, <1>1, <1>4 DEF CallInv, AnswersAreTrue, Credited, TypeOK
<1>7. PaidSessionHasPaidOrder'
  <2>1. PaidStaysPaid
    BY <1>1 DEF PaidStaysPaid
  <2>2. UNCHANGED sessions \/ SetSession(o, n, "paid", q)
    BY DEF Credited
  <2> HIDE DEF n, q
  <2>3. CASE SetSession(o, n, "paid", q)
    BY <1>0, <1>1, <1>4, <2>1, <2>3, SetSessionKeeps
  <2> QED
    BY <2>1, <2>2, <2>3, SameSessionsKeep
<1> QED
    BY <1>0, <1>3, <1>5, <1>6, <1>7 DEF PaymentInv, CallInv

\* The invariant holds before the first order.
LEMMA InitPayment == Init => PaymentInv
<1> SUFFICES ASSUME Init PROVE PaymentInv
    OBVIOUS
<1>1. TypeOK
    BY BlankTypes, ConstantsAssumption DEF Init, TypeOK, Steps
<1>2. CallInv
  <2>1. \A h \in Handlers : call[h].stage = "none"
    BY DEF Init, NoCall
  <2>2. MoneyBehindCalls /\ CallsKnowTheOrder /\ OneUpdateAtATime
    BY <2>1 DEF MoneyBehindCalls, CallsKnowTheOrder, OneUpdateAtATime
  <2>3. CreditedExactlyWhenPaid
    BY DEF Init, CreditedExactlyWhenPaid
  <2>4. AnswersAreTrue
    BY DEF Init, AnswersAreTrue
  <2> QED
    BY <2>2, <2>3, <2>4 DEF CallInv
<1>3. CallersHaveCalls
    BY DEF Init, CallersHaveCalls
<1>4. PaidWhenRead
  <2>1. \A h \in Handlers : work[h].session.status = "none"
    BY DEF Init, NoWork, Work, NoSession
  <2> QED
    BY <2>1 DEF PaidWhenRead
<1>5. PaidSessionHasPaidOrder
  <2>0. DOMAIN <<>> = {}
    OBVIOUS
  <2>1. \A o \in Orders : DOMAIN sessions[o] = {}
    BY <2>0 DEF Init
  <2> QED
    BY <2>1 DEF PaidSessionHasPaidOrder
<1> QED
    BY <1>1, <1>2, <1>3, <1>4, <1>5 DEF PaymentInv, HandlerInv

\* Every step keeps the invariant.
LEMMA NextKeepsPayment ==
    ASSUME PaymentInv, [Next]_vars
    PROVE  PaymentInv'
<1>1. CASE UNCHANGED vars
    BY <1>1 DEF vars, PaymentInv, TypeOK, CallInv, MoneyBehindCalls, CallsKnowTheOrder,
                OneUpdateAtATime, CreditedExactlyWhenPaid, AnswersAreTrue, HandlerInv,
                CallersHaveCalls, PaidWhenRead, PaidSessionHasPaidOrder
<1>2. CASE Environment
    BY <1>2, CreateOrderKeeps, LapseKeeps, QueryAgesKeeps, PayKeeps, TradeExpiresKeeps,
       NotifyOtherKeeps DEF Environment
<1>3. CASE Cleanup
    BY <1>3, CleanupKeeps
<1>4. ASSUME NEW h \in Handlers, Proceed(h)
      PROVE  PaymentInv'
    BY <1>4, ScanKeeps, CloseKeeps, ReadKeeps, SkipRefreshKeeps, ExpireSessionKeeps,
       QueryPaidKeeps, QueryOpenKeeps, QueryUnknownKeeps, WriteAnswerKeeps, RereadKeeps,
       ShutKeeps, RecheckKeeps, PrepayKeeps, CheckPendingKeeps, InsertSessionKeeps,
       CreditedKeeps, NotCreditedKeeps DEF Proceed
<1>5. ASSUME NEW h \in Handlers, CallProceeds(h) \/ Failure(h)
      PROVE  PaymentInv'
    BY <1>5, CallBeginKeeps, CallUpdateKeeps, CallCommitKeeps, CallForgottenKeeps,
       QueryFailsKeeps, ShutFailsKeeps, PrepayFailsKeeps, CallDiesKeeps, DieKeeps
       DEF CallProceeds, Failure
<1>6. ASSUME NEW h \in Handlers, Begin(h) \/ \E o \in Orders : Notify(h, o)
      PROVE  PaymentInv'
    BY <1>6, BeginKeeps, NotifyKeeps
<1> QED
    BY <1>1, <1>2, <1>3, <1>4, <1>5, <1>6 DEF Next

\* So it always holds.
LEMMA PaymentInvariant == Spec => []PaymentInv
    BY InitPayment, NextKeepsPayment, PTL DEF Spec

-----------------------------------------------------------------------------
\* Every variable keeps its type (TypeOK of PaymentOrders).
THEOREM TypesHold == Spec => []TypeOK
<1>1. PaymentInv => TypeOK
    BY DEF PaymentInv
<1> QED
    BY <1>1, PaymentInvariant, PTL

(***************************************************************************)
(* An order has been credited once if it is paid, and never if it is not,  *)
(* however many handlers found the payment                                 *)
(* (internal_payment_provider_callback).                                   *)
(***************************************************************************)
THEOREM CreditedOnceWhenPaid == Spec => []CreditedExactlyWhenPaid
<1>1. PaymentInv => CreditedExactlyWhenPaid
    BY DEF PaymentInv, CallInv
<1> QED
    BY <1>1, PaymentInvariant, PTL

(***************************************************************************)
(* WeChat hears success, and a repeated callback is told that it was       *)
(* applied, only of orders that are paid in the database                   *)
(* (internal_wechat_payment_notify, infra/http.py).                        *)
(***************************************************************************)
THEOREM AnswersAlwaysTrue == Spec => []AnswersAreTrue
<1>1. PaymentInv => AnswersAreTrue
    BY DEF PaymentInv, CallInv
<1> QED
    BY <1>1, PaymentInvariant, PTL

(***************************************************************************)
(* A session never says it is paid of an order that is not, though it is   *)
(* written long after the order was read                                   *)
(* (_maybe_refresh_wechat_order_from_provider).                            *)
(***************************************************************************)
THEOREM PaidSessionAlwaysHasPaidOrder == Spec => []PaidSessionHasPaidOrder
<1>1. PaymentInv => PaidSessionHasPaidOrder
    BY DEF PaymentInv
<1> QED
    BY <1>1, PaymentInvariant, PTL

-----------------------------------------------------------------------------
\* A late answer of WeChat takes no order back from paid.
LEMMA WriteAnswerStatus ==
    ASSUME TypeOK, NEW h \in Handlers, WriteAnswer(h)
    PROVE  PaidStaysPaid
    BY HandlerMoves DEF WriteAnswer, PaidStaysPaid, TypeOK

\* Nor does any other step.
LEMMA NextKeepsPaid ==
    ASSUME TypeOK, [Next]_vars
    PROVE  PaidStaysPaid
<1>1. CASE UNCHANGED vars
    BY <1>1 DEF vars, PaidStaysPaid
<1>2. CASE Environment
    BY <1>2 DEF Environment, CreateOrder, Lapse, QueryAges, Pay, TradeExpires, NotifyOther,
                database, PaidStaysPaid, TypeOK
<1>3. CASE Cleanup
    BY <1>3 DEF Cleanup, PaidStaysPaid
<1>4. ASSUME NEW h \in Handlers, Proceed(h)
      PROVE  PaidStaysPaid
  <2>1. CASE Close(h)
    BY <2>1 DEF Close, PaidStaysPaid
  <2>2. CASE WriteAnswer(h)
    BY <2>2, WriteAnswerStatus
  <2>3. CASE Scan(h) \/ Read(h) \/ SkipRefresh(h) \/ ExpireSession(h) \/ QueryPaid(h)
             \/ QueryOpen(h) \/ QueryUnknown(h) \/ Reread(h) \/ Shut(h) \/ Recheck(h)
    BY <2>3 DEF Scan, Read, SkipRefresh, ExpireSession, QueryPaid, QueryOpen, QueryUnknown,
                Reread, Shut, Recheck, database, PaidStaysPaid
  <2>4. CASE Prepay(h) \/ CheckPending(h) \/ InsertSession(h) \/ Credited(h) \/ NotCredited(h)
    BY <2>4 DEF Prepay, CheckPending, InsertSession, Credited, NotCredited, database,
                PaidStaysPaid
  <2> QED
    BY <1>4, <2>1, <2>2, <2>3, <2>4 DEF Proceed
<1>5. ASSUME NEW h \in Handlers, CallProceeds(h)
      PROVE  PaidStaysPaid
  <2>1. CASE CallCommit(h)
    BY <2>1 DEF CallCommit, PaidStaysPaid, TypeOK
  <2> QED
    BY <1>5, <2>1 DEF CallProceeds, CallBegin, CallUpdate, CallForgotten, database, PaidStaysPaid
<1>6. ASSUME NEW h \in Handlers, Failure(h)
      PROVE  PaidStaysPaid
    BY <1>6 DEF Failure, QueryFails, ShutFails, PrepayFails, CallDies, Die, database,
                PaidStaysPaid
<1>7. ASSUME NEW h \in Handlers, Begin(h) \/ \E o \in Orders : Notify(h, o)
      PROVE  PaidStaysPaid
    BY <1>7 DEF Begin, Notify, database, PaidStaysPaid
<1> QED
    BY <1>1, <1>2, <1>3, <1>4, <1>5, <1>6, <1>7 DEF Next

(***************************************************************************)
(* A paid order stays paid (PaidIsFinal of PaymentOrders): the pages,      *)
(* cancels, cleanups and late answers close an order only where it is      *)
(* still pending.                                                          *)
(***************************************************************************)
THEOREM PaidStays == Spec => PaidIsFinal
<1>1. PaymentInv /\ [Next]_vars
         => [\A o \in Orders : status[o] = "paid" => status'[o] = "paid"]_vars
    BY NextKeepsPaid DEF PaymentInv, PaidStaysPaid
<1> QED
    BY <1>1, PaymentInvariant, PTL DEF Spec, PaidIsFinal

-----------------------------------------------------------------------------
\* A step that neither takes money nor hands over goods.
SameForTheShop ==
    /\ credits' = credits
    /\ \A o \in Orders : trade'[o] = "SUCCESS" <=> trade[o] = "SUCCESS"

(***************************************************************************)
(* Opening and closing a trade at WeChat takes no money and gives none     *)
(* back.                                                                   *)
(***************************************************************************)
LEMMA CloserOfTrades ==
    ASSUME TypeOK, NEW h \in Handlers,
           Prepay(h) \/ PrepayFails(h) \/ Shut(h) \/ ShutFails(h)
    PROVE  SameForTheShop
<1>1. Order(h) \in Orders
    BY HandlerMoves
<1>2. credits' = credits
    BY DEF Prepay, PrepayFails, Shut, ShutFails, database
<1>3. \/ trade' = trade
      \/ /\ trade[Order(h)] # "SUCCESS"
         /\ \E s \in {"NOTPAY", "CLOSED"} : trade' = [trade EXCEPT ![Order(h)] = s]
    BY <1>1 DEF Prepay, PrepayFails, Shut, ShutFails, TypeOK
<1> QED
    BY <1>1, <1>2, <1>3 DEF SameForTheShop, TypeOK

\* A payment is one of the shop's.
LEMMA PayImplements ==
    ASSUME TypeOK, NEW o \in Orders, Pay(o)
    PROVE  P!Pay(o)
<1>1. trade[o] = "NOTPAY" /\ trade' = [trade EXCEPT ![o] = "SUCCESS"] /\ credits' = credits
    BY DEF Pay, database
<1>2. {x \in Orders : trade'[x] = "SUCCESS"} = {x \in Orders : trade[x] = "SUCCESS"} \cup {o}
    BY <1>1 DEF TypeOK
<1> QED
    BY <1>1, <1>2 DEF P!Pay

(***************************************************************************)
(* A call that commits either changes nothing or hands over what was paid  *)
(* for, for the first time.                                                *)
(***************************************************************************)
LEMMA CallCommitImplements ==
    ASSUME PaymentInv, NEW h \in Handlers, CallCommit(h)
    PROVE  SameForTheShop \/ P!Deliver(call[h].order)
<1> DEFINE o == call[h].order
<1>0. TypeOK /\ CallInv /\ o \in Orders
    BY HandlerMoves DEF PaymentInv
<1>1. trade' = trade
    BY DEF CallCommit, wechat
<1>2. CASE call[h].stage = "known"
    BY <1>1, <1>2 DEF CallCommit, SameForTheShop
<1>3. CASE call[h].stage = "updated"
  <2>1. trade[o] = "SUCCESS"
    BY <1>0, <1>3 DEF CallInv, MoneyBehindCalls
  <2>2. credits[o] = 0
    BY <1>0, <1>3 DEF CallInv, CallsKnowTheOrder, CreditedExactlyWhenPaid
  <2>3. credits' = [credits EXCEPT ![o] = 1]
    BY <1>0, <1>3, <2>2 DEF CallCommit, TypeOK
  <2> QED
    BY <1>0, <1>1, <2>1, <2>2, <2>3 DEF P!Deliver
<1> QED
    BY <1>2, <1>3 DEF CallCommit

\* Every step is a step of the shop, or none.
LEMMA NextImplements ==
    ASSUME PaymentInv, [Next]_vars
    PROVE  SameForTheShop \/ P!Next
<1>0. TypeOK
    BY DEF PaymentInv
<1>1. CASE UNCHANGED vars
    BY <1>1 DEF vars, SameForTheShop
<1>2. CASE Environment
  <2>1. ASSUME NEW o \in Orders, Pay(o)
        PROVE  P!Next
    BY <1>0, <2>1, PayImplements DEF P!Next
  <2>2. ASSUME NEW o \in Orders, TradeExpires(o)
        PROVE  SameForTheShop
    BY <1>0, <2>2 DEF TradeExpires, database, SameForTheShop, TypeOK
  <2>3. ASSUME NEW o \in Orders, CreateOrder(o) \/ Lapse(o) \/ QueryAges(o) \/ NotifyOther(o)
        PROVE  SameForTheShop
    BY <2>3 DEF CreateOrder, Lapse, QueryAges, NotifyOther, wechat, database, SameForTheShop
  <2> QED
    BY <1>2, <2>1, <2>2, <2>3 DEF Environment
<1>3. CASE Cleanup
    BY <1>3 DEF Cleanup, wechat, SameForTheShop
<1>4. ASSUME NEW h \in Handlers, Proceed(h)
      PROVE  SameForTheShop
  <2>1. CASE Prepay(h) \/ Shut(h)
    BY <1>0, <2>1, CloserOfTrades
  <2>2. CASE Scan(h) \/ Close(h) \/ Read(h) \/ SkipRefresh(h) \/ ExpireSession(h)
             \/ QueryPaid(h) \/ QueryOpen(h) \/ QueryUnknown(h)
    BY <2>2 DEF Scan, Close, Read, SkipRefresh, ExpireSession, QueryPaid, QueryOpen,
                QueryUnknown, wechat, database, SameForTheShop
  <2>3. CASE WriteAnswer(h) \/ Reread(h) \/ Recheck(h) \/ CheckPending(h)
             \/ InsertSession(h) \/ Credited(h) \/ NotCredited(h)
    BY <2>3 DEF WriteAnswer, Reread, Recheck, CheckPending, InsertSession, Credited,
                NotCredited, wechat, database, SameForTheShop
  <2> QED
    BY <1>4, <2>1, <2>2, <2>3 DEF Proceed
<1>5. ASSUME NEW h \in Handlers, CallProceeds(h)
      PROVE  SameForTheShop \/ P!Next
  <2>1. CASE CallCommit(h)
    BY <1>0, <2>1, CallCommitImplements, HandlerMoves DEF P!Next
  <2>2. CASE CallBegin(h) \/ CallUpdate(h) \/ CallForgotten(h)
    BY <2>2 DEF CallBegin, CallUpdate, CallForgotten, wechat, database, SameForTheShop
  <2> QED
    BY <1>5, <2>1, <2>2 DEF CallProceeds
<1>6. ASSUME NEW h \in Handlers, Failure(h)
      PROVE  SameForTheShop
  <2>1. CASE PrepayFails(h) \/ ShutFails(h)
    BY <1>0, <2>1, CloserOfTrades
  <2>2. CASE QueryFails(h) \/ CallDies(h) \/ Die(h)
    BY <2>2 DEF QueryFails, CallDies, Die, wechat, database, SameForTheShop
  <2> QED
    BY <1>6, <2>1, <2>2 DEF Failure
<1>7. ASSUME NEW h \in Handlers, Begin(h) \/ \E o \in Orders : Notify(h, o)
      PROVE  SameForTheShop
    BY <1>7 DEF Begin, Notify, wechat, database, SameForTheShop
<1> QED
    BY <1>1, <1>2, <1>3, <1>4, <1>5, <1>6, <1>7 DEF Next

(***************************************************************************)
(* The handlers implement the promise of the shop (DeliversOnlyPaid of     *)
(* PaymentOrders): goods are handed over only for money, and once.         *)
(***************************************************************************)
THEOREM OrdersImplementPurchase == Spec => DeliversOnlyPaid
<1>1. Init => P!Init
    BY DEF Init, P!Init
<1>2. PaymentInv /\ [Next]_vars => [P!Next]_P!vars
  <2> SUFFICES ASSUME PaymentInv, [Next]_vars, SameForTheShop
               PROVE  UNCHANGED P!vars
    BY NextImplements
  <2>1. {o \in Orders : trade'[o] = "SUCCESS"} = {o \in Orders : trade[o] = "SUCCESS"}
    BY DEF SameForTheShop
  <2> QED
    BY <2>1 DEF SameForTheShop, P!vars
<1> QED
    BY <1>1, <1>2, PaymentInvariant, PTL DEF Spec, DeliversOnlyPaid, P!Spec
=============================================================================
