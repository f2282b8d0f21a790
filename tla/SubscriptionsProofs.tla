------------------------ MODULE SubscriptionsProofs ------------------------
(***************************************************************************)
(* Proofs about Subscriptions, for any orders, handlers, packages, prices, *)
(* rules and period.                                                       *)
(***************************************************************************)
EXTENDS Subscriptions, Induction, TLAPS

-----------------------------------------------------------------------------
\* What adding one copy of each element of a set does to a bag.
LEMMA AddToBag ==
    ASSUME NEW B, IsABag(B), NEW S
    PROVE  /\ IsABag(B (+) SetToBag(S))
           /\ BagToSet(B (+) SetToBag(S)) = BagToSet(B) \cup S
           /\ \A r : BagIn(r, B (+) SetToBag(S)) <=> BagIn(r, B) \/ r \in S
           /\ \A r \in BagToSet(B) \ S : (B (+) SetToBag(S))[r] = B[r]
           /\ \A r \in S \ BagToSet(B) : (B (+) SetToBag(S))[r] = 1
<1> DEFINE C == B (+) SetToBag(S)
<1>1. /\ DOMAIN SetToBag(S) = S
      /\ \A r \in S : SetToBag(S)[r] = 1
    BY DEF SetToBag
<1>2. DOMAIN C = DOMAIN B \cup S
    BY <1>1 DEF (+)
<1>3. \A r \in DOMAIN B : B[r] \in Nat /\ B[r] > 0
    BY DEF IsABag
<1>4. \A r \in DOMAIN C : C[r] = (IF r \in DOMAIN B THEN B[r] ELSE 0) + (IF r \in S THEN 1 ELSE 0)
    BY <1>1, <1>2 DEF (+)
<1>5. \A r \in DOMAIN C : C[r] \in Nat /\ C[r] > 0
    BY <1>2, <1>3, <1>4
<1>6. C = [r \in DOMAIN C |-> C[r]]
    BY <1>2 DEF (+)
<1>7. IsABag(C)
    BY <1>5, <1>6 DEF IsABag
<1>8. /\ \A r \in BagToSet(B) \ S : C[r] = B[r]
      /\ \A r \in S \ BagToSet(B) : C[r] = 1
    BY <1>2, <1>3, <1>4 DEF BagToSet
<1> QED
    BY <1>2, <1>7, <1>8 DEF BagToSet, BagIn

-----------------------------------------------------------------------------
(***************************************************************************)
(* The inductive invariant.  What a handler does is fixed by how far it    *)
(* is.  An order whose callback runs is still pending, and no other        *)
(* callback of it runs; a period that is being granted is new, and no      *)
(* other handler grants it.                                                *)
(***************************************************************************)
Fits(s, t) ==
    /\ s = "idle" <=> t.type = "idle"
    /\ s \in {"allowed", "claims read"} <=> t.type = "order"
    /\ s = "credited" => t.type = "paid"

Sound(t) ==
    /\ t.type = "paid" => t.of \in Orders /\ orders[t.of].status = "pending"
    /\ t.type = "grant" => subs[t.of].status # "none" /\ ~BagIn(Grant(t.of, t.period), ledger)

Apart(t, u) ==
    /\ t.type = "paid" /\ u.type = "paid" => t.of # u.of
    /\ t.type = "grant" /\ u.type = "grant" /\ t.of = u.of => t.period # u.period

TaskInv ==
    \A h \in Handlers :
        /\ Fits(step[h], task[h]) /\ Sound(task[h])
        /\ \A g \in Handlers \ {h} : Apart(task[g], task[h])

\* What is committed: PaidForExactly, row by row.
RowsInv ==
    /\ \A o \in Orders :
           /\ BagIn(Recharge(o), ledger) <=> o \in Paid /\ ~IsMonthly(o)
           /\ subs[o].status # "none" <=> o \in Paid /\ IsMonthly(o)
           /\ \A period \in Periods : BagIn(Grant(o, period), ledger) => subs[o].status # "none"
           /\ subs[o].status # "none" => BagIn(Grant(o, subs[o].period), ledger)
    /\ claims = UNION {Rewards(o) \cup Discounts(o) : o \in Paid}
    /\ \A c \in Claims : BagIn(Reward(c), ledger) <=> c \in claims /\ c # <<First, Buyer>>

\* The task of h opens the subscription of o, or has renewed it.
Opens(h, o) ==
    /\ task[h].type \in {"paid", "grant"} /\ task[h].of = o
    /\ IF task[h].type = "paid" THEN IsMonthly(o) ELSE step[h] = "written"

\* The row that the task of h is about.
CreditRow(h) ==
    CASE task[h].type = "paid" /\ ~IsMonthly(task[h].of) -> {Recharge(task[h].of)}
      [] task[h].type = "grant" \/ (task[h].type = "paid" /\ IsMonthly(task[h].of)) ->
             {Grant(task[h].of, task[h].period)}
      [] task[h].type = "gift" /\ ~BagIn(Gift, ledger) -> {Gift}
      [] OTHER -> {}

(***************************************************************************)
(* What the transaction that holds the account has written.  Apart from    *)
(* the subscription it is about, it has only marked lapsed ones; it gives  *)
(* the tier of a subscription, or Free while none is in force.             *)
(***************************************************************************)
DraftSubs(h) ==
    \A o \in Orders :
        \/ draft[h].subs[o] = subs[o]
        \/ /\ subs[o].status = "active" /\ End(subs[o]) <= clock
           /\ draft[h].subs[o] = [subs[o] EXCEPT !.status = "expired"]
        \/ Opens(h, o)

DraftTier(h) ==
    /\ draft[h].tier # Free =>
           \E o \in Orders : draft[h].subs[o].status = "active" /\ orders[o].package = draft[h].tier
    /\ draft[h].tier = Free => \A o \in Orders : ~InForce(subs[o])

DraftRows(h) ==
    LET promoted == step[h] = "written" /\ task[h].type = "paid"
        o == task[h].of
    IN  /\ draft[h].claims = IF promoted THEN claims \cup Rewards(o) \cup Discounts(o) ELSE claims
        /\ draft[h].rows = (IF step[h] = "reconciled" THEN {} ELSE CreditRow(h))
                               \cup (IF promoted THEN {Reward(c) : c \in Rewards(o) \ claims} ELSE {})

DraftOK(h) ==
    /\ DraftSubs(h) /\ DraftTier(h) /\ DraftRows(h)
    /\ \A o \in Orders : Opens(h, o) => /\ draft[h].subs[o].status # "none"
                                        /\ draft[h].subs[o].period = task[h].period

Drafted == {"reconciled", "credited", "written"}

DraftInv == \A h \in Handlers : step[h] \in Drafted => DraftOK(h)

IInv == TypeOK /\ TaskInv /\ RowsInv /\ DraftInv /\ CreditedOnce /\ TierHasSubscription


LEMMA NoDraftType == NoDraft \in Drafts
<1>1. FirstPeriod \in Periods
    BY ConstantsAssumption DEF FirstPeriod, Periods
<1> QED
    BY <1>1 DEF NoDraft, Drafts, NoSub, SubRows

LEMMA TypeInit == Init => TypeOK
<1> SUFFICES ASSUME Init PROVE TypeOK
    OBVIOUS
<1> USE ConstantsAssumption DEF Init
<1>1. IsABag(ledger) /\ BagToSet(ledger) = {}
    BY DEF EmptyBag, SetToBag, IsABag, BagToSet
<1>2. orders \in [Orders -> OrderRows]
    BY DEF OrderRows, NoOrder
<1>3. NoSub \in SubRows
    <2>1. FirstPeriod \in Periods
        BY DEF FirstPeriod, Periods
    <2> QED
        BY <2>1 DEF NoSub, SubRows
<1>4. task \in [Handlers -> Tasks]
    BY DEF Tasks, Idle
<1>5. \A h \in Handlers : step[h] = "idle" /\ lock # h
    OBVIOUS
<1>6. draft \in [Handlers -> Drafts]
    BY NoDraftType
<1> QED
    BY <1>1, <1>2, <1>3, <1>4, <1>5, <1>6 DEF TypeOK, Holding

-----------------------------------------------------------------------------
LEMMA Clock == ASSUME TypeOK PROVE clock \in Int /\ clock \in 0 .. MaxClock /\ MaxClock \in Int
<1>1. clock \in 0 .. MaxClock
    BY DEF TypeOK
<1>2. MaxClock \in Int
    BY ConstantsAssumption
<1> QED
    BY <1>1, <1>2

LEMMA EndIsInt ==
    ASSUME TypeOK, NEW ss \in [Orders -> SubRows], NEW o \in Orders
    PROVE  End(ss[o]) \in Int
<1>1. ss[o].period \in Periods
    <2>1. ss[o] \in SubRows
        OBVIOUS
    <2> QED
        BY <2>1 DEF SubRows
<1>2. PICK start \in 0 .. MaxClock, days \in {Period, Points} : ss[o].period = Lasting(start, days)
    BY <1>1 DEF Periods
<1>3. start \in Int /\ days \in Int
    BY <1>2, ConstantsAssumption
<1> QED
    BY <1>2, <1>3 DEF End, Lasting

\* A period that begins now is one of the periods.
LEMMA PeriodIn ==
    ASSUME TypeOK
    PROVE  Lasting(clock, Period) \in Periods /\ Lasting(clock, Points) \in Periods /\ FirstPeriod \in Periods
<1>1. clock \in 0 .. MaxClock /\ 0 \in 0 .. MaxClock
    BY Clock
<1> QED
    BY <1>1 DEF Periods, FirstPeriod

\* What the types say of a row of the order table and of a task.
LEMMA Placed ==
    ASSUME TypeOK, NEW o \in Orders, orders[o].status # "none"
    PROVE  /\ orders[o].status \in {"pending", "paid"} /\ orders[o].package \in Packages
           /\ orders[o].applied \subseteq {First} /\ orders[o].rewards \subseteq Rules \ {First}
           /\ orders[o] # NoOrder
           /\ \A st \in {"pending", "paid"} : [orders[o] EXCEPT !.status = st] \in OrderRows
           /\ IsMonthly(o) <=> orders[o].package \notin Packs
           /\ Rewards(o) \subseteq Claims \ {<<First, Buyer>>} /\ Discounts(o) \subseteq {<<First, Buyer>>}
<1>1. orders[o] \in OrderRows
    BY DEF TypeOK
<1>2. orders[o] \in [status : {"pending", "paid"}, package : Packages,
                    applied : SUBSET {First}, rewards : SUBSET (Rules \ {First})]
    BY <1>1 DEF OrderRows, NoOrder
<1>3. orders[o] # NoOrder
    BY <1>2 DEF NoOrder
<1>4. \A st \in {"pending", "paid"} : [orders[o] EXCEPT !.status = st] \in OrderRows
    BY <1>2 DEF OrderRows
<1>5. IsMonthly(o) <=> orders[o].package \notin Packs
    BY <1>2, ConstantsAssumption DEF Packages, IsMonthly
<1>6. Rewards(o) \subseteq Claims \ {<<First, Buyer>>}
    BY <1>2, ConstantsAssumption DEF Rewards, Claims, Claim, Rules
<1>7. Discounts(o) \subseteq {<<First, Buyer>>}
    BY <1>2, ConstantsAssumption DEF Discounts, Claim
<1> QED
    BY <1>2, <1>3, <1>4, <1>5, <1>6, <1>7

LEMMA FirstClaim == <<First, Buyer>> \in Claims
BY DEF Claims, Rules

\* Who is past asking for the row of the account is the one who holds it.
LEMMA OneHolder ==
    ASSUME TypeOK, NEW h \in Handlers, step[h] \in Holding
    PROVE  lock = h /\ \A g \in Handlers \ {h} : step[g] \notin Holding
BY DEF TypeOK, Holding

\* The tiers to choose from are those of subscriptions in force, or Free if there are none.
LEMMA TiersOf ==
    ASSUME NEW ss, NEW t \in Tiers(ss),
           \A o \in Orders : ss[o].status # "none" => orders[o].package \in Monthly
    PROVE  /\ t \in Monthly \cup {Free}
           /\ t # Free => \E o \in Orders : ss[o].status = "active" /\ orders[o].package = t
           /\ t = Free => \A o \in Orders : ~InForce(ss[o])
BY ConstantsAssumption DEF Tiers, InForce

\* Lapsing marks active subscriptions that have ended, and nothing else.
LEMMA LapseOf ==
    ASSUME TypeOK, NEW ss \in [Orders -> SubRows]
    PROVE  /\ Lapse(ss) \in [Orders -> SubRows]
           /\ \A o \in Orders :
                 /\ Lapse(ss)[o].period = ss[o].period
                 /\ Lapse(ss)[o].status # "none" <=> ss[o].status # "none"
                 /\ InForce(ss[o]) => Lapse(ss)[o] = ss[o]
                 /\ \/ Lapse(ss)[o] = ss[o]
                    \/ /\ ss[o].status = "active" /\ End(ss[o]) <= clock
                       /\ Lapse(ss)[o] = [ss[o] EXCEPT !.status = "expired"]
<1>1. \A o \in Orders : ss[o] \in [status : {"none", "active", "expired"}, period : Periods]
    BY DEF SubRows
<1>2. \A o \in Orders :
          Lapse(ss)[o] = IF ss[o].status = "active" /\ End(ss[o]) <= clock
                         THEN [ss[o] EXCEPT !.status = "expired"] ELSE ss[o]
    BY DEF Lapse
<1>3. \A o \in Orders : Lapse(ss)[o] \in SubRows
    BY <1>1, <1>2 DEF SubRows
<1>4. Lapse(ss) \in [Orders -> SubRows]
    BY <1>3 DEF Lapse
<1>5. \A o \in Orders : /\ Lapse(ss)[o].period = ss[o].period
                        /\ Lapse(ss)[o].status # "none" <=> ss[o].status # "none"
    BY <1>1, <1>2
<1>6. \A o \in Orders : InForce(ss[o]) => Lapse(ss)[o] = ss[o]
    <2> SUFFICES ASSUME NEW o \in Orders, InForce(ss[o]) PROVE ~(End(ss[o]) <= clock)
        BY <1>2
    <2>1. End(ss[o]) \in Int /\ clock \in Int
        BY EndIsInt, Clock
    <2> QED
        BY <2>1 DEF InForce
<1> QED
    BY <1>2, <1>4, <1>5, <1>6

\* What the paid task of a handler is about is a pending order.
LEMMA PaidTask ==
    ASSUME TypeOK, TaskInv, NEW h \in Handlers, task[h].type = "paid"
    PROVE  /\ task[h] \in [type : {"paid", "grant"}, of : Orders, period : Periods]
           /\ task[h].of \in Orders /\ task[h].period \in Periods
           /\ orders[task[h].of].status = "pending"
<1>1. task[h] \in Tasks
    BY DEF TypeOK
<1> QED
    BY <1>1 DEF Tasks, TaskInv, Fits, Sound

LEMMA PeriodTask ==
    ASSUME TypeOK, TaskInv, NEW h \in Handlers, task[h].type = "grant"
    PROVE  /\ task[h] \in [type : {"paid", "grant"}, of : Orders, period : Periods]
           /\ task[h].of \in Orders /\ task[h].period \in Periods
           /\ subs[task[h].of].status # "none"
<1>1. task[h] \in Tasks
    BY DEF TypeOK
<1> QED
    BY <1>1 DEF Tasks, TaskInv, Fits, Sound

\* A subscription, and one that a transaction sees, belongs to an order for a monthly package.
LEMMA VisibleOf ==
    ASSUME IInv, NEW h \in Handlers
    PROVE  /\ Visible(h) \in [Orders -> SubRows]
           /\ \A o \in Orders : Visible(h)[o].status # "none" => orders[o].package \in Monthly
<1> USE DEF IInv
<1>1. \A o \in Orders : subs[o].status # "none" => orders[o].package \in Monthly
    BY DEF RowsInv, IsMonthly
<1>2. subs \in [Orders -> SubRows]
    BY DEF TypeOK
<1>3. CASE task[h].type = "paid" /\ IsMonthly(task[h].of)
    <2>1. task[h].of \in Orders /\ task[h].period \in Periods
        BY <1>3, PaidTask
    <2>2. Active(task[h].period) \in SubRows
        BY <2>1 DEF Active, SubRows
    <2> QED
        BY <1>1, <1>2, <1>3, <2>1, <2>2 DEF Visible, IsMonthly
<1>4. CASE ~(task[h].type = "paid" /\ IsMonthly(task[h].of))
    BY <1>1, <1>2, <1>4 DEF Visible
<1> QED
    BY <1>3, <1>4

\* A subscription that a transaction has written belongs to an order for a monthly package.
LEMMA DraftOf ==
    ASSUME IInv, NEW h \in Handlers, step[h] \in Drafted
    PROVE  /\ draft[h].subs \in [Orders -> SubRows]
           /\ \A o \in Orders : draft[h].subs[o].status # "none" =>
                  orders[o].package \in Monthly /\ orders[o].status # "none"
<1> USE DEF IInv
<1>1. \A o \in Orders : subs[o].status # "none" => orders[o].package \in Monthly /\ orders[o].status # "none"
    BY DEF RowsInv, IsMonthly, Paid
<1>2. \A o \in Orders : Opens(h, o) => orders[o].package \in Monthly /\ orders[o].status # "none"
    BY <1>1 DEF Opens, TaskInv, Fits, Sound, IsMonthly
<1> QED
    BY <1>1, <1>2 DEF DraftInv, Drafted, DraftOK, DraftSubs, TypeOK, Drafts

\* What GrantMore writes: the subscriptions lapse or stay, and the tier fits them.
LEMMA MoreOf ==
    ASSUME IInv, NEW h \in Handlers, step[h] \in Drafted, NEW rows, NEW claimed, GrantMore(h, rows, claimed)
    PROVE  /\ draft'[h].claims = draft[h].claims \cup claimed
           /\ draft'[h].rows = draft[h].rows \cup rows
           /\ step'[h] = "written"
           /\ UNCHANGED <<clock, orders, subs, claims, ledger, tier, lock, task>>
           /\ IF rows = {}
              THEN draft'[h].subs = draft[h].subs /\ draft'[h].tier = draft[h].tier
              ELSE draft'[h].subs = Lapse(draft[h].subs) /\ draft'[h].tier \in Tiers(Lapse(draft[h].subs))
           /\ draft'[h] = [subs |-> draft'[h].subs, tier |-> draft'[h].tier,
                           claims |-> draft'[h].claims, rows |-> draft'[h].rows]
           /\ draft' = [draft EXCEPT ![h] = draft'[h]]
<1> USE DEF IInv
<1> DEFINE ss == IF rows = {} THEN draft[h].subs ELSE Lapse(draft[h].subs)
<1>1. PICK t \in IF rows = {} THEN {draft[h].tier} ELSE Tiers(ss) :
          draft' = [draft EXCEPT ![h].subs = ss, ![h].tier = t,
                                 ![h].claims = @ \cup claimed, ![h].rows = @ \cup rows]
    BY DEF GrantMore
<1>2. draft[h] \in Drafts
    BY DEF TypeOK
<1>3. /\ draft'[h] = [subs |-> ss, tier |-> t, claims |-> draft[h].claims \cup claimed,
                      rows |-> draft[h].rows \cup rows]
      /\ draft' = [draft EXCEPT ![h] = draft'[h]]
    <2> HIDE DEF ss
    <2> QED
        BY <1>1, <1>2 DEF TypeOK, Drafts
<1>4. step'[h] = "written" /\ UNCHANGED <<clock, orders, subs, claims, ledger, tier, lock, task>>
    BY DEF GrantMore, Goto, TypeOK
<1>5. /\ draft'[h].claims = draft[h].claims \cup claimed
      /\ draft'[h].rows = draft[h].rows \cup rows
      /\ draft'[h].subs = ss /\ draft'[h].tier = t
    <2> HIDE DEF ss
    <2> QED
        BY <1>3
<1>6. draft'[h] = [subs |-> draft'[h].subs, tier |-> draft'[h].tier,
                   claims |-> draft'[h].claims, rows |-> draft'[h].rows]
    <2> HIDE DEF ss
    <2> QED
        BY <1>3, <1>5
<1>7. IF rows = {}
      THEN draft'[h].subs = draft[h].subs /\ draft'[h].tier = draft[h].tier
      ELSE draft'[h].subs = Lapse(draft[h].subs) /\ draft'[h].tier \in Tiers(Lapse(draft[h].subs))
    <2>1. CASE rows = {}
        BY <1>1, <1>5, <2>1
    <2>2. CASE rows # {}
        BY <1>1, <1>5, <2>2
    <2> QED
        BY <2>1, <2>2
<1> HIDE DEF ss
<1> QED
    BY <1>3, <1>4, <1>5, <1>6, <1>7

LEMMA MoreType ==
    ASSUME IInv, NEW h \in Handlers, step[h] \in Drafted,
           NEW rows \in SUBSET Refs, NEW claimed \in SUBSET Claims, GrantMore(h, rows, claimed)
    PROVE  TypeOK'
<1> USE DEF IInv
<1>1. draft[h] \in Drafts
    BY DEF TypeOK
<1>2. /\ draft[h].subs \in [Orders -> SubRows]
      /\ \A q \in Orders : draft[h].subs[q].status # "none" => orders[q].package \in Monthly
    BY DraftOf
<1>3. /\ Lapse(draft[h].subs) \in [Orders -> SubRows]
      /\ \A q \in Orders : Lapse(draft[h].subs)[q].status # "none" => orders[q].package \in Monthly
    BY <1>2, LapseOf
<1>4. \A t \in Tiers(Lapse(draft[h].subs)) : t \in Monthly \cup {Free}
    BY <1>3, TiersOf
<1>5. draft'[h].subs \in [Orders -> SubRows] /\ draft'[h].tier \in Monthly \cup {Free}
    BY <1>1, <1>2, <1>3, <1>4, MoreOf DEF Drafts
<1>6. draft'[h] \in Drafts
    <2>1. draft'[h].claims \in SUBSET Claims /\ draft'[h].rows \in SUBSET Refs
        <3>1. draft[h].claims \in SUBSET Claims /\ draft[h].rows \in SUBSET Refs
            BY <1>1 DEF Drafts
        <3>2. draft'[h].claims = draft[h].claims \cup claimed /\ draft'[h].rows = draft[h].rows \cup rows
            BY MoreOf
        <3> QED
            BY <3>1, <3>2
    <2>2. draft'[h] = [subs |-> draft'[h].subs, tier |-> draft'[h].tier,
                       claims |-> draft'[h].claims, rows |-> draft'[h].rows]
        BY MoreOf
    <2> QED
        BY <1>5, <2>1, <2>2 DEF Drafts
<1>7. draft' \in [Handlers -> Drafts]
    BY <1>6, MoreOf DEF TypeOK
<1> QED
    BY <1>7 DEF GrantMore, Goto, TypeOK, Holding, Drafted

-----------------------------------------------------------------------------
LEMMA TypeNext == ASSUME IInv, [Next]_vars PROVE TypeOK'
<1> USE DEF IInv
<1>2. CASE UNCHANGED vars
    BY <1>2 DEF vars, TypeOK
<1>3. CASE Tick
    <2>1. clock' \in 0 .. MaxClock
        BY <1>3, Clock DEF Tick
    <2> QED
        BY <1>3, <2>1 DEF Tick, TypeOK
<1>4. ASSUME NEW h \in Handlers, NEW p \in Packages, AskForOrder(h, p) PROVE TypeOK'
    <2>1. [type |-> "order", package |-> p, claimed |-> {}] \in Tasks
        BY DEF Tasks
    <2> QED
        BY <1>4, <2>1 DEF AskForOrder, Goto, TypeOK, Holding
<1>5. ASSUME NEW h \in Handlers, ReadClaims(h) PROVE TypeOK'
    <2>1. task[h] \in [type : {"order"}, package : Packages, claimed : SUBSET Rules]
        BY <1>5 DEF ReadClaims, TypeOK, TaskInv, Fits, Sound, Tasks
    <2>2. {c[1] : c \in claims} \subseteq Rules
        <3>1. \A c \in Claims : c[1] \in Rules
            BY DEF Claims
        <3> QED
            BY <3>1 DEF TypeOK
    <2>3. task'[h] \in Tasks
        BY <1>5, <2>1, <2>2 DEF ReadClaims, Tasks, TypeOK
    <2> QED
        BY <1>5, <2>3 DEF ReadClaims, Goto, TypeOK, Holding
<1>6. ASSUME NEW h \in Handlers, NEW o \in Orders, PlaceOrder(h, o) PROVE TypeOK'
    <2>1. task[h] \in [type : {"order"}, package : Packages, claimed : SUBSET Rules]
        BY <1>6 DEF PlaceOrder, TypeOK, TaskInv, Fits, Sound, Tasks
    <2>2. orders'[o] \in OrderRows
        BY <1>6, <2>1, ConstantsAssumption DEF PlaceOrder, OrderRows, Rules, TypeOK
    <2>3. orders' \in [Orders -> OrderRows]
        BY <1>6, <2>2 DEF PlaceOrder, TypeOK
    <2>4. Idle \in Tasks
        BY DEF Idle, Tasks
    <2> QED
        BY <1>6, <2>3, <2>4 DEF PlaceOrder, Goto, TypeOK, Holding
<1>7. ASSUME NEW h \in Handlers, NEW o \in Orders, CallbackBegin(h, o) PROVE TypeOK'
    <2>1. [type |-> "paid", of |-> o, period |-> IF IsMonthly(o) THEN Lasting(clock, Period) ELSE FirstPeriod] \in Tasks
        BY PeriodIn DEF Tasks
    <2> QED
        BY <1>7, <2>1 DEF CallbackBegin, Goto, TypeOK, Holding
<1>8. ASSUME NEW h \in Handlers, NEW o \in Orders, PeriodBegin(h, o) PROVE TypeOK'
    <2>1. [type |-> "grant", of |-> o, period |-> Lasting(clock, Points)] \in Tasks
        BY PeriodIn DEF Tasks
    <2> QED
        BY <1>8, <2>1 DEF PeriodBegin, Goto, TypeOK, Holding
<1>9. ASSUME NEW h \in Handlers, AccountBegin(h) PROVE TypeOK'
    <2>1. \A type \in {"view", "gift"} : [type |-> type] \in Tasks
        BY DEF Tasks
    <2> QED
        BY <1>9, <2>1 DEF AccountBegin, Goto, TypeOK, Holding
<1>10. ASSUME NEW h \in Handlers, LockAccount(h) PROVE TypeOK'
    BY <1>10, ConstantsAssumption DEF LockAccount, Goto, TypeOK, Holding
<1>11. ASSUME NEW h \in Handlers, Reconcile(h) PROVE TypeOK'
    <2> DEFINE ss == Lapse(Visible(h))
    <2>1. PICK t \in Tiers(ss) :
              draft' = [draft EXCEPT ![h] = [subs |-> ss, tier |-> t, claims |-> claims, rows |-> {}]]
        BY <1>11 DEF Reconcile
    <2>2. /\ ss \in [Orders -> SubRows]
          /\ \A o \in Orders : ss[o].status # "none" => orders[o].package \in Monthly
        BY VisibleOf, LapseOf
    <2>3. t \in Monthly \cup {Free}
        BY <2>2, TiersOf
    <2>4. [subs |-> ss, tier |-> t, claims |-> claims, rows |-> {}] \in Drafts
        BY <2>2, <2>3 DEF Drafts, TypeOK
    <2> QED
        BY <1>11, <2>1, <2>4 DEF Reconcile, Goto, TypeOK, Holding
<1>12. ASSUME NEW h \in Handlers, CreditPack(h) PROVE TypeOK'
    <2>1. Recharge(task[h].of) \in Refs
        BY <1>12, PaidTask DEF CreditPack, Refs
    <2>2. [draft[h] EXCEPT !.rows = @ \cup {Recharge(task[h].of)}] \in Drafts
        BY <2>1 DEF Drafts, TypeOK
    <2> QED
        BY <1>12, <2>2 DEF CreditPack, Goto, TypeOK, Holding
<1>13. ASSUME NEW h \in Handlers, CreditPeriod(h) PROVE TypeOK'
    <2> DEFINE o == task[h].of
               period == task[h].period
    <2>1. o \in Orders /\ period \in Periods
        BY <1>13, PaidTask, PeriodTask DEF CreditPeriod
    <2>2. Grant(o, period) \in Refs
        BY <2>1 DEF Refs
    <2>3. Active(period) \in SubRows
        BY <2>1 DEF Active, SubRows
    <2>4. task[h].type = "paid" => orders[o].package \in Monthly
        BY <1>13 DEF CreditPeriod, IsMonthly
    <2>5. draft'[h] \in Drafts
        <3>1. /\ draft[h] \in Drafts
              /\ draft' = [draft EXCEPT ![h].rows = @ \cup {Grant(o, period)},
                                        ![h].subs[o] = Active(period),
                                        ![h].tier = IF task[h].type = "paid" THEN orders[o].package ELSE @]
            BY <1>13 DEF CreditPeriod, TypeOK
        <3>2. draft'[h] = [draft[h] EXCEPT !.rows = @ \cup {Grant(o, period)},
                                          !.subs[o] = Active(period),
                                          !.tier = IF task[h].type = "paid" THEN orders[o].package ELSE @]
            BY <3>1 DEF TypeOK
        <3> DEFINE w == [subs |-> draft[h].subs, tier |-> draft[h].tier,
                         claims |-> draft[h].claims, rows |-> draft[h].rows]
        <3> HIDE DEF o, period
        <3>3. draft[h] = w
            BY <3>1 DEF Drafts
        <3>4. draft'[h] = [w EXCEPT !.rows = @ \cup {Grant(o, period)},
                                    !.subs[o] = Active(period),
                                    !.tier = IF task[h].type = "paid" THEN orders[o].package ELSE @]
            BY <3>2, <3>3
        <3>5. /\ draft'[h].rows = draft[h].rows \cup {Grant(o, period)}
              /\ draft'[h].subs = [draft[h].subs EXCEPT ![o] = Active(period)]
              /\ draft'[h].tier = IF task[h].type = "paid" THEN orders[o].package ELSE draft[h].tier
              /\ draft'[h].claims = draft[h].claims
              /\ draft'[h] = [subs |-> draft'[h].subs, tier |-> draft'[h].tier,
                              claims |-> draft'[h].claims, rows |-> draft'[h].rows]
            BY <3>4
        <3>6. draft[h].subs \in [Orders -> SubRows]
            BY <3>1 DEF Drafts
        <3>7. draft'[h].subs \in [Orders -> SubRows]
            <4>1. draft'[h].subs = [q \in Orders |-> IF q = o THEN Active(period) ELSE draft[h].subs[q]]
                BY <2>1, <3>6, <3>5
            <4> QED
                BY <2>3, <3>6, <4>1
        <3>8. draft'[h].tier \in Monthly \cup {Free}
            BY <2>4, <3>1, <3>5 DEF Drafts
        <3>9. draft'[h].rows \in SUBSET Refs /\ draft'[h].claims \in SUBSET Claims
            BY <2>2, <3>1, <3>5 DEF Drafts
        <3> QED
            BY <3>5, <3>7, <3>8, <3>9 DEF Drafts
    <2> QED
        BY <1>13, <2>5 DEF CreditPeriod, Goto, TypeOK, Holding
<1>14. ASSUME NEW h \in Handlers, CreditGift(h) PROVE TypeOK'
    <2> DEFINE rows == IF task[h].type = "gift" /\ ~BagIn(Gift, ledger) THEN {Gift} ELSE {}
    <2>1. GrantMore(h, rows, {}) /\ step[h] \in Drafted
        BY <1>14 DEF CreditGift, Drafted
    <2>2. rows \subseteq Refs
        BY DEF Refs
    <2> HIDE DEF rows
    <2> QED
        BY <2>1, <2>2, MoreType
<1>15. ASSUME NEW h \in Handlers, Promote(h) PROVE TypeOK'
    <2> DEFINE o == task[h].of
               new == Rewards(o) \ draft[h].claims
               given == {Reward(c) : c \in new}
    <2>1. GrantMore(h, given, new \cup Discounts(o)) /\ step[h] \in Drafted
        BY <1>15 DEF Promote, Drafted
    <2>2. Rewards(o) \subseteq Claims /\ Discounts(o) \subseteq Claims
        BY <1>15, PaidTask, Placed, FirstClaim DEF Promote, TaskInv, Fits
    <2>3. given \subseteq Refs /\ new \cup Discounts(o) \subseteq Claims
        BY <2>2 DEF Refs
    <2> HIDE DEF given, new
    <2> QED
        BY <2>1, <2>3, MoreType
<1>16. ASSUME NEW h \in Handlers, Commit(h) PROVE TypeOK'
    <2>1. step[h] \in Holding /\ lock = h
        BY <1>16 DEF Commit, TypeOK, Holding
    <2>2. draft[h] \in Drafts
        BY DEF TypeOK
    <2>3. subs' \in [Orders -> SubRows] /\ claims' \subseteq Claims /\ tier' \in Monthly \cup {Free}
        BY <1>16, <2>2 DEF Commit, Drafts
    <2>4. IsABag(ledger') /\ BagToSet(ledger') \subseteq Refs
        <3>1. draft[h].rows \subseteq Refs
            BY <2>2 DEF Drafts
        <3>2. IsABag(ledger) /\ BagToSet(ledger) \subseteq Refs
            BY DEF TypeOK
        <3>3. ledger' = ledger (+) SetToBag(draft[h].rows)
            BY <1>16 DEF Commit
        <3>4. IsABag(ledger') /\ BagToSet(ledger') = BagToSet(ledger) \cup draft[h].rows
            BY <3>2, <3>3, AddToBag
        <3> QED
            BY <3>1, <3>2, <3>4
    <2>5. orders' \in [Orders -> OrderRows]
        BY <1>16, PaidTask, Placed DEF Commit, TypeOK
    <2>6. task' \in [Handlers -> Tasks]
        BY <1>16 DEF Commit, Leave, TypeOK, Tasks, Idle
    <2>7. draft' \in [Handlers -> Drafts]
        BY <1>16, NoDraftType DEF Commit, Leave, TypeOK
    <2>8. lock' = NoHandler /\ step' = [step EXCEPT ![h] = "idle"]
        BY <1>16, <2>1 DEF Commit, Leave, Goto
    <2>9. \A g \in Handlers : step'[g] \in Holding <=> lock' = g
        BY <2>1, <2>8, ConstantsAssumption DEF TypeOK, Holding
    <2> QED
        BY <1>16, <2>3, <2>4, <2>5, <2>6, <2>7, <2>8, <2>9 DEF Commit, TypeOK
<1>17. ASSUME NEW h \in Handlers, Fail(h) PROVE TypeOK'
    <2>1. task' \in [Handlers -> Tasks]
        BY <1>17 DEF Fail, Leave, TypeOK, Tasks, Idle
    <2>2. draft' \in [Handlers -> Drafts]
        BY <1>17, NoDraftType DEF Fail, Leave, TypeOK
    <2>3. \A g \in Handlers : step'[g] \in Holding <=> lock' = g
        BY <1>17, ConstantsAssumption DEF Fail, Leave, Goto, TypeOK, Holding
    <2> QED
        BY <1>17, <2>1, <2>2, <2>3 DEF Fail, Leave, Goto, TypeOK
<1> QED
    BY <1>2, <1>3, <1>4, <1>5, <1>6, <1>7, <1>8, <1>9, <1>10, <1>11, <1>12, <1>13, <1>14, <1>15,
       <1>16, <1>17 DEF Next

-----------------------------------------------------------------------------
\* References of different kinds, orders, periods or claims are different.
LEMMA Distinct ==
    /\ \A o, q \in Orders : Recharge(o) = Recharge(q) => o = q
    /\ \A o, q \in Orders : \A s, t : Grant(o, s) = Grant(q, t) => o = q /\ s = t
    /\ \A c, d \in Claims : Reward(c) = Reward(d) => c = d
    /\ \A o, q \in Orders : \A s : Recharge(o) # Grant(q, s)
    /\ \A o \in Orders, c \in Claims : Recharge(o) # Reward(c)
    /\ \A o \in Orders, c \in Claims : \A s : Grant(o, s) # Reward(c)
    /\ \A o \in Orders : Recharge(o) # Gift
    /\ \A o \in Orders : \A s : Grant(o, s) # Gift
    /\ \A c \in Claims : Reward(c) # Gift
<1>1. \A c, d \in Claims : Reward(c) = Reward(d) => c = d
    BY DEF Claims, Reward
<1> QED
    BY <1>1 DEF Recharge, Grant, Reward, Gift

(***************************************************************************)
(* What a transaction that is about to commit adds to the ledger, kind by  *)
(* kind; and nothing of it is there yet.                                   *)
(***************************************************************************)
LEMMA Written ==
    ASSUME IInv, NEW h \in Handlers, step[h] = "written"
    PROVE  /\ \A q \in Orders :
                  /\ Recharge(q) \in draft[h].rows <=> task[h].type = "paid" /\ q = task[h].of /\ ~IsMonthly(q)
                  /\ \A period : Grant(q, period) \in draft[h].rows <=> Opens(h, q) /\ period = task[h].period
           /\ \A c \in Claims :
                  Reward(c) \in draft[h].rows <=> task[h].type = "paid" /\ c \in Rewards(task[h].of) \ claims
           /\ \A r \in draft[h].rows : ~BagIn(r, ledger)
<1>i. TypeOK /\ TaskInv /\ RowsInv /\ DraftInv
    BY DEF IInv
<1> DEFINE o == task[h].of
           new == {Reward(c) : c \in Rewards(o) \ claims}
<1> DEFINE Recharges == \A q \in Orders :
                  Recharge(q) \in draft[h].rows <=> task[h].type = "paid" /\ q = o /\ ~IsMonthly(q)
           Grants == \A q \in Orders : \A period :
                  Grant(q, period) \in draft[h].rows <=> Opens(h, q) /\ period = task[h].period
           Given == \A c \in Claims :
                  Reward(c) \in draft[h].rows <=> task[h].type = "paid" /\ c \in Rewards(o) \ claims
           Fresh == \A r \in draft[h].rows : ~BagIn(r, ledger)
<1> SUFFICES Recharges /\ Grants /\ Given /\ Fresh
    OBVIOUS
<1>1. draft[h].rows = CreditRow(h) \cup (IF task[h].type = "paid" THEN new ELSE {})
    BY <1>i DEF DraftInv, Drafted, DraftOK, DraftRows
<1>2. task[h].type \in {"view", "gift", "paid", "grant"}
    BY <1>i DEF TaskInv, Fits, Sound, TypeOK, Tasks
<1>3. CASE task[h].type = "paid"
    <2>1. o \in Orders /\ o \notin Paid /\ orders[o].status = "pending" /\ task[h].period \in Periods
        BY <1>i, <1>3, PaidTask DEF Paid
    <2>2. Rewards(o) \subseteq Claims \ {<<First, Buyer>>}
        BY <1>i, <2>1, Placed
    <2>3. \A c \in Rewards(o) \ claims : ~BagIn(Reward(c), ledger)
        BY <1>i, <2>2 DEF RowsInv
    <2>4. \A q \in Orders : Opens(h, q) <=> q = o /\ IsMonthly(o)
        BY <1>3, <2>1 DEF Opens
    <2>5. draft[h].rows = CreditRow(h) \cup new
        BY <1>1, <1>3
    <2>6. CASE IsMonthly(o)
        <3>1. draft[h].rows = {Grant(o, task[h].period)} \cup new
            BY <1>3, <2>5, <2>6 DEF CreditRow
        <3>2. ~BagIn(Grant(o, task[h].period), ledger)
            BY <1>i, <2>1 DEF RowsInv
        <3>3. Recharges
            BY <1>3, <2>1, <2>2, <2>3, <2>4, <2>6, <3>1, <3>2, Distinct
        <3>4. Grants
            BY <1>3, <2>1, <2>2, <2>3, <2>4, <2>6, <3>1, <3>2, Distinct
        <3>5. Given
            BY <1>3, <2>1, <2>2, <2>3, <2>4, <2>6, <3>1, <3>2, Distinct
        <3>6. Fresh
            BY <1>3, <2>1, <2>2, <2>3, <2>4, <2>6, <3>1, <3>2, Distinct
        <3> QED
            BY <3>3, <3>4, <3>5, <3>6
    <2>7. CASE ~IsMonthly(o)
        <3>1. draft[h].rows = {Recharge(o)} \cup new
            BY <1>3, <2>5, <2>7 DEF CreditRow
        <3>2. ~BagIn(Recharge(o), ledger)
            BY <1>i, <2>1 DEF RowsInv
        <3>3. Recharges
            BY <1>3, <2>1, <2>2, <2>3, <2>4, <2>7, <3>1, <3>2, Distinct
        <3>4. Grants
            BY <1>3, <2>1, <2>2, <2>3, <2>4, <2>7, <3>1, <3>2, Distinct
        <3>5. Given
            BY <1>3, <2>1, <2>2, <2>3, <2>4, <2>7, <3>1, <3>2, Distinct
        <3>6. Fresh
            BY <1>3, <2>1, <2>2, <2>3, <2>4, <2>7, <3>1, <3>2, Distinct
        <3> QED
            BY <3>3, <3>4, <3>5, <3>6
    <2> QED
        BY <2>6, <2>7
<1>4. CASE task[h].type = "grant"
    <2>1. draft[h].rows = {Grant(o, task[h].period)}
        BY <1>1, <1>4 DEF CreditRow
    <2>2. o \in Orders /\ ~BagIn(Grant(o, task[h].period), ledger)
        BY <1>i, <1>4, PeriodTask DEF TaskInv, Fits, Sound
    <2>3. \A q \in Orders : Opens(h, q) <=> q = o
        BY <1>4 DEF Opens
    <2>4. Recharges
        BY <1>4, <2>1, <2>2, <2>3, Distinct
    <2>5. Grants
        BY <1>4, <2>1, <2>2, <2>3, Distinct
    <2>6. Given
        BY <1>4, <2>1, <2>2, <2>3, Distinct
    <2>7. Fresh
        BY <1>4, <2>1, <2>2, <2>3, Distinct
    <2> QED
        BY <2>4, <2>5, <2>6, <2>7
<1>5. CASE task[h].type \in {"view", "gift"}
    <2>1. draft[h].rows \subseteq {Gift} /\ (Gift \in draft[h].rows => ~BagIn(Gift, ledger))
        BY <1>1, <1>5 DEF CreditRow
    <2>2. \A q \in Orders : ~Opens(h, q)
        BY <1>5 DEF Opens
    <2>3. Recharges
        BY <1>5, <2>1, <2>2, Distinct
    <2>4. Grants
        BY <1>5, <2>1, <2>2, Distinct
    <2>5. Given
        BY <1>5, <2>1, <2>2, Distinct
    <2>6. Fresh
        BY <1>5, <2>1, <2>2, Distinct
    <2> QED
        BY <2>3, <2>4, <2>5, <2>6
<1> QED
    BY <1>2, <1>3, <1>4, <1>5

\* What committing adds to the ledger.
LEMMA Committed ==
    ASSUME IInv, NEW h \in Handlers, Commit(h)
    PROVE  /\ IsABag(ledger) /\ step[h] = "written"
           /\ \A r : BagIn(r, ledger') <=> BagIn(r, ledger) \/ r \in draft[h].rows
           /\ \A r \in BagToSet(ledger') : \/ r \in BagToSet(ledger) /\ ledger'[r] = ledger[r]
                                           \/ ledger'[r] = 1
<1> USE DEF IInv
<1>1. IsABag(ledger) /\ step[h] = "written" /\ ledger' = ledger (+) SetToBag(draft[h].rows)
    BY DEF Commit, TypeOK
<1>2. \A r \in draft[h].rows : r \notin BagToSet(ledger)
    BY <1>1, Written DEF BagIn
<1> QED
    BY <1>1, <1>2, AddToBag

-----------------------------------------------------------------------------
\* Only a commit writes what others see, but for the order that is placed.
LEMMA OnlyCommitWrites ==
    ASSUME [Next]_vars
    PROVE  \/ \E h \in Handlers : Commit(h)
           \/ /\ UNCHANGED <<subs, claims, ledger, tier>>
              /\ \/ UNCHANGED orders
                 \/ \E h \in Handlers, o \in Orders : PlaceOrder(h, o)
<1>1. ASSUME Tick \/ UNCHANGED vars PROVE UNCHANGED <<orders, subs, claims, ledger, tier>>
    BY <1>1 DEF Tick, vars
<1>2. ASSUME NEW h \in Handlers, NEW o \in Orders, PlaceOrder(h, o)
      PROVE  UNCHANGED <<subs, claims, ledger, tier>>
    BY <1>2 DEF PlaceOrder
<1>3. ASSUME NEW h \in Handlers, NEW p \in Packages, AskForOrder(h, p)
      PROVE  UNCHANGED <<orders, subs, claims, ledger, tier>>
    BY <1>3 DEF AskForOrder
<1>4. ASSUME NEW h \in Handlers, NEW o \in Orders, CallbackBegin(h, o) \/ PeriodBegin(h, o)
      PROVE  UNCHANGED <<orders, subs, claims, ledger, tier>>
    BY <1>4 DEF CallbackBegin, PeriodBegin
<1>5. ASSUME NEW h \in Handlers, ReadClaims(h) \/ AccountBegin(h) \/ LockAccount(h) \/ Reconcile(h)
      PROVE  UNCHANGED <<orders, subs, claims, ledger, tier>>
    BY <1>5 DEF ReadClaims, AccountBegin, LockAccount, Reconcile
<1>6. ASSUME NEW h \in Handlers, CreditPack(h) \/ CreditPeriod(h)
      PROVE  UNCHANGED <<orders, subs, claims, ledger, tier>>
    BY <1>6 DEF CreditPack, CreditPeriod
<1>7. ASSUME NEW h \in Handlers, CreditGift(h) \/ Promote(h)
      PROVE  UNCHANGED <<orders, subs, claims, ledger, tier>>
    <2>1. PICK rows, claimed : GrantMore(h, rows, claimed)
        BY <1>7, ZenonT(30) DEF CreditGift, Promote
    <2> QED
        BY <2>1 DEF GrantMore
<1>8. ASSUME NEW h \in Handlers, Fail(h) PROVE UNCHANGED <<orders, subs, claims, ledger, tier>>
    BY <1>8 DEF Fail
<1> QED
    BY <1>1, <1>2, <1>3, <1>4, <1>5, <1>6, <1>7, <1>8 DEF Next

-----------------------------------------------------------------------------
LEMMA OnceNext == ASSUME IInv, [Next]_vars PROVE CreditedOnce'
<1> USE DEF IInv
<1>1. CASE UNCHANGED ledger
    BY <1>1 DEF CreditedOnce, BagToSet
<1>2. ASSUME NEW h \in Handlers, Commit(h) PROVE CreditedOnce'
    BY <1>2, Committed DEF CreditedOnce
<1>3. UNCHANGED ledger \/ \E h \in Handlers : Commit(h)
    BY OnlyCommitWrites
<1> QED
    BY <1>1, <1>2, <1>3

-----------------------------------------------------------------------------
\* A step that commits nothing places at most one order.
LEMMA Uncommitted ==
    ASSUME TypeOK, [Next]_vars, \A h \in Handlers : ~Commit(h)
    PROVE  /\ UNCHANGED <<subs, claims, ledger, tier>>
           /\ \A o \in Orders :
                 \/ orders'[o] = orders[o]
                 \/ orders[o] = NoOrder /\ orders'[o].status = "pending"
<1>1. UNCHANGED orders \/ \E h \in Handlers, o \in Orders : PlaceOrder(h, o)
    BY OnlyCommitWrites
<1>2. UNCHANGED <<subs, claims, ledger, tier>>
    BY OnlyCommitWrites
<1>3. ASSUME NEW h \in Handlers, NEW o \in Orders, PlaceOrder(h, o)
      PROVE  /\ orders[o] = NoOrder /\ orders'[o].status = "pending"
             /\ \A q \in Orders \ {o} : orders'[q] = orders[q]
    <2> DEFINE p == task[h].package
    <2>1. PICK applied, rewards : orders' = [orders EXCEPT ![o] =
              [status |-> "pending", package |-> p, applied |-> applied, rewards |-> rewards]]
        BY <1>3 DEF PlaceOrder
    <2>2. orders[o] = NoOrder
        BY <1>3 DEF PlaceOrder
    <2> HIDE DEF p
    <2> QED
        BY <2>1, <2>2 DEF TypeOK
<1>4. \A o \in Orders : \/ orders'[o] = orders[o]
                        \/ orders[o] = NoOrder /\ orders'[o].status = "pending"
    BY <1>1, <1>3
<1> QED
    BY <1>2, <1>4

\* What committing does to the orders and to the subscriptions.
LEMMA CommittedRows ==
    ASSUME IInv, NEW h \in Handlers, Commit(h)
    PROVE  /\ \A q \in Orders :
                  /\ orders'[q] = (IF task[h].type = "paid" /\ q = task[h].of
                                   THEN [orders[q] EXCEPT !.status = "paid"] ELSE orders[q])
                  /\ IsMonthly(q)' <=> IsMonthly(q)
                  /\ Rewards(q)' = Rewards(q) /\ Discounts(q)' = Discounts(q)
                  /\ q \in Paid' <=> q \in Paid \/ (task[h].type = "paid" /\ q = task[h].of)
                  /\ orders'[q].package = orders[q].package
           /\ \A q \in Orders :
                  /\ subs'[q].status # "none" <=> subs[q].status # "none" \/ Opens(h, q)
                  /\ subs'[q].period = (IF Opens(h, q) THEN task[h].period ELSE subs[q].period)
           /\ subs' = draft[h].subs /\ claims' = draft[h].claims /\ tier' = draft[h].tier
<1>i. TypeOK /\ TaskInv /\ RowsInv /\ DraftInv
    BY DEF IInv
<1>1. task[h].type = "paid" => task[h].of \in Orders /\ orders[task[h].of].status = "pending"
    BY <1>i, PaidTask
<1>2. \A q \in Orders :
         orders'[q] = IF task[h].type = "paid" /\ q = task[h].of
                      THEN [orders[q] EXCEPT !.status = "paid"] ELSE orders[q]
    BY <1>i, <1>1 DEF Commit, TypeOK
<1>3. \A q \in Orders : orders[q].status = "pending" =>
             /\ [orders[q] EXCEPT !.status = "paid"].status = "paid"
             /\ [orders[q] EXCEPT !.status = "paid"].package = orders[q].package
             /\ [orders[q] EXCEPT !.status = "paid"].rewards = orders[q].rewards
             /\ [orders[q] EXCEPT !.status = "paid"].applied = orders[q].applied
    <2> TAKE q \in Orders
    <2> HAVE orders[q].status = "pending"
    <2>1. orders[q] \in OrderRows /\ orders[q] # NoOrder
        <3>1. orders[q] \in OrderRows
            BY <1>i DEF TypeOK
        <3>2. orders[q] # NoOrder
            BY DEF NoOrder
        <3> QED
            BY <3>1, <3>2
    <2>2. orders[q] \in [status : {"pending", "paid"}, package : Packages,
                        applied : SUBSET {First}, rewards : SUBSET (Rules \ {First})]
        BY <2>1 DEF OrderRows
    <2> QED
        BY <2>2
<1>4. \A q \in Orders :
         /\ orders'[q].package = orders[q].package
         /\ IsMonthly(q)' <=> IsMonthly(q)
         /\ q \in Paid' <=> q \in Paid \/ (task[h].type = "paid" /\ q = task[h].of)
    <2> TAKE q \in Orders
    <2>1. orders'[q].package = orders[q].package
        BY <1>1, <1>2, <1>3
    <2>2. orders'[q].status = "paid" <=>
              orders[q].status = "paid" \/ (task[h].type = "paid" /\ q = task[h].of)
        BY <1>1, <1>2, <1>3
    <2> QED
        BY <2>1, <2>2 DEF IsMonthly, Paid
<1>5. \A q \in Orders : Rewards(q)' = Rewards(q) /\ Discounts(q)' = Discounts(q)
    <2>1. \A q \in Orders : orders'[q].rewards = orders[q].rewards /\ orders'[q].applied = orders[q].applied
        BY <1>1, <1>2, <1>3
    <2> QED
        BY <2>1 DEF Rewards, Discounts, Claim
<1>6. subs' = draft[h].subs /\ claims' = draft[h].claims /\ tier' = draft[h].tier /\ step[h] = "written"
    BY DEF Commit
<1>7. \A q \in Orders :
         /\ subs'[q].status # "none" <=> subs[q].status # "none" \/ Opens(h, q)
         /\ subs'[q].period = (IF Opens(h, q) THEN task[h].period ELSE subs[q].period)
    <2>1. \A q \in Orders :
             subs[q].status = "active" =>
                 /\ [subs[q] EXCEPT !.status = "expired"].status = "expired"
                 /\ [subs[q] EXCEPT !.status = "expired"].period = subs[q].period
        BY <1>i DEF TypeOK, SubRows
    <2>2. DraftOK(h)
        BY <1>i, <1>6 DEF DraftInv, Drafted
    <2> QED
        BY <1>6, <2>1, <2>2 DEF DraftOK, DraftSubs
<1> QED
    BY <1>2, <1>4, <1>5, <1>6, <1>7

-----------------------------------------------------------------------------
LEMMA RowsNext == ASSUME IInv, [Next]_vars PROVE RowsInv'
<1>i. TypeOK /\ TaskInv /\ RowsInv /\ DraftInv
    BY DEF IInv
<1>1. CASE \A h \in Handlers : ~Commit(h)
    <2>1. /\ UNCHANGED <<subs, claims, ledger, tier>>
          /\ \A o \in Orders : \/ orders'[o] = orders[o]
                               \/ orders[o] = NoOrder /\ orders'[o].status = "pending"
        BY <1>i, <1>1, Uncommitted
    <2>2. \A o \in Orders : o \in Paid' <=> o \in Paid
        BY <2>1 DEF Paid, NoOrder
    <2>3. \A o \in Paid : /\ IsMonthly(o)' <=> IsMonthly(o)
                          /\ Rewards(o)' = Rewards(o) /\ Discounts(o)' = Discounts(o)
        BY <2>1 DEF Paid, NoOrder, IsMonthly, Rewards, Discounts, Claim
    <2>4. Paid' = Paid
        BY <2>2 DEF Paid
    <2>5. \A o \in Orders :
              /\ BagIn(Recharge(o), ledger)' <=> o \in Paid' /\ ~IsMonthly(o)'
              /\ subs'[o].status # "none" <=> o \in Paid' /\ IsMonthly(o)'
              /\ \A period \in Periods : BagIn(Grant(o, period), ledger)' => subs'[o].status # "none"
              /\ subs'[o].status # "none" => BagIn(Grant(o, subs[o].period), ledger)'
        BY <1>i, <2>1, <2>2, <2>3 DEF RowsInv, BagIn, BagToSet, Recharge, Grant
    <2>6. claims' = UNION {Rewards(o)' \cup Discounts(o)' : o \in Paid'}
        BY <1>i, <2>1, <2>3, <2>4 DEF RowsInv
    <2>7. \A c \in Claims : BagIn(Reward(c), ledger)' <=> c \in claims' /\ c # <<First, Buyer>>
        BY <1>i, <2>1 DEF RowsInv, BagIn, BagToSet, Reward
    <2> QED
        BY <2>5, <2>6, <2>7 DEF RowsInv, Claims, Rules
<1>2. ASSUME NEW h \in Handlers, Commit(h) PROVE RowsInv'
    <2> DEFINE o == task[h].of
               paid == task[h].type = "paid"
    <2>1. step[h] = "written" /\ \A r : BagIn(r, ledger') <=> BagIn(r, ledger) \/ r \in draft[h].rows
        BY <1>2, Committed
    <2>2. \A q \in Orders :
              /\ IsMonthly(q)' <=> IsMonthly(q)
              /\ Rewards(q)' = Rewards(q) /\ Discounts(q)' = Discounts(q)
              /\ q \in Paid' <=> q \in Paid \/ (paid /\ q = o)
              /\ subs'[q].status # "none" <=> subs[q].status # "none" \/ Opens(h, q)
              /\ subs'[q].period = (IF Opens(h, q) THEN task[h].period ELSE subs[q].period)
        BY <1>2, CommittedRows
    <2>3. /\ \A q \in Orders :
                 /\ Recharge(q) \in draft[h].rows <=> paid /\ q = o /\ ~IsMonthly(q)
                 /\ \A period : Grant(q, period) \in draft[h].rows <=> Opens(h, q) /\ period = task[h].period
          /\ \A c \in Claims : Reward(c) \in draft[h].rows <=> paid /\ c \in Rewards(o) \ claims
        BY <2>1, Written
    <2>4. \A q \in Orders : Opens(h, q) =>
              \/ paid /\ q = o /\ IsMonthly(q)
              \/ subs[q].status # "none"
        BY <1>i, <2>1 DEF Opens, TaskInv, Fits, Sound
    <2>5. paid => o \in Orders /\ (IsMonthly(o) => Opens(h, o))
        BY <1>i, PaidTask DEF Opens
    <2>6. \A q \in Orders :
              /\ BagIn(Recharge(q), ledger') <=> q \in Paid' /\ ~IsMonthly(q)'
              /\ subs'[q].status # "none" <=> q \in Paid' /\ IsMonthly(q)'
              /\ \A period \in Periods : BagIn(Grant(q, period), ledger') => subs'[q].status # "none"
              /\ subs'[q].status # "none" => BagIn(Grant(q, subs'[q].period), ledger')
        <3> TAKE q \in Orders
        <3>1. /\ BagIn(Recharge(q), ledger) <=> q \in Paid /\ ~IsMonthly(q)
              /\ subs[q].status # "none" <=> q \in Paid /\ IsMonthly(q)
              /\ \A period \in Periods : BagIn(Grant(q, period), ledger) => subs[q].status # "none"
              /\ subs[q].status # "none" => BagIn(Grant(q, subs[q].period), ledger)
            BY <1>i DEF RowsInv
        <3> HIDE DEF o, paid
        <3>2. BagIn(Recharge(q), ledger') <=> q \in Paid' /\ ~IsMonthly(q)'
            BY <2>1, <2>2, <2>3, <3>1
        <3>3. subs'[q].status # "none" <=> q \in Paid' /\ IsMonthly(q)'
            BY <2>2, <2>4, <2>5, <3>1
        <3>4. \A period \in Periods : BagIn(Grant(q, period), ledger') => subs'[q].status # "none"
            BY <2>1, <2>2, <2>3, <3>1
        <3>5. subs'[q].status # "none" => BagIn(Grant(q, subs'[q].period), ledger')
            BY <2>1, <2>2, <2>3, <3>1
        <3> QED
            BY <3>2, <3>3, <3>4, <3>5
    <2>7. claims' = IF paid THEN claims \cup Rewards(o) \cup Discounts(o) ELSE claims
        BY <1>i, <1>2, <2>1, CommittedRows DEF DraftInv, Drafted, DraftOK, DraftRows
    <2>8. claims' = UNION {Rewards(q)' \cup Discounts(q)' : q \in Paid'}
        <3>1. claims = UNION {Rewards(q) \cup Discounts(q) : q \in Paid}
            BY <1>i DEF RowsInv
        <3>2. Paid \subseteq Orders /\ Paid' \subseteq Orders
            BY DEF Paid
        <3> HIDE DEF o, paid
        <3>3. UNION {Rewards(q)' \cup Discounts(q)' : q \in Paid'} = UNION {Rewards(q) \cup Discounts(q) : q \in Paid'}
            BY <2>2, <3>2
        <3> QED
            BY <2>2, <2>5, <2>7, <3>1, <3>2, <3>3
    <2>9. \A c \in Claims : BagIn(Reward(c), ledger') <=> c \in claims' /\ c # <<First, Buyer>>
        <3>1. paid => /\ Rewards(o) \subseteq Claims \ {<<First, Buyer>>}
                      /\ Discounts(o) \subseteq {<<First, Buyer>>}
            BY <1>i, PaidTask, Placed
        <3>2. \A c \in Claims : BagIn(Reward(c), ledger) <=> c \in claims /\ c # <<First, Buyer>>
            BY <1>i DEF RowsInv
        <3> HIDE DEF o, paid
        <3> QED
            BY <2>1, <2>3, <2>7, <3>1, <3>2
    <2> QED
        BY <2>6, <2>8, <2>9 DEF RowsInv, Claims, Rules, Recharge, Grant, Reward
<1> QED
    BY <1>1, <1>2

LEMMA TierNext == ASSUME IInv, [Next]_vars PROVE TierHasSubscription'
<1>i. TypeOK /\ TaskInv /\ RowsInv /\ DraftInv /\ TierHasSubscription
    BY DEF IInv
<1>1. CASE \A h \in Handlers : ~Commit(h)
    <2>1. /\ UNCHANGED <<subs, claims, ledger, tier>>
          /\ \A o \in Orders : \/ orders'[o] = orders[o]
                               \/ orders[o] = NoOrder /\ orders'[o].status = "pending"
        BY <1>i, <1>1, Uncommitted
    <2>2. \A o \in Orders : subs[o].status = "active" => orders'[o] = orders[o]
        BY <1>i, <2>1 DEF RowsInv, Paid, NoOrder
    <2> QED
        BY <1>i, <2>1, <2>2 DEF TierHasSubscription
<1>2. ASSUME NEW h \in Handlers, Commit(h) PROVE TierHasSubscription'
    <2>1. /\ subs' = draft[h].subs /\ tier' = draft[h].tier
          /\ \A o \in Orders : orders'[o].package = orders[o].package
        BY <1>2, CommittedRows
    <2>2. DraftTier(h)
        BY <1>i, <1>2 DEF Commit, DraftInv, Drafted, DraftOK
    <2> QED
        BY <2>1, <2>2 DEF DraftTier, TierHasSubscription
<1> QED
    BY <1>1, <1>2

-----------------------------------------------------------------------------
LEMMA ApartIsSymmetric == ASSUME NEW t, NEW u, Apart(t, u) PROVE Apart(u, t)
BY DEF Apart

\* Without a task nothing is claimed.
LEMMA NoTask ==
    /\ Fits("idle", Idle) /\ Sound(Idle) /\ Sound(Idle)'
    /\ \A t : Apart(t, Idle) /\ Apart(Idle, t)
BY DEF Fits, Sound, Apart, Idle

(***************************************************************************)
(* A step that commits nothing and changes the task of one handler at      *)
(* most keeps TaskInv if the new task is one that no other handler has.    *)
(***************************************************************************)
LEMMA TaskKept ==
    ASSUME IInv, [Next]_vars, \A g \in Handlers : ~Commit(g), NEW h \in Handlers,
           \A g \in Handlers \ {h} : step'[g] = step[g] /\ task'[g] = task[g],
           Fits(step'[h], task'[h]), Sound(task'[h]),
           \A g \in Handlers \ {h} : Apart(task[g], task'[h])
    PROVE  TaskInv'
<1>i. TypeOK /\ TaskInv
    BY DEF IInv
<1>1. /\ UNCHANGED <<subs, ledger>>
      /\ \A o \in Orders : orders[o].status = "pending" => orders'[o].status = "pending"
    BY <1>i, Uncommitted DEF NoOrder
<1>2. \A g \in Handlers : Fits(step'[g], task'[g]) /\ Sound(task'[g])
    BY <1>i DEF TaskInv
<1>3. \A g \in Handlers : Sound(task[g])'
    BY <1>1, <1>2 DEF Sound, BagIn, BagToSet, Grant
<1>4. ASSUME NEW g \in Handlers, NEW k \in Handlers \ {g} PROVE Apart(task'[k], task'[g])
    <2>1. CASE g = h
        BY <2>1
    <2>2. CASE k = h
        BY <2>2, ApartIsSymmetric
    <2>3. CASE g # h /\ k # h
        BY <1>i, <2>3 DEF TaskInv
    <2> QED
        BY <2>1, <2>2, <2>3
<1>5. \A g \in Handlers : Fits(step[g], task[g])' /\ \A k \in Handlers \ {g} : Apart(task[k], task[g])'
    BY <1>2, <1>4 DEF Fits, Apart
<1> QED
    BY <1>3, <1>5 DEF TaskInv

LEMMA TaskNext == ASSUME IInv, [Next]_vars PROVE TaskInv'
<1>i. TypeOK /\ TaskInv
    BY DEF IInv
<1>1. CASE UNCHANGED vars \/ Tick
    <2>1. UNCHANGED <<orders, subs, ledger, step, task>>
        BY <1>1 DEF vars, Tick
    <2> QED
        BY <1>i, <2>1 DEF TaskInv, Fits, Sound, Apart, BagIn, BagToSet, Grant
<1>2. ASSUME NEW h \in Handlers, Commit(h) PROVE TaskInv'
    <2>1. task' = [task EXCEPT ![h] = Idle] /\ step' = [step EXCEPT ![h] = "idle"]
        BY <1>2 DEF Commit, Leave, Goto
    <2>2. /\ task'[h] = Idle /\ step'[h] = "idle"
          /\ \A g \in Handlers \ {h} : task'[g] = task[g] /\ step'[g] = step[g]
        BY <1>i, <2>1 DEF TypeOK
    <2>3. ASSUME NEW g \in Handlers \ {h} PROVE Sound(task[g])'
        <3>1. Sound(task[g]) /\ Apart(task[h], task[g]) /\ task'[g] = task[g]
            BY <1>i, <2>2 DEF TaskInv
        <3>2. CASE task[g].type = "paid"
            <4>1. task[g].of \in Orders /\ orders[task[g].of].status = "pending"
                BY <3>1, <3>2 DEF Sound
            <4>2. orders'[task[g].of] = orders[task[g].of]
                BY <1>2, <3>1, <3>2, <4>1, CommittedRows DEF Apart
            <4> QED
                BY <3>1, <3>2, <4>1, <4>2 DEF Sound
        <3>3. CASE task[g].type = "grant"
            <4>1. /\ task[g].of \in Orders /\ subs[task[g].of].status # "none"
                  /\ ~BagIn(Grant(task[g].of, task[g].period), ledger)
                BY <1>i, <3>1, <3>3, PeriodTask DEF Sound
            <4>2. task[h].type = "paid" => task[h].of # task[g].of
                BY <1>i, <4>1 DEF IInv, RowsInv, Paid, TaskInv, Sound
            <4>3. ~(Opens(h, task[g].of) /\ task[g].period = task[h].period)
                BY <3>1, <3>3, <4>2 DEF Opens, Apart
            <4>4. step[h] = "written" /\ \A r : BagIn(r, ledger') <=> BagIn(r, ledger) \/ r \in draft[h].rows
                BY <1>2, Committed
            <4>5. Grant(task[g].of, task[g].period) \notin draft[h].rows
                BY <4>1, <4>3, <4>4, Written
            <4>6. subs'[task[g].of].status # "none" /\ ~BagIn(Grant(task[g].of, task[g].period), ledger')
                BY <1>2, <4>1, <4>4, <4>5, CommittedRows
            <4> QED
                BY <3>1, <3>3, <4>6 DEF Sound, BagIn, BagToSet, Grant
        <3> QED
            BY <3>1, <3>2, <3>3 DEF Sound
    <2>4. \A g \in Handlers : Sound(task[g])'
        BY <2>2, <2>3, NoTask DEF Sound
    <2>5. \A g \in Handlers : Fits(step'[g], task'[g])
        BY <1>i, <2>2, NoTask DEF TaskInv
    <2>6. \A g \in Handlers : \A k \in Handlers \ {g} : Apart(task'[k], task'[g])
        BY <1>i, <2>2, NoTask DEF TaskInv
    <2> QED
        BY <2>4, <2>5, <2>6 DEF TaskInv, Fits, Apart
<1>3. ASSUME NEW h \in Handlers, \E p \in Packages : AskForOrder(h, p),
             \A g \in Handlers : ~Commit(g) PROVE TaskInv'
    <2>1. PICK p : task' = [task EXCEPT ![h] = [type |-> "order", package |-> p, claimed |-> {}]]
        BY <1>3 DEF AskForOrder
    <2>2. step' = [step EXCEPT ![h] = "allowed"]
        BY <1>3 DEF AskForOrder, Goto
    <2>3. task'[h].type = "order" /\ step'[h] = "allowed"
        BY <1>i, <2>1, <2>2 DEF TypeOK
    <2>4. Fits(step'[h], task'[h]) /\ Sound(task'[h]) /\ \A g \in Handlers : Apart(task[g], task'[h])
        BY <2>3 DEF Fits, Sound, Apart
    <2> QED
        BY <1>i, <1>3, <2>1, <2>2, <2>4, TaskKept DEF TypeOK
<1>4. ASSUME NEW h \in Handlers, ReadClaims(h), \A g \in Handlers : ~Commit(g) PROVE TaskInv'
    <2>1. task[h] \in [type : {"order"}, package : Packages, claimed : SUBSET Rules]
        BY <1>4, <1>i DEF ReadClaims, TypeOK, TaskInv, Fits, Tasks
    <2>2. task'[h].type = "order" /\ step'[h] = "claims read"
        BY <1>4, <1>i, <2>1 DEF ReadClaims, Goto, TypeOK
    <2>3. Fits(step'[h], task'[h]) /\ Sound(task'[h]) /\ \A g \in Handlers : Apart(task[g], task'[h])
        BY <2>2 DEF Fits, Sound, Apart
    <2> QED
        BY <1>i, <1>4, <2>3, TaskKept DEF ReadClaims, Goto, TypeOK
<1>5. ASSUME NEW h \in Handlers, (\E o \in Orders : PlaceOrder(h, o)) \/ Fail(h),
             \A g \in Handlers : ~Commit(g) PROVE TaskInv'
    <2>1. task' = [task EXCEPT ![h] = Idle] /\ step' = [step EXCEPT ![h] = "idle"]
        BY <1>5 DEF PlaceOrder, Fail, Leave, Goto
    <2>2. task'[h] = Idle /\ step'[h] = "idle"
        BY <1>i, <2>1 DEF TypeOK
    <2> QED
        BY <1>i, <1>5, <2>1, <2>2, NoTask, TaskKept DEF TypeOK
<1>6. ASSUME NEW h \in Handlers, NEW o \in Orders, CallbackBegin(h, o),
             \A g \in Handlers : ~Commit(g) PROVE TaskInv'
    <2>1. /\ task' = [task EXCEPT ![h] =
                [type |-> "paid", of |-> o, period |-> IF IsMonthly(o) THEN Lasting(clock, Period) ELSE FirstPeriod]]
          /\ step' = [step EXCEPT ![h] = "begun"]
        BY <1>6 DEF CallbackBegin, Goto
    <2>2. task'[h].type = "paid" /\ task'[h].of = o /\ step'[h] = "begun"
        BY <1>i, <2>1 DEF TypeOK
    <2>3. /\ orders[o].status = "pending"
          /\ \A g \in Handlers : ~(task[g].type = "paid" /\ task[g].of = o)
        BY <1>6 DEF CallbackBegin
    <2>4. Fits(step'[h], task'[h]) /\ Sound(task'[h]) /\ \A g \in Handlers : Apart(task[g], task'[h])
        BY <2>2, <2>3 DEF Fits, Sound, Apart
    <2> QED
        BY <1>i, <1>6, <2>1, <2>4, TaskKept DEF TypeOK
<1>7. ASSUME NEW h \in Handlers, NEW o \in Orders, PeriodBegin(h, o),
             \A g \in Handlers : ~Commit(g) PROVE TaskInv'
    <2>1. PICK period : /\ PeriodFree(o, period)
                       /\ task' = [task EXCEPT ![h] = [type |-> "grant", of |-> o, period |-> period]]
        BY <1>7 DEF PeriodBegin
    <2>2. step' = [step EXCEPT ![h] = "begun"] /\ subs[o].status # "none"
        BY <1>7 DEF PeriodBegin, Goto
    <2>3. task'[h].type = "grant" /\ task'[h].of = o /\ task'[h].period = period /\ step'[h] = "begun"
        BY <1>i, <2>1, <2>2 DEF TypeOK
    <2>4. Fits(step'[h], task'[h]) /\ Sound(task'[h]) /\ \A g \in Handlers : Apart(task[g], task'[h])
        BY <2>1, <2>2, <2>3 DEF Fits, Sound, Apart, PeriodFree
    <2> QED
        BY <1>i, <1>7, <2>1, <2>2, <2>4, TaskKept DEF TypeOK
<1>8. ASSUME NEW h \in Handlers, AccountBegin(h), \A g \in Handlers : ~Commit(g) PROVE TaskInv'
    <2>1. PICK type \in {"view", "gift"} : task' = [task EXCEPT ![h] = [type |-> type]]
        BY <1>8 DEF AccountBegin
    <2>2. step' = [step EXCEPT ![h] = "begun"]
        BY <1>8 DEF AccountBegin, Goto
    <2>3. task'[h].type \in {"view", "gift"} /\ step'[h] = "begun"
        BY <1>i, <2>1, <2>2 DEF TypeOK
    <2>4. Fits(step'[h], task'[h]) /\ Sound(task'[h]) /\ \A g \in Handlers : Apart(task[g], task'[h])
        BY <2>3 DEF Fits, Sound, Apart
    <2> QED
        BY <1>i, <1>8, <2>1, <2>2, <2>4, TaskKept DEF TypeOK
<1>9. ASSUME NEW h \in Handlers, \A g \in Handlers : ~Commit(g),
             LockAccount(h) \/ Reconcile(h) \/ CreditPack(h) \/ CreditPeriod(h) \/ CreditGift(h) \/ Promote(h)
      PROVE  TaskInv'
    <2>1. /\ step[h] \in {"begun", "locked", "reconciled", "credited"} /\ UNCHANGED task
          /\ \E s \in {"locked", "reconciled", "credited", "written"} :
                 /\ step' = [step EXCEPT ![h] = s]
                 /\ s = "credited" => task[h].type = "paid"
        BY <1>9 DEF LockAccount, Reconcile, CreditPack, CreditPeriod, CreditGift, Promote, GrantMore, Goto
    <2>2. Fits(step[h], task[h]) /\ Sound(task[h]) /\ \A g \in Handlers \ {h} : Apart(task[g], task[h])
        BY <1>i DEF TaskInv
    <2>3. /\ step'[h] \in {"locked", "reconciled", "credited", "written"}
          /\ step'[h] = "credited" => task[h].type = "paid"
          /\ \A g \in Handlers \ {h} : step'[g] = step[g]
        BY <1>i, <2>1 DEF TypeOK
    <2>4. Fits(step'[h], task'[h])
        BY <2>1, <2>2, <2>3 DEF Fits
    <2> QED
        BY <1>9, <2>1, <2>2, <2>3, <2>4, TaskKept
<1> QED
    BY <1>1, <1>2, <1>3, <1>4, <1>5, <1>6, <1>7, <1>8, <1>9 DEF Next

-----------------------------------------------------------------------------
\* What a transaction has written stays right while others begin, place orders or fail.
LEMMA DraftStays ==
    ASSUME IInv, NEW g \in Handlers, step[g] \in Drafted,
           step'[g] = step[g], task'[g] = task[g], draft'[g] = draft[g],
           UNCHANGED <<subs, claims, ledger>>, clock' \in Int, clock <= clock',
           \A o \in Orders : \/ orders'[o] = orders[o]
                             \/ orders[o] = NoOrder /\ orders'[o].status = "pending"
    PROVE  DraftOK(g)'
<1>i. TypeOK /\ TaskInv /\ RowsInv /\ DraftInv
    BY DEF IInv
<1>1. DraftOK(g)
    BY <1>i DEF DraftInv
<1>2. \A o \in Orders : orders[o].status # "none" => orders'[o] = orders[o]
    BY DEF NoOrder
<1>3. task[g].type = "paid" => task[g].of \in Orders /\ orders'[task[g].of] = orders[task[g].of]
    BY <1>i, <1>2, PaidTask
<1>4. \A o \in Orders : Opens(g, o)' <=> Opens(g, o)
    BY <1>3 DEF Opens, IsMonthly
<1>5. \A o \in Orders : End(subs[o]) <= clock => End(subs[o]) <= clock'
    <2> TAKE o \in Orders
    <2>1. End(subs[o]) \in Int
        BY <1>i, EndIsInt DEF TypeOK
    <2>2. clock \in Int
        BY <1>i, Clock
    <2> QED
        BY <2>1, <2>2
<1>6. DraftSubs(g)'
    BY <1>1, <1>4, <1>5 DEF DraftOK, DraftSubs, End
<1>7. DraftTier(g)'
    <2>1. \A o \in Orders : draft[g].subs[o].status # "none" => orders'[o] = orders[o]
        BY <1>2, DraftOf
    <2>2. draft[g].tier # Free =>
              \E o \in Orders : draft[g].subs[o].status = "active" /\ orders'[o].package = draft[g].tier
        BY <1>1, <2>1 DEF DraftOK, DraftTier
    <2>3. \A o \in Orders : ~InForce(subs[o]) => ~InForce(subs[o])'
        <3> TAKE o \in Orders
        <3>1. End(subs[o]) \in Int /\ clock \in Int
            BY <1>i, EndIsInt, Clock DEF TypeOK
        <3>2. End(subs[o])' = End(subs[o])
            BY DEF End
        <3> QED
            BY <3>1, <3>2 DEF InForce
    <2> QED
        BY <1>1, <2>2, <2>3 DEF DraftOK, DraftTier, InForce, End
<1>8. DraftRows(g)'
    <2>1. BagIn(Gift, ledger)' <=> BagIn(Gift, ledger)
        BY DEF BagIn, BagToSet, Gift
    <2>2. CreditRow(g)' = CreditRow(g)
        BY <1>3, <2>1 DEF CreditRow, IsMonthly, Recharge, Grant, Gift
    <2>3. task[g].type = "paid" => Rewards(task[g].of)' = Rewards(task[g].of)
                                   /\ Discounts(task[g].of)' = Discounts(task[g].of)
        BY <1>3 DEF Rewards, Discounts, Claim
    <2>4. task[g].type = "paid" => {Reward(c) : c \in Rewards(task[g].of) \ claims}'
                                      = {Reward(c) : c \in Rewards(task[g].of) \ claims}
        BY <2>3 DEF Reward
    <2> QED
        BY <1>1, <2>2, <2>3, <2>4 DEF DraftOK, DraftRows
<1> QED
    BY <1>1, <1>4, <1>6, <1>7, <1>8 DEF DraftOK

\* A subscription in force is visible as it is, however the visible ones lapse.
LEMMA StillInForce ==
    ASSUME TypeOK, NEW ss \in [Orders -> SubRows], NEW t \in Tiers(Lapse(ss)),
           \A o \in Orders : ss[o].status # "none" => orders[o].package \in Monthly,
           \A o \in Orders : InForce(subs[o]) => ss[o] = subs[o]
    PROVE  /\ t # Free => \E o \in Orders : Lapse(ss)[o].status = "active" /\ orders[o].package = t
           /\ t = Free => \A o \in Orders : ~InForce(subs[o])
<1> DEFINE lapsed == Lapse(ss)
<1>1. \A o \in Orders : InForce(subs[o]) => lapsed[o] = subs[o]
    BY LapseOf
<1>0. \A o \in Orders : lapsed[o].status # "none" => orders[o].package \in Monthly
    BY LapseOf
<1>2. t \in Tiers(lapsed)
    OBVIOUS
<1> HIDE DEF lapsed
<1>3. /\ t # Free => \E o \in Orders : lapsed[o].status = "active" /\ orders[o].package = t
      /\ t = Free => \A o \in Orders : ~InForce(lapsed[o])
    BY <1>0, <1>2, TiersOf
<1>4. t = Free => \A o \in Orders : ~InForce(subs[o])
    BY <1>1, <1>3
<1> QED
    BY <1>3, <1>4 DEF lapsed

\* The order of a task that opens a subscription has none yet.
LEMMA OpensNew ==
    ASSUME IInv, NEW h \in Handlers, task[h].type = "paid", NEW o \in Orders, Opens(h, o)
    PROVE  subs[o].status = "none"
<1>1. orders[o].status = "pending"
    BY PaidTask DEF IInv, Opens
<1> QED
    BY <1>1 DEF IInv, RowsInv, Paid

-----------------------------------------------------------------------------
LEMMA DraftReconciled == ASSUME IInv, NEW h \in Handlers, Reconcile(h) PROVE DraftOK(h)'
<1>i. TypeOK /\ TaskInv /\ RowsInv /\ DraftInv
    BY DEF IInv
<1> DEFINE seen == Visible(h)
           ss == Lapse(seen)
<1>1. PICK t \in Tiers(ss) :
          draft' = [draft EXCEPT ![h] = [subs |-> ss, tier |-> t, claims |-> claims, rows |-> {}]]
    BY DEF Reconcile
<1>2. /\ draft'[h].subs = ss /\ draft'[h].tier = t /\ draft'[h].claims = claims /\ draft'[h].rows = {}
      /\ step'[h] = "reconciled"
    BY <1>i, <1>1 DEF Reconcile, Goto, TypeOK
<1>3. UNCHANGED <<clock, orders, subs, claims, ledger, task>>
    BY DEF Reconcile
<1>4. /\ seen \in [Orders -> SubRows]
      /\ \A o \in Orders : seen[o].status # "none" => orders[o].package \in Monthly
    BY VisibleOf
<1>5. \A o \in Orders : Opens(h, o)' <=> task[h].type = "paid" /\ task[h].of = o /\ IsMonthly(o)
    BY <1>2, <1>3 DEF Opens, IsMonthly
<1>6. \A o \in Orders :
          IF Opens(h, o)' THEN seen[o] = Active(task[h].period) /\ subs[o].status = "none"
                          ELSE seen[o] = subs[o]
    <2>1. \A o \in Orders : Opens(h, o)' => subs[o].status = "none"
        BY <1>5, OpensNew DEF Opens
    <2> QED
        BY <1>i, <1>5, <2>1 DEF Visible, TypeOK
<1>7. \A o \in Orders :
          /\ ss[o].period = seen[o].period /\ (ss[o].status # "none" <=> seen[o].status # "none")
          /\ \/ ss[o] = seen[o]
             \/ /\ seen[o].status = "active" /\ End(seen[o]) <= clock
                /\ ss[o] = [seen[o] EXCEPT !.status = "expired"]
    BY <1>i, <1>4, LapseOf
<1> HIDE DEF seen
<1>8. DraftSubs(h)'
    BY <1>2, <1>3, <1>6, <1>7 DEF DraftSubs, End
<1>9. DraftTier(h)'
    <2>1. \A o \in Orders : InForce(subs[o]) => seen[o] = subs[o]
        BY <1>6 DEF InForce
    <2>2. /\ t # Free => \E o \in Orders : ss[o].status = "active" /\ orders[o].package = t
          /\ t = Free => \A o \in Orders : ~InForce(subs[o])
        BY <1>i, <1>4, <2>1, StillInForce
    <2> QED
        BY <1>2, <1>3, <2>2 DEF DraftTier, InForce, End
<1>10. DraftRows(h)'
    BY <1>2, <1>3 DEF DraftRows
<1>11. \A o \in Orders : Opens(h, o)' => draft'[h].subs[o].status # "none" /\ draft'[h].subs[o].period = task'[h].period
    <2> TAKE o \in Orders
    <2> HAVE Opens(h, o)'
    <2> HIDE DEF ss
    <2>1. seen[o] = Active(task[h].period)
        BY <1>6
    <2>2. seen[o].status # "none" /\ seen[o].period = task[h].period
        BY <2>1 DEF Active
    <2> QED
        BY <1>2, <1>3, <1>7, <2>2
<1> QED
    BY <1>8, <1>9, <1>10, <1>11 DEF DraftOK

LEMMA DraftPack == ASSUME IInv, NEW h \in Handlers, CreditPack(h) PROVE DraftOK(h)'
<1>i. TypeOK /\ TaskInv /\ RowsInv /\ DraftInv
    BY DEF IInv
<1>1. /\ step[h] = "reconciled" /\ UNCHANGED <<clock, orders, subs, claims, ledger, task>>
      /\ task[h].type = "paid"
    BY DEF CreditPack
<1>2. DraftOK(h)
    BY <1>i, <1>1 DEF DraftInv, Drafted
<1>3. draft[h].claims = claims /\ draft[h].rows = {}
    BY <1>1, <1>2 DEF DraftOK, DraftRows
<1>4. /\ draft'[h].subs = draft[h].subs /\ draft'[h].tier = draft[h].tier /\ draft'[h].claims = claims
      /\ draft'[h].rows = CreditRow(h) /\ step'[h] = "credited"
    <2>1. CreditRow(h) = {Recharge(task[h].of)}
        BY DEF CreditPack, CreditRow
    <2> QED
        BY <1>i, <1>3, <2>1 DEF CreditPack, Goto, TypeOK, Drafts
<1>5. \A o \in Orders : Opens(h, o)' <=> Opens(h, o)
    BY <1>1, <1>4 DEF Opens, IsMonthly
<1>6. DraftSubs(h)' /\ DraftTier(h)'
    BY <1>1, <1>2, <1>4, <1>5 DEF DraftOK, DraftSubs, DraftTier, End, InForce
<1>7. CreditRow(h)' = CreditRow(h)
    BY <1>1 DEF CreditRow, IsMonthly, Recharge, Grant, Gift, BagIn, BagToSet
<1>8. DraftRows(h)'
    BY <1>1, <1>4, <1>7 DEF DraftRows
<1> QED
    BY <1>1, <1>2, <1>4, <1>5, <1>6, <1>8 DEF DraftOK

LEMMA DraftPeriod == ASSUME IInv, NEW h \in Handlers, CreditPeriod(h) PROVE DraftOK(h)'
<1>i. TypeOK /\ TaskInv /\ RowsInv /\ DraftInv
    BY DEF IInv
<1> DEFINE o == task[h].of
           period == task[h].period
           paid == task[h].type = "paid"
<1>1. /\ step[h] = "reconciled" /\ UNCHANGED <<clock, orders, subs, claims, ledger, task>>
      /\ task[h].type = "grant" \/ (paid /\ IsMonthly(o))
    BY DEF CreditPeriod
<1>2. DraftOK(h)
    BY <1>i, <1>1 DEF DraftInv, Drafted
<1>3. draft[h].claims = claims /\ draft[h].rows = {}
    BY <1>1, <1>2 DEF DraftOK, DraftRows
<1>4. o \in Orders /\ draft[h] \in Drafts
    BY <1>i, <1>1, PaidTask, PeriodTask DEF TypeOK
<1>5. /\ draft'[h].subs = [draft[h].subs EXCEPT ![o] = Active(period)]
      /\ draft'[h].tier = (IF paid THEN orders[o].package ELSE draft[h].tier)
      /\ draft'[h].claims = claims /\ draft'[h].rows = {Grant(o, period)}
      /\ step'[h] = (IF paid THEN "credited" ELSE "written")
    BY <1>i, <1>3, <1>4 DEF CreditPeriod, Goto, TypeOK, Drafts
<1>6. /\ draft'[h].subs[o] = Active(period)
      /\ \A q \in Orders \ {o} : draft'[h].subs[q] = draft[h].subs[q]
    BY <1>4, <1>5 DEF Drafts
<1>7. \A q \in Orders : Opens(h, q)' <=> q = o
    BY <1>1, <1>5 DEF Opens, IsMonthly
<1>8. DraftSubs(h)'
    <2>1. \A q \in Orders \ {o} : ~Opens(h, q)
        BY DEF Opens
    <2> QED
        BY <1>1, <1>2, <1>6, <1>7, <2>1 DEF DraftOK, DraftSubs, End
<1>9. DraftTier(h)'
    <2>1. CASE paid
        <3>1. draft'[h].tier = orders[o].package /\ orders[o].package \in Monthly
            BY <1>1, <1>5, <2>1 DEF IsMonthly
        <3> QED
            BY <1>1, <1>4, <1>6, <3>1, ConstantsAssumption DEF DraftTier, Active
    <2>2. CASE ~paid
        <3>1. draft'[h].tier = draft[h].tier
            BY <1>5, <2>2
        <3> QED
            BY <1>1, <1>2, <1>4, <1>6, <3>1 DEF DraftOK, DraftTier, Active, InForce, End
    <2> QED
        BY <2>1, <2>2
<1>10. DraftRows(h)'
    <2>1. CreditRow(h)' = {Grant(o, period)}
        BY <1>1 DEF CreditRow, IsMonthly, Grant
    <2> QED
        BY <1>1, <1>5, <2>1 DEF DraftRows
<1>11. \A q \in Orders : Opens(h, q)' => draft'[h].subs[q].status # "none" /\ draft'[h].subs[q].period = task'[h].period
    BY <1>1, <1>6, <1>7 DEF Active
<1> QED
    BY <1>8, <1>9, <1>10, <1>11 DEF DraftOK

\* After more points, the written subscriptions and the tier are right as before.
LEMMA DraftMore ==
    ASSUME IInv, NEW h \in Handlers, step[h] \in Drafted, task[h].type # "grant",
           NEW rows, NEW claimed, GrantMore(h, rows, claimed), DraftRows(h)'
    PROVE  DraftOK(h)'
<1>i. TypeOK /\ TaskInv /\ RowsInv /\ DraftInv
    BY DEF IInv
<1> DEFINE written == draft[h].subs
           ss == draft'[h].subs
<1>1. UNCHANGED <<clock, orders, subs, claims, ledger, task>>
    BY MoreOf
<1>2. DraftOK(h)
    BY <1>i DEF DraftInv
<1>3. written \in [Orders -> SubRows]
    BY DraftOf
<1>4. \A q \in Orders : Opens(h, q)' <=> Opens(h, q)
    BY <1>1 DEF Opens, IsMonthly
<1>5. \A q \in Orders :
          /\ Lapse(written)[q].period = written[q].period
          /\ Lapse(written)[q].status # "none" <=> written[q].status # "none"
          /\ \/ Lapse(written)[q] = written[q]
             \/ /\ written[q].status = "active" /\ End(written[q]) <= clock
                /\ Lapse(written)[q] = [written[q] EXCEPT !.status = "expired"]
    BY <1>i, <1>3, LapseOf
<1>6. \A q \in Orders :
          /\ ss[q].period = written[q].period /\ (ss[q].status # "none" <=> written[q].status # "none")
          /\ \/ ss[q] = written[q]
             \/ /\ written[q].status = "active" /\ End(written[q]) <= clock
                /\ ss[q] = [written[q] EXCEPT !.status = "expired"]
    <2>1. ss = written \/ ss = Lapse(written)
        BY MoreOf
    <2> HIDE DEF ss, written
    <2> QED
        BY <1>5, <2>1
<1>7. \A q \in Orders :
          \/ written[q] = subs[q]
          \/ /\ subs[q].status = "active" /\ End(subs[q]) <= clock
             /\ written[q] = [subs[q] EXCEPT !.status = "expired"]
          \/ Opens(h, q) /\ subs[q].status = "none"
    <2>1. \A q \in Orders : Opens(h, q) => subs[q].status = "none"
        BY OpensNew DEF Opens
    <2> QED
        BY <1>2, <2>1 DEF DraftOK, DraftSubs
<1>8. DraftSubs(h)'
    <2>1. \A q \in Orders : subs[q].status = "active" => [subs[q] EXCEPT !.status = "expired"].status = "expired"
        <3> TAKE q \in Orders
        <3>1. subs[q] \in SubRows
            BY <1>i DEF TypeOK
        <3> QED
            BY <3>1 DEF SubRows
    <2> HIDE DEF ss, written
    <2>2. \A q \in Orders :
              \/ ss[q] = subs[q]
              \/ /\ subs[q].status = "active" /\ End(subs[q]) <= clock
                 /\ ss[q] = [subs[q] EXCEPT !.status = "expired"]
              \/ Opens(h, q)
        BY <1>6, <1>7, <2>1
    <2> QED
        BY <1>1, <1>4, <2>2 DEF DraftSubs, End, ss
<1>9. DraftTier(h)'
    <2>1. \A q \in Orders : InForce(subs[q]) => written[q] = subs[q]
        <3> TAKE q \in Orders
        <3>1. End(subs[q]) \in Int /\ clock \in Int
            BY <1>i, EndIsInt, Clock DEF TypeOK
        <3> HIDE DEF written
        <3> HAVE InForce(subs[q])
        <3>2. subs[q].status = "active" /\ ~(End(subs[q]) <= clock)
            BY <3>1 DEF InForce
        <3> QED
            BY <1>7, <3>2
    <2>2. CASE rows = {}
        <3>1. draft'[h].subs = draft[h].subs /\ draft'[h].tier = draft[h].tier
            BY <2>2, MoreOf
        <3> QED
            BY <1>1, <1>2, <3>1 DEF DraftOK, DraftTier, InForce, End
    <2>3. CASE rows # {}
        <3> DEFINE t == draft'[h].tier
        <3>1. ss = Lapse(written) /\ t \in Tiers(Lapse(written))
            BY <2>3, MoreOf
        <3>2. \A q \in Orders : written[q].status # "none" => orders[q].package \in Monthly
            BY DraftOf
        <3> HIDE DEF ss, written, t
        <3>3. /\ t # Free => \E q \in Orders : ss[q].status = "active" /\ orders[q].package = t
              /\ t = Free => \A q \in Orders : ~InForce(subs[q])
            BY <1>i, <1>3, <2>1, <3>1, <3>2, StillInForce
        <3> QED
            BY <1>1, <3>3 DEF DraftTier, InForce, End, ss, t
    <2> QED
        BY <2>2, <2>3
<1>10. \A q \in Orders : Opens(h, q)' => draft'[h].subs[q].status # "none" /\ draft'[h].subs[q].period = task'[h].period
    BY <1>1, <1>2, <1>4, <1>6 DEF DraftOK
<1> QED
    BY <1>8, <1>9, <1>10 DEF DraftOK

LEMMA DraftGift == ASSUME IInv, NEW h \in Handlers, CreditGift(h) PROVE DraftOK(h)'
<1>i. TypeOK /\ TaskInv /\ RowsInv /\ DraftInv
    BY DEF IInv
<1> DEFINE rows == IF task[h].type = "gift" /\ ~BagIn(Gift, ledger) THEN {Gift} ELSE {}
<1>1. /\ step[h] = "reconciled" /\ step[h] \in Drafted /\ task[h].type \in {"gift", "view"}
      /\ GrantMore(h, rows, {})
    BY DEF CreditGift, Drafted
<1>2. draft[h].claims = claims /\ draft[h].rows = {}
    BY <1>i, <1>1 DEF DraftInv, DraftOK, DraftRows
<1>3. CreditRow(h) = rows
    BY <1>1 DEF CreditRow
<1> HIDE DEF rows
<1>4. /\ draft'[h].claims = claims /\ draft'[h].rows = CreditRow(h) /\ step'[h] = "written"
      /\ UNCHANGED <<clock, orders, subs, claims, ledger, task>>
    <2>1. /\ draft'[h].claims = draft[h].claims \cup {} /\ draft'[h].rows = draft[h].rows \cup rows
          /\ step'[h] = "written"
          /\ UNCHANGED <<clock, orders, subs, claims, ledger, task>>
        BY <1>1, MoreOf
    <2> QED
        BY <1>2, <1>3, <2>1
<1>5. CreditRow(h)' = CreditRow(h)
    BY <1>4 DEF CreditRow, IsMonthly, Recharge, Grant, Gift, BagIn, BagToSet
<1>6. DraftRows(h)'
    BY <1>1, <1>4, <1>5 DEF DraftRows
<1> QED
    BY <1>1, <1>6, DraftMore

LEMMA DraftPromoted == ASSUME IInv, NEW h \in Handlers, Promote(h) PROVE DraftOK(h)'
<1>i. TypeOK /\ TaskInv /\ RowsInv /\ DraftInv
    BY DEF IInv
<1> DEFINE o == task[h].of
           new == Rewards(o) \ draft[h].claims
           given == {Reward(c) : c \in new}
<1>1. /\ step[h] = "credited" /\ step[h] \in Drafted /\ task[h].type = "paid"
      /\ GrantMore(h, given, new \cup Discounts(o))
    BY <1>i DEF Promote, Drafted, TaskInv, Fits
<1>2. draft[h].claims = claims /\ draft[h].rows = CreditRow(h)
    BY <1>i, <1>1 DEF DraftInv, DraftOK, DraftRows
<1> HIDE DEF given, o
<1>3. /\ draft'[h].claims = claims \cup Rewards(o) \cup Discounts(o)
      /\ draft'[h].rows = CreditRow(h) \cup given /\ step'[h] = "written"
      /\ UNCHANGED <<clock, orders, subs, claims, ledger, task>>
    <2> DEFINE claimed == new \cup Discounts(o)
    <2>1. claims \cup claimed = claims \cup Rewards(o) \cup Discounts(o)
        BY <1>2
    <2> HIDE DEF claimed
    <2>2. GrantMore(h, given, claimed)
        BY <1>1 DEF claimed
    <2>3. /\ draft'[h].claims = draft[h].claims \cup claimed /\ draft'[h].rows = draft[h].rows \cup given
          /\ step'[h] = "written"
          /\ UNCHANGED <<clock, orders, subs, claims, ledger, task>>
        BY <1>1, <2>2, MoreOf
    <2> QED
        BY <1>2, <2>1, <2>3
<1>4. CreditRow(h)' = CreditRow(h)
    BY <1>3 DEF CreditRow, IsMonthly, Recharge, Grant, Gift, BagIn, BagToSet
<1>5. Rewards(o)' = Rewards(o) /\ Discounts(o)' = Discounts(o)
    BY <1>3 DEF Rewards, Discounts, Claim, o
<1>6. {Reward(c) : c \in Rewards(o) \ claims}' = given
    BY <1>2, <1>3, <1>5 DEF Reward, given, o
<1>7. DraftRows(h)'
    BY <1>1, <1>3, <1>4, <1>5, <1>6 DEF DraftRows, o
<1> QED
    BY <1>1, <1>7, DraftMore

LEMMA DraftNext == ASSUME IInv, [Next]_vars PROVE DraftInv'
<1>i. TypeOK /\ TaskInv /\ RowsInv /\ DraftInv
    BY DEF IInv
<1>1. clock \in Int /\ clock' \in Int
    <2>1. TypeOK'
        BY TypeNext
    <2>2. clock' \in 0 .. MaxClock
        BY <2>1 DEF TypeOK
    <2> QED
        BY <1>i, <2>2, Clock
<1>2. CASE UNCHANGED vars \/ Tick
    <2>1. UNCHANGED <<orders, subs, claims, ledger, step, task, draft>> /\ clock <= clock'
        BY <1>1, <1>2 DEF vars, Tick
    <2>2. ASSUME NEW g \in Handlers, step[g] \in Drafted PROVE DraftOK(g)'
        <3>1. /\ step'[g] = step[g] /\ task'[g] = task[g] /\ draft'[g] = draft[g]
              /\ UNCHANGED <<subs, claims, ledger>> /\ clock <= clock'
            BY <2>1
        <3>2. \A o \in Orders : \/ orders'[o] = orders[o]
                                \/ orders[o] = NoOrder /\ orders'[o].status = "pending"
            BY <2>1
        <3> QED
            BY <1>1, <2>2, <3>1, <3>2, DraftStays
    <2> QED
        BY <2>1, <2>2 DEF DraftInv, Drafted
<1>3. ASSUME NEW h \in Handlers, Commit(h) PROVE DraftInv'
    <2>1. lock = h /\ \A g \in Handlers \ {h} : step[g] \notin Holding
        BY <1>i, <1>3, OneHolder DEF Commit, Holding
    <2>2. \A g \in Handlers : step'[g] \notin Drafted
        BY <1>i, <1>3, <2>1 DEF Commit, Leave, Goto, TypeOK, Holding, Drafted
    <2> QED
        BY <2>2 DEF DraftInv, Drafted
<1>4. ASSUME NEW h \in Handlers, \A g \in Handlers : ~Commit(g), UNCHANGED clock,
             \A g \in Handlers \ {h} : step'[g] = step[g] /\ task'[g] = task[g] /\ draft'[g] = draft[g],
             step'[h] \in Drafted => DraftOK(h)'
      PROVE  DraftInv'
    <2>1. /\ UNCHANGED <<subs, claims, ledger>>
          /\ \A o \in Orders : \/ orders'[o] = orders[o]
                               \/ orders[o] = NoOrder /\ orders'[o].status = "pending"
        BY <1>i, <1>4, Uncommitted
    <2>2. ASSUME NEW g \in Handlers \ {h}, step[g] \in Drafted PROVE DraftOK(g)'
        <3>1. /\ step'[g] = step[g] /\ task'[g] = task[g] /\ draft'[g] = draft[g]
              /\ g \in Handlers /\ clock <= clock'
            BY <1>1, <1>4
        <3>2. UNCHANGED <<subs, claims, ledger>>
            BY <2>1
        <3>3. \A o \in Orders : \/ orders'[o] = orders[o]
                                \/ orders[o] = NoOrder /\ orders'[o].status = "pending"
            BY <2>1
        <3> QED
            BY <1>1, <2>2, <3>1, <3>2, <3>3, DraftStays
    <2> QED
        BY <1>4, <2>2 DEF DraftInv, Drafted
<1>5. ASSUME NEW h \in Handlers, \A g \in Handlers : ~Commit(g),
             \/ \E p \in Packages : AskForOrder(h, p)
             \/ \E o \in Orders : PlaceOrder(h, o) \/ CallbackBegin(h, o) \/ PeriodBegin(h, o)
             \/ ReadClaims(h) \/ AccountBegin(h) \/ LockAccount(h)
      PROVE  DraftInv'
    <2>1. /\ \E s \in {"idle", "allowed", "claims read", "begun", "locked"} : step' = [step EXCEPT ![h] = s]
          /\ UNCHANGED <<clock, draft>>
        BY <1>5 DEF AskForOrder, PlaceOrder, CallbackBegin, PeriodBegin, ReadClaims, AccountBegin, LockAccount, Goto
    <2>2. \A g \in Handlers \ {h} : step'[g] = step[g] /\ task'[g] = task[g]
        BY <1>i, <1>5, <2>1
           DEF AskForOrder, PlaceOrder, CallbackBegin, PeriodBegin, ReadClaims, AccountBegin, LockAccount, TypeOK
    <2>3. step'[h] \notin Drafted
        BY <1>i, <2>1 DEF TypeOK, Drafted
    <2> QED
        BY <1>4, <1>5, <2>1, <2>2, <2>3
<1>6. ASSUME NEW h \in Handlers, \A g \in Handlers : ~Commit(g), Fail(h) PROVE DraftInv'
    <2>1. /\ step'[h] = "idle" /\ UNCHANGED clock
          /\ \A g \in Handlers \ {h} : step'[g] = step[g] /\ task'[g] = task[g] /\ draft'[g] = draft[g]
        BY <1>i, <1>6 DEF Fail, Leave, Goto, TypeOK
    <2> QED
        BY <1>4, <1>6, <2>1 DEF Drafted
<1>7. ASSUME NEW h \in Handlers, \A g \in Handlers : ~Commit(g),
             Reconcile(h) \/ CreditPack(h) \/ CreditPeriod(h) \/ CreditGift(h) \/ Promote(h)
      PROVE  DraftInv'
    <2>1. DraftOK(h)'
        BY <1>7, DraftReconciled, DraftPack, DraftPeriod, DraftGift, DraftPromoted
    <2>2. UNCHANGED <<clock, task>> /\ \E s : step' = [step EXCEPT ![h] = s]
        BY <1>7 DEF Reconcile, CreditPack, CreditPeriod, CreditGift, Promote, GrantMore, Goto
    <2>3. \A g \in Handlers \ {h} : draft'[g] = draft[g]
        BY <1>i, <1>7 DEF Reconcile, CreditPack, CreditPeriod, CreditGift, Promote, GrantMore, TypeOK
    <2>4. \A g \in Handlers \ {h} : step'[g] = step[g]
        BY <1>i, <2>2 DEF TypeOK
    <2> QED
        BY <1>4, <1>7, <2>1, <2>2, <2>3, <2>4
<1> QED
    BY <1>2, <1>3, <1>5, <1>6, <1>7 DEF Next

-----------------------------------------------------------------------------
LEMMA InvInit == Init => IInv
<1> SUFFICES ASSUME Init PROVE IInv
    OBVIOUS
<1>1. TypeOK
    BY TypeInit
<1>2. /\ \A o \in Orders : orders[o].status = "none" /\ subs[o].status = "none"
      /\ \A h \in Handlers : step[h] = "idle" /\ task[h] = Idle
      /\ claims = {} /\ tier = Free
    BY DEF Init, NoOrder, NoSub
<1>3. BagToSet(ledger) = {}
    BY DEF Init, EmptyBag, SetToBag, BagToSet
<1>4. \A r : ~BagIn(r, ledger)
    BY <1>3 DEF BagIn
<1>5. Paid = {}
    BY <1>2 DEF Paid
<1>6. TaskInv
    BY <1>2, NoTask DEF TaskInv
<1>7. RowsInv
    BY <1>2, <1>4, <1>5 DEF RowsInv
<1>8. DraftInv
    BY <1>2 DEF DraftInv, Drafted
<1>9. CreditedOnce /\ TierHasSubscription
    BY <1>2, <1>3 DEF CreditedOnce, TierHasSubscription
<1> QED
    BY <1>1, <1>6, <1>7, <1>8, <1>9 DEF IInv

(***************************************************************************)
(* The inductive invariant holds: no interleaving of callbacks, grants,    *)
(* orders and views of the account breaks what a handler relies on when    *)
(* it holds the row of the account.                                        *)
(***************************************************************************)
THEOREM Invariant == Spec => []IInv
<1>1. IInv /\ [Next]_vars => IInv'
    BY TypeNext, TaskNext, RowsNext, DraftNext, OnceNext, TierNext DEF IInv
<1> QED
    BY <1>1, InvInit, PTL DEF Spec

\* Types, and the lock: whoever writes on an account holds its row.
THEOREM TypeCorrect == Spec => []TypeOK
<1>1. IInv => TypeOK
    BY DEF IInv
<1> QED
    BY <1>1, Invariant, PTL

\* No recharge, reward, period or sign-up gift is credited twice.
THEOREM CreditsAreUnique == Spec => []CreditedOnce
<1>1. IInv => CreditedOnce
    BY DEF IInv
<1> QED
    BY <1>1, Invariant, PTL

\* The ledger, the claims and the subscriptions are what the paid orders promised.
THEOREM PromisesAreKept == Spec => []PaidForExactly
<1>1. IInv => PaidForExactly
    <2> SUFFICES ASSUME IInv PROVE PaidForExactly
        OBVIOUS
    <2>1. RowsInv /\ BagToSet(ledger) \subseteq Refs /\ claims \subseteq Claims
        BY DEF IInv, TypeOK
    <2>2. \A r \in BagToSet(ledger) : r[1] = "promotion_reward" => \E c \in Claims : r = Reward(c)
        BY <2>1 DEF Refs, Recharge, Grant, Gift
    <2>3. \A c \in Claims : Reward(c)[1] = "promotion_reward"
        BY DEF Reward
    <2>4. {r \in BagToSet(ledger) : r[1] = "promotion_reward"} = {Reward(c) : c \in claims \ {<<First, Buyer>>}}
        BY <2>1, <2>2, <2>3 DEF RowsInv, BagIn
    <2> QED
        BY <2>1, <2>4 DEF RowsInv, PaidForExactly
<1> QED
    BY <1>1, Invariant, PTL

\* A user with the tier of a package has a subscription to it.
THEOREM TierIsBacked == Spec => []TierHasSubscription
<1>1. IInv => TierHasSubscription
    BY DEF IInv
<1> QED
    BY <1>1, Invariant, PTL

\* Nobody loses the tier of a subscription that is in force.
THEOREM NoEarlyDemotion == Spec => DemotedOnlyWhenLapsed
<1>1. IInv /\ [Next]_vars => [tier' = Free /\ tier # Free => \A o \in Orders : ~InForce(subs[o])]_vars
    <2> SUFFICES ASSUME IInv, [Next]_vars, tier' = Free, tier # Free
                 PROVE  \A o \in Orders : ~InForce(subs[o])
        OBVIOUS
    <2>1. PICK h \in Handlers : Commit(h)
        BY Uncommitted DEF IInv
    <2>2. step[h] = "written" /\ draft[h].tier = Free
        BY <2>1 DEF Commit
    <2> QED
        BY <2>2 DEF IInv, DraftInv, Drafted, DraftOK, DraftTier
<1> QED
    BY <1>1, Invariant, PTL DEF Spec, DemotedOnlyWhenLapsed

-----------------------------------------------------------------------------
(***************************************************************************)
(* The sum of packs that are paid.  TotalOf is Total of any order table,   *)
(* so that what is shown of it holds before and after a step.              *)
(***************************************************************************)
TotalOf(table, os) == MapThenSumSet(LAMBDA o : Price[table[o].package], os)
PacksOf(table) == {o \in Orders : table[o].status = "paid" /\ table[o].package \notin Monthly}

\* Total adds up prices in the order of CHOOSE; any sum of them comes to the same.
LEMMA TotalIsSum ==
    ASSUME NEW S, IsFiniteSet(S), NEW v \in [S -> Nat], NEW sum, IsSum(sum, S, v),
           NEW table, NEW T \in SUBSET S, \A o \in T : v[o] = Price[table[o].package]
    PROVE  TotalOf(table, T) = sum[T]
<1> DEFINE some(s) == CHOOSE x \in s : TRUE
           Adds(it) == it = [s \in SUBSET T |-> IF s = {} THEN 0
                                ELSE Price[table[some(s)].package] + it[s \ {some(s)}]]
           total == CHOOSE it : Adds(it)
<1>1. TotalOf(table, T) = total[T]
    BY DEF TotalOf, MapThenSumSet, MapThenFoldSet
<1>2. ASSUME NEW s \in SUBSET T, s # {}
      PROVE  some(s) \in s /\ s \ {some(s)} \in SUBSET T
    BY <1>2
<1> HIDE DEF some
<1>3. ASSUME NEW s \in SUBSET T, s # {}
      PROVE  sum[s] = Price[table[some(s)].package] + sum[s \ {some(s)}]
    <2>1. some(s) \in s /\ s \in SUBSET S
        BY <1>2, <1>3
    <2>2. sum[s] = sum[s \ {some(s)}] + v[some(s)]
        BY <2>1 DEF IsSum
    <2>3. v[some(s)] = Price[table[some(s)].package] /\ v[some(s)] \in Nat /\ sum[s \ {some(s)}] \in Int
        BY <2>1 DEF IsSum
    <2> QED
        BY <2>2, <2>3
<1>4. Adds([s \in SUBSET T |-> sum[s]])
    <2> DEFINE it == [s \in SUBSET T |-> sum[s]]
    <2>1. sum[{}] = 0
        BY DEF IsSum
    <2>2. \A s \in SUBSET T : it[s] = IF s = {} THEN 0 ELSE Price[table[some(s)].package] + it[s \ {some(s)}]
        BY <1>2, <1>3, <2>1
    <2> HIDE DEF it
    <2>3. it = [s \in SUBSET T |-> it[s]]
        BY DEF it
    <2>4. Adds(it)
        BY <2>2, <2>3
    <2> QED
        BY <2>4 DEF it
<1>5. Adds(total)
    <2> HIDE DEF Adds
    <2> QED
        BY <1>4
<1> HIDE DEF total
<1> DEFINE agree == {s \in SUBSET T : total[s] = sum[s]}
<1>6. ASSUME NEW s \in SUBSET T, \A r \in SUBSET s : r # s => r \in agree PROVE s \in agree
    <2>1. CASE s = {}
        BY <1>5, <2>1 DEF IsSum
    <2>2. CASE s # {}
        <3>1. s \ {some(s)} \in agree
            BY <1>2, <1>6, <2>2
        <3>2. total[s] = Price[table[some(s)].package] + total[s \ {some(s)}]
            BY <1>5, <2>2
        <3> QED
            BY <1>3, <2>2, <3>1, <3>2
    <2> QED
        BY <2>1, <2>2
<1>7. IsFiniteSet(T)
    BY FS_Subset
<1> HIDE DEF agree
<1>8. SUBSET T \subseteq agree
    BY <1>6, <1>7, EverySubset
<1> QED
    BY <1>1, <1>8 DEF agree

\* What the total of some packs is when there are more of them, or one more.
LEMMA TotalOfMore ==
    ASSUME NEW table, NEW next, NEW T \in SUBSET Orders, NEW S \in SUBSET T,
           \A o \in S : table[o].package = next[o].package,
           \A o \in T : next[o].package \in Packs
    PROVE  /\ TotalOf(table, S) \in Nat /\ TotalOf(next, T) \in Nat
           /\ TotalOf(table, S) <= TotalOf(next, T)
           /\ \A o \in T \ S : T = S \cup {o} =>
                 TotalOf(next, T) = TotalOf(table, S) + Price[next[o].package]
<1> DEFINE v == [o \in T |-> Price[next[o].package]]
<1>1. IsFiniteSet(T)
    BY ConstantsAssumption, FS_Subset
<1>2. v \in [T -> Nat]
    BY ConstantsAssumption
<1>3. PICK sum : IsSum(sum, T, v)
    <2> HIDE DEF v
    <2> QED
        BY <1>1, <1>2, SumExists
<1>4. \A o \in T : v[o] = Price[next[o].package]
    OBVIOUS
<1>5. \A o \in S : v[o] = Price[table[o].package]
    OBVIOUS
<1> HIDE DEF v
<1>6. TotalOf(next, T) = sum[T] /\ TotalOf(table, S) = sum[S]
    BY <1>1, <1>2, <1>3, <1>4, <1>5, TotalIsSum
<1>7. sum[S] <= sum[T] /\ sum[S] \in Nat /\ sum[T] \in Nat
    <2>1. sum[{}] <= sum[S] /\ sum[S] <= sum[T]
        BY <1>1, <1>2, <1>3, SumGrows
    <2>2. sum[{}] = 0 /\ sum[S] \in Int /\ sum[T] \in Int
        BY <1>3 DEF IsSum
    <2> QED
        BY <2>1, <2>2
<1>8. ASSUME NEW o \in T \ S, T = S \cup {o} PROVE sum[T] = sum[S] + v[o]
    <2>1. T \ {o} = S
        BY <1>8
    <2> QED
        BY <1>3, <2>1 DEF IsSum
<1> QED
    BY <1>4, <1>6, <1>7, <1>8

\* An order that promises a cumulative reward is the one that takes the sum across its threshold,
\* once it is paid itself.
Earned(table, o) ==
    \A rule \in table[o].rewards \cap Cumulative :
        table[o].package \in Packs /\ TotalOf(table, PacksOf(table) \cup {o}) >= Threshold[rule]

EarnedInv == \A o \in Orders : orders[o] # NoOrder => Earned(orders, o)

LEMMA TotalSame ==
    ASSUME TypeOK
    PROVE  PaidTotal = TotalOf(orders, PacksOf(orders))
<1>1. {o \in Paid : ~IsMonthly(o)} = PacksOf(orders)
    BY DEF PacksOf, Paid, IsMonthly
<1>2. PaidTotal = TotalOf(orders, {o \in Paid : ~IsMonthly(o)})
    BY DEF PaidTotal, Total, TotalOf, MapThenSumSet, MapThenFoldSet
<1> QED
    BY <1>1, <1>2

\* Orders that are placed keep what they were placed for, and orders that are paid stay paid.
LEMMA OrdersStay ==
    ASSUME IInv, [Next]_vars, NEW o \in Orders, orders[o] # NoOrder
    PROVE  /\ orders'[o] # NoOrder /\ orders'[o].package = orders[o].package
           /\ orders'[o].rewards = orders[o].rewards
           /\ orders[o].status = "paid" => orders'[o].status = "paid"
<1> USE DEF IInv
<1>1. CASE \A h \in Handlers : ~Commit(h)
    <2>1. orders'[o] = orders[o]
        BY <1>1, Uncommitted
    <2> QED
        BY <2>1
<1>2. ASSUME NEW h \in Handlers, Commit(h) PROVE
           /\ orders'[o] # NoOrder /\ orders'[o].package = orders[o].package
           /\ orders'[o].rewards = orders[o].rewards
           /\ orders[o].status = "paid" => orders'[o].status = "paid"
    <2>1. orders'[o] = (IF task[h].type = "paid" /\ o = task[h].of
                                   THEN [orders[o] EXCEPT !.status = "paid"] ELSE orders[o])
        BY <1>2, CommittedRows
    <2>2. orders[o] \in OrderRows
        BY DEF TypeOK
    <2>3. orders[o] \in [status : {"pending", "paid"}, package : Packages,
                    applied : SUBSET {First}, rewards : SUBSET (Rules \ {First})]
        BY <2>2 DEF OrderRows
    <2> QED
        BY <2>1, <2>3 DEF NoOrder
<1> QED
    BY <1>1, <1>2

\* A promise was true when the order was placed, and packs that are paid only add to it.
LEMMA EarnedNext == ASSUME IInv, EarnedInv, [Next]_vars PROVE EarnedInv'
<1> SUFFICES ASSUME NEW o \in Orders, orders'[o] # NoOrder, NEW rule \in orders'[o].rewards \cap Cumulative
             PROVE  /\ orders'[o].package \in Packs
                    /\ TotalOf(orders', PacksOf(orders') \cup {o}) >= Threshold[rule]
    BY DEF EarnedInv, Earned
<1> DEFINE before == PacksOf(orders) \cup {o}
           after == PacksOf(orders') \cup {o}
<1>1. TypeOK /\ TypeOK' /\ Threshold[rule] \in Nat
    BY TypeNext, ConstantsAssumption DEF IInv
<1>2. PacksOf(orders) \subseteq PacksOf(orders')
    <2> SUFFICES ASSUME NEW q \in PacksOf(orders) PROVE q \in PacksOf(orders')
        OBVIOUS
    <2>1. q \in Orders /\ orders[q] # NoOrder /\ orders[q].status = "paid" /\ orders[q].package \notin Monthly
        BY DEF PacksOf, NoOrder
    <2>2. orders'[q].package = orders[q].package /\ orders'[q].status = "paid"
        BY <2>1, OrdersStay
    <2> QED
        BY <2>1, <2>2 DEF PacksOf
<1>3. \A q \in PacksOf(orders) : orders[q].package = orders'[q].package
    <2>1. \A q \in PacksOf(orders) : q \in Orders /\ orders[q] # NoOrder
        BY DEF PacksOf, NoOrder
    <2> QED
        BY <2>1, OrdersStay
<1>4. \A q \in PacksOf(orders') : orders'[q].package \in Packs /\ q \in Orders
    <2> SUFFICES ASSUME NEW q \in PacksOf(orders') PROVE orders'[q].package \in Packs /\ q \in Orders
        OBVIOUS
    <2>1. q \in Orders /\ orders'[q].status = "paid" /\ orders'[q].package \notin Monthly
        BY DEF PacksOf
    <2>2. orders'[q] \in OrderRows
        BY <1>1, <2>1 DEF TypeOK
    <2> QED
        BY <2>1, <2>2 DEF OrderRows, NoOrder, Packages
<1>5. CASE orders[o] # NoOrder
    <2>1. orders'[o].package = orders[o].package /\ rule \in orders[o].rewards \cap Cumulative
        BY <1>5, OrdersStay
    <2>2. TotalOf(orders, before) >= Threshold[rule]
        BY <1>5, <2>1 DEF EarnedInv, Earned
    <2>3. orders'[o].package \in Packs
        BY <1>5, <2>1 DEF EarnedInv, Earned
    <2>4. after \in SUBSET Orders /\ before \in SUBSET after
        BY <1>2, <1>4
    <2>5. /\ \A q \in before : orders[q].package = orders'[q].package
          /\ \A q \in after : orders'[q].package \in Packs
        BY <1>3, <1>4, <2>1, <2>3
    <2> HIDE DEF before, after
    <2>6. TotalOf(orders, before) <= TotalOf(orders', after) /\ TotalOf(orders', after) \in Nat /\ TotalOf(orders, before) \in Nat
        BY <2>4, <2>5, TotalOfMore
    <2> QED
        BY <1>1, <2>2, <2>3, <2>6 DEF after
<1>6. CASE orders[o] = NoOrder
    <2>1. PICK h \in Handlers : PlaceOrder(h, o)
        <3>1. ASSUME NEW h \in Handlers, Commit(h) PROVE FALSE
            <4>1. /\ orders'[o] = (IF task[h].type = "paid" /\ o = task[h].of
                                   THEN [orders[o] EXCEPT !.status = "paid"] ELSE orders[o])
                  /\ task[h].type = "paid" => orders[task[h].of].status = "pending"
                BY <3>1, CommittedRows, PaidTask DEF IInv
            <4> QED
                BY <1>6, <4>1 DEF NoOrder
        <3>2. \A q \in Orders, h \in Handlers : PlaceOrder(h, q) /\ q # o => orders'[o] = orders[o]
            <4> SUFFICES ASSUME NEW q \in Orders, NEW h \in Handlers, PlaceOrder(h, q), q # o
                         PROVE  orders'[o] = orders[o]
                OBVIOUS
            <4>1. \E row : orders' = [orders EXCEPT ![q] = row]
                BY DEF PlaceOrder
            <4> QED
                BY <1>1, <4>1 DEF TypeOK
        <3>3. orders' # orders
            BY <1>6
        <3> QED
            BY <1>6, <3>1, <3>2, <3>3
               DEF Next, vars, Tick, AskForOrder, ReadClaims, CallbackBegin, PeriodBegin, AccountBegin,
                   LockAccount, Reconcile, CreditPack, CreditPeriod, CreditGift, Promote, GrantMore, Fail
    <2> DEFINE p == task[h].package
    <2>2. PICK applied, rewards :
              /\ orders' = [orders EXCEPT ![o] =
                    [status |-> "pending", package |-> p, applied |-> applied, rewards |-> rewards]]
              /\ rewards = IF p \in Packs
                           THEN {r \in Cumulative \ task[h].claimed : Crossed(p, r)}
                                  \cup {r \in {Single} : p \in Bonused}
                           ELSE {}
        BY <2>1 DEF PlaceOrder
    <2>3. /\ orders'[o] = [status |-> "pending", package |-> p, applied |-> applied, rewards |-> rewards]
          /\ \A q \in Orders \ {o} : orders'[q] = orders[q]
        <3> HIDE DEF p
        <3> QED
            BY <1>1, <2>2 DEF TypeOK
    <2>4. orders'[o].package = p /\ p \in Packs /\ Crossed(p, rule)
        BY <2>2, <2>3, ConstantsAssumption
    <2>5. PacksOf(orders') = PacksOf(orders) /\ o \notin PacksOf(orders)
        BY <1>6, <2>3 DEF PacksOf, NoOrder
    <2>6. Threshold[rule] <= PaidTotal + Price[p]
        BY <2>4 DEF Crossed
    <2>7. after \in SUBSET Orders /\ PacksOf(orders) \in SUBSET after /\ o \in after \ PacksOf(orders)
          /\ after = PacksOf(orders) \cup {o}
        BY <1>2, <1>4, <2>5
    <2>8. \A q \in after : orders'[q].package \in Packs
        BY <1>4, <2>4
    <2> HIDE DEF after, p
    <2>9. TotalOf(orders', after) = TotalOf(orders, PacksOf(orders)) + Price[p]
        BY <1>3, <2>4, <2>7, <2>8, TotalOfMore
    <2> QED
        BY <1>1, <2>4, <2>6, <2>9, TotalSame DEF after
<1> QED
    BY <1>5, <1>6

LEMMA EarnedInit == Init => EarnedInv
BY DEF Init, EarnedInv, NoOrder

\* A cumulative reward is only paid out to a buyer whose paid purchases come to its threshold.
THEOREM RewardsAreEarned == Spec => []RewardIsEarned
<1>1. IInv /\ EarnedInv => RewardIsEarned
    <2> SUFFICES ASSUME IInv, EarnedInv, NEW rule \in Cumulative, BagIn(Reward(<<rule, Buyer>>), ledger)
                 PROVE  PaidTotal >= Threshold[rule]
        BY DEF RewardIsEarned
    <2>1. <<rule, Buyer>> \in claims /\ TypeOK
        <3>1. <<rule, Buyer>> \in Claims
            BY DEF Claims, Rules
        <3> QED
            BY <3>1 DEF IInv, RowsInv
    <2>2. PICK o \in Paid : <<rule, Buyer>> \in Rewards(o) \cup Discounts(o)
        BY <2>1 DEF IInv, RowsInv
    <2>3. o \in Orders /\ orders[o].status = "paid" /\ orders[o] # NoOrder
        BY <2>2 DEF Paid, NoOrder
    <2>4. rule \in orders[o].rewards
        <3>1. rule # First /\ Buyer # o
            BY <2>3, ConstantsAssumption
        <3>2. Discounts(o) \subseteq {<<First, Buyer>>}
            BY <2>1, <2>3, Placed
        <3> QED
            BY <2>2, <3>1, <3>2 DEF Rewards, Claim
    <2>5. orders[o].package \in Packs /\ TotalOf(orders, PacksOf(orders) \cup {o}) >= Threshold[rule]
        BY <2>3, <2>4 DEF EarnedInv, Earned
    <2>6. PacksOf(orders) \cup {o} = PacksOf(orders)
        BY <2>3, <2>5, ConstantsAssumption DEF PacksOf
    <2> QED
        BY <2>1, <2>5, <2>6, TotalSame
<1> QED
    BY <1>1, InvInit, EarnedInit, Invariant, EarnedNext, PTL DEF Spec
=============================================================================
