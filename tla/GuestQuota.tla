------------------------------ MODULE GuestQuota ------------------------------
(***************************************************************************)
(* The daily points of a guest (domains/billing/service.py, 1247 to 1313,  *)
(* domains/billing/quotas.py, and the charges and refunds of               *)
(* api/internal_routes.py).  The first request of a day sets the balance   *)
(* to the quota; charges and refunds correct what the day has consumed.    *)
(*                                                                         *)
(* A transaction locks the row of the account with its first statement, so *)
(* there is one at a time.  It asks for the date twice, when it looks for  *)
(* the quota of the day and when it corrects the consumption, and midnight *)
(* may come in between.                                                    *)
(***************************************************************************)
EXTENDS Integers

CONSTANTS
    Quota,      \* GUEST_DAILY_POINTS
    Amounts,    \* points of a charge, a refund or a grant
    MaxDay, MaxBalance   \* bounds: the last day, and how far gifts and refunds go

Days == 0 .. MaxDay
NoRow == -1

\* What is used of the constants: points and bounds are numbers.
Bounds == Quota \in Nat /\ Amounts \subseteq Nat /\ MaxDay \in Nat

VARIABLES
    day,        \* _current_quota_date
    balance,    \* app.user_credit_account.balance_points
    consumed,   \* app.daily_credit_quota_state: consumed_points, or NoRow
    resets,     \* ledger entries of type daily_quota_reset, for each date
    beyond,     \* history: what raised the balance since the last reset
                \*   without lowering the consumption
    tx          \* the open transaction

vars == <<day, balance, consumed, resets, beyond, tx>>

\* What the database gives back when the transaction fails.
Saved == [balance |-> balance, consumed |-> consumed, resets |-> resets, beyond |-> beyond]
Idle == [step |-> "idle"]
Larger(a, b) == IF a > b THEN a ELSE b

Init ==
    /\ day = 0 /\ balance = 0 /\ beyond = 0
    /\ consumed = [d \in Days |-> NoRow]
    /\ resets = [d \in Days |-> 0]
    /\ tx = Idle

Midnight ==
    /\ day < MaxDay
    /\ day' = day + 1
    /\ UNCHANGED <<balance, consumed, resets, beyond, tx>>

-----------------------------------------------------------------------------
\* Charges and views apply the quota of the day first; refunds and grants do not.
Begin(kind, p) ==
    /\ tx = Idle
    /\ kind \in {"refund", "grant"} => balance + p <= MaxBalance /\ beyond + p <= MaxBalance
    /\ tx' = [step |-> IF kind \in {"charge", "view"} THEN "apply" ELSE "move",
              kind |-> kind, points |-> p, saved |-> Saved]
    /\ UNCHANGED <<day, balance, consumed, resets, beyond>>

\* _apply_guest_daily_quota_if_needed: the balance is set, up or down; the
\* ledger records a difference, the table the date.
ApplyQuota ==
    /\ tx.step = "apply"
    /\ IF consumed[day] # NoRow
       THEN UNCHANGED <<balance, consumed, resets, beyond>>
       ELSE /\ balance' = Quota
            /\ resets' = IF balance = Quota THEN resets ELSE [resets EXCEPT ![day] = @ + 1]
            /\ consumed' = [consumed EXCEPT ![day] = 0]
            /\ beyond' = 0
    /\ tx' = IF tx.kind = "view" THEN Idle ELSE [tx EXCEPT !.step = "move"]
    /\ UNCHANGED day

Move ==
    /\ tx.step = "move"
    /\ tx.kind = "charge" => tx.points <= balance
    /\ balance' = IF tx.kind = "charge" THEN balance - tx.points ELSE balance + tx.points
    /\ beyond' = IF tx.kind = "grant" THEN beyond + tx.points ELSE beyond
    /\ tx' = IF tx.kind = "grant" THEN Idle ELSE [tx EXCEPT !.step = "adjust"]
    /\ UNCHANGED <<day, consumed, resets>>

\* Insufficient points, or a failure: the quota of the day goes with the rest.
Rollback ==
    /\ tx # Idle
    /\ balance' = tx.saved.balance /\ consumed' = tx.saved.consumed
    /\ resets' = tx.saved.resets /\ beyond' = tx.saved.beyond
    /\ tx' = Idle
    /\ UNCHANGED day

\* Faulty variant of Adjust: a charge is counted like a refund.
AdjustAsRefund ==
    /\ tx.step = "adjust"
    /\ consumed' = IF consumed[day] = NoRow THEN consumed
                   ELSE [consumed EXCEPT ![day] = Larger(0, @ - tx.points)]
    /\ beyond' = IF consumed[day] = NoRow THEN beyond
                 ELSE beyond + Larger(0, tx.points - consumed[day])
    /\ tx' = Idle
    /\ UNCHANGED <<day, balance, resets>>

\* _adjust_daily_credit_quota_consumed: GREATEST(0, consumed + delta), for
\* the date it is now; without a row for it nothing is counted.
Adjust ==
    LET delta == IF tx.kind = "charge" THEN tx.points ELSE -tx.points
        before == consumed[day]
    IN  /\ tx.step = "adjust"
        /\ consumed' = IF before = NoRow THEN consumed
                       ELSE [consumed EXCEPT ![day] = Larger(0, before + delta)]
        /\ beyond' = IF before = NoRow THEN beyond ELSE beyond + Larger(0, -(before + delta))
        /\ tx' = Idle
        /\ UNCHANGED <<day, balance, resets>>

Next ==
    \/ Midnight
    \/ \E kind \in {"charge", "refund", "grant", "view"}, p \in Amounts : Begin(kind, p)
    \/ ApplyQuota \/ Move \/ Rollback \/ Adjust

Spec == Init /\ [][Next]_vars
-----------------------------------------------------------------------------
TypeOK ==
    /\ day \in Days
    /\ balance \in Nat /\ beyond \in Nat
    /\ consumed \in [Days -> Nat \cup {NoRow}]
    /\ resets \in [Days -> Nat]
    /\ tx = Idle \/ tx.step \in {"apply", "move", "adjust"}

\* Between transactions the consumption shown for today and the balance add
\* up to the quota and what was given beyond it, and a date has reset the
\* balance at most once, whatever midnight came between
\* (_apply_guest_daily_quota_if_needed, _adjust_daily_credit_quota_consumed).
QuotaExplainsBalance ==
    /\ tx = Idle /\ consumed[day] # NoRow => balance + consumed[day] = Quota + beyond
    /\ \A d \in Days : resets[d] <= 1

-----------------------------------------------------------------------------
(* What makes it inductive. *)

Kinds == {"charge", "refund", "grant", "view"}
Saves == [balance : Nat, consumed : [Days -> Nat \cup {NoRow}], resets : [Days -> Nat], beyond : Nat]
Transactions == [step : {"apply", "move", "adjust"}, kind : Kinds, points : Amounts, saved : Saves]

\* The rows of a state add up today, but for what its transaction has still to correct.
AddsUp(s, today, open) ==
    s.consumed[today] # NoRow => s.balance + s.consumed[today] = Quota + s.beyond + open

\* A date without a row has not reset the balance, and no date to come has one.
RowsInTime(s, today) ==
    \A d \in Days :
        /\ s.resets[d] <= 1
        /\ s.consumed[d] = NoRow => s.resets[d] = 0
        /\ d > today => s.consumed[d] = NoRow

\* What a transaction has moved and not yet entered in the consumption.
Moved ==
    CASE tx.step # "adjust" -> 0
      [] tx.step = "adjust" /\ tx.kind = "charge" -> -tx.points
      [] OTHER -> tx.points

IInv ==
    /\ day \in Days /\ Saved \in Saves /\ tx \in Transactions \cup {Idle}
    /\ RowsInTime(Saved, day) /\ AddsUp(Saved, day, Moved)
    /\ tx # Idle => RowsInTime(tx.saved, day) /\ AddsUp(tx.saved, day, 0)
=============================================================================
