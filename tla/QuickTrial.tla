------------------------------ MODULE QuickTrial ------------------------------
(***************************************************************************)
(* The free trial of the public site (api/portal_routes.py, 443 to 923 and *)
(* 1409 to 1460).  A visit reserves one trial for its device and one for   *)
(* its address, waits in the thread pool for its report, and gives both    *)
(* back: as used when there was a report, as free when there was none.     *)
(*                                                                         *)
(* The route runs in the event loop and waits in one place only, so the    *)
(* reservation is one step, each answer of a provider is one, and the end  *)
(* of the visit, which announces what is left and counts it, is one.       *)
(***************************************************************************)
EXTENDS Integers, FiniteSets

CONSTANTS
    Visits,                  \* requests that are served at the same time
    Devices, Addresses,      \* the cookie of the browser, the address of the client
    DeviceLimit, AddressLimit

Keys == Devices \cup Addresses
Limit(k) == IF k \in Devices THEN DeviceLimit ELSE AddressLimit

\* What a source of product data gives back: an error, nothing of use, the
\* present state of the product, or its history as well.
Failed == 0
Empty == 1
Snapshot == 2
History == 3
Found == Failed .. History
NotAsked == -1

VARIABLES
    used, flight,            \* _PUBLIC_QUICK_TRIAL_USED_COUNTS, ..._IN_FLIGHT_COUNTS
    visit,                   \* what each request is doing
    announced                \* the trials left that a device was last told of, or -1

vars == <<used, flight, visit, announced>>
Idle == [step |-> "idle"]
Of(v, k) == visit[v].step # "idle" /\ k \in visit[v].keys

Init ==
    /\ used = [k \in Keys |-> 0]
    /\ flight = [k \in Keys |-> 0]
    /\ visit = [v \in Visits |-> Idle]
    /\ announced = [d \in Devices |-> -1]

-----------------------------------------------------------------------------
\* Faulty variant of Reserve: requests under way are not counted.
ReserveByUsed(v, d, a) ==
    /\ visit[v] = Idle
    /\ \A k \in {d, a} : used[k] < Limit(k)
    /\ flight' = [k \in Keys |-> IF k \in {d, a} THEN flight[k] + 1 ELSE flight[k]]
    /\ \E what \in {"asin", "query"} :
          visit' = [visit EXCEPT ![v] = [step |-> what, keys |-> {d, a}, device |-> d,
                                         local |-> NotAsked, keepa |-> NotAsked]]
    /\ UNCHANGED <<used, announced>>

\* A request whose device or address has no trial left is refused (429) and changes nothing.
Reserve(v, d, a) ==
    /\ visit[v] = Idle
    /\ \A k \in {d, a} : used[k] + flight[k] < Limit(k)
    /\ flight' = [k \in Keys |-> IF k \in {d, a} THEN flight[k] + 1 ELSE flight[k]]
    /\ \E what \in {"asin", "query"} :
          visit' = [visit EXCEPT ![v] = [step |-> what, keys |-> {d, a}, device |-> d,
                                         local |-> NotAsked, keepa |-> NotAsked]]
    /\ UNCHANGED <<used, announced>>

\* The history of our own database, for an ASIN.
AskLocal(v, found) ==
    /\ visit[v].step = "asin"
    /\ visit' = [visit EXCEPT ![v].step = IF found = History THEN "choose" ELSE "keepa",
                              ![v].local = found]
    /\ UNCHANGED <<used, flight, announced>>

\* Keepa is asked when there is no history.
AskKeepa(v, found) ==
    /\ visit[v].step = "keepa"
    /\ visit' = [visit EXCEPT ![v].step = "choose", ![v].keepa = found]
    /\ UNCHANGED <<used, flight, announced>>

\* What the report is based on: Keepa replaces what was found only if it has
\* a history, or if nothing was found.
Selected(local, keepa) ==
    IF keepa = History \/ (keepa = Snapshot /\ local # Snapshot /\ local # History)
    THEN keepa ELSE local

HasReport(found) == found \in {Snapshot, History}

\* The end of a visit: remaining is computed from the count before this visit is added to it.
Finish(v, consumed) ==
    LET d == visit[v].device IN
    /\ flight' = [k \in Keys |-> IF k \in visit[v].keys /\ flight[k] > 0 THEN flight[k] - 1 ELSE flight[k]]
    /\ used' = [k \in Keys |-> IF consumed /\ k \in visit[v].keys THEN used[k] + 1 ELSE used[k]]
    /\ announced' = IF consumed
                    THEN [announced EXCEPT ![d] = IF used[d] + 1 < DeviceLimit
                                                  THEN DeviceLimit - used[d] - 1 ELSE 0]
                    ELSE announced
    /\ visit' = [visit EXCEPT ![v] = Idle]

Answer(v) ==
    /\ visit[v].step = "choose"
    /\ Finish(v, HasReport(Selected(visit[v].local, visit[v].keepa)))

\* A product in words goes to the report workflow, which may fail or answer nothing.
AnswerQuery(v, report) ==
    /\ visit[v].step = "query"
    /\ Finish(v, report)

\* The counts live in the process, and so do the visits.
Restart ==
    /\ \E k \in Keys : used[k] > 0
    /\ used' = [k \in Keys |-> 0] /\ flight' = [k \in Keys |-> 0]
    /\ visit' = [v \in Visits |-> Idle]
    /\ announced' = [d \in Devices |-> -1]

Next ==
    \/ Restart
    \/ \E v \in Visits :
        \/ \E d \in Devices, a \in Addresses : Reserve(v, d, a)
        \/ \E found \in Found : AskLocal(v, found)
        \/ \E found \in Found : AskKeepa(v, found)
        \/ Answer(v)
        \/ \E report \in BOOLEAN : AnswerQuery(v, report)

Spec == Init /\ [][Next]_vars

-----------------------------------------------------------------------------
\* The variables have their types.
TypeOK ==
    /\ used \in [Keys -> Nat] /\ flight \in [Keys -> Nat]
    /\ announced \in [Devices -> -1 .. DeviceLimit]
    /\ visit \in [Visits -> {Idle} \cup
          [step : {"asin", "keepa", "choose", "query"}, keys : SUBSET Keys, device : Devices,
           local : Found \cup {NotAsked}, keepa : Found \cup {NotAsked}]]

\* However visits overlap and fail, a device and an address get no more
\* reports than their limits allow, no reservation is lost or kept
\* (_reserve_public_quick_trial, _finish_public_quick_trial), and a device is
\* told what it really has left.
TrialsWithinLimits ==
    /\ \A k \in Keys :
          /\ flight[k] = Cardinality({v \in Visits : Of(v, k)})
          /\ used[k] + flight[k] <= Limit(k)
    /\ \A d \in Devices : announced[d] # -1 => announced[d] = DeviceLimit - used[d]

\* A report rests on a history whenever one of the sources that were asked
\* had one, and a visit without a report found nothing anywhere
\* (_run_public_asin_quick_analysis).
BestEvidence ==
    \A v \in Visits : visit[v].step = "choose" =>
        LET asked == {visit[v].local, visit[v].keepa}
            chosen == Selected(visit[v].local, visit[v].keepa) IN
        /\ History \in asked => chosen = History
        /\ Snapshot \in asked => HasReport(chosen)

-----------------------------------------------------------------------------
(* What makes it inductive. *)

Bounds ==
    /\ IsFiniteSet(Visits) /\ Devices \cap Addresses = {}
    /\ DeviceLimit \in Nat /\ AddressLimit \in Nat

IInv ==
    /\ TypeOK /\ TrialsWithinLimits
    /\ \A v \in Visits : visit[v] # Idle => visit[v].keys \cap Devices = {visit[v].device}
=============================================================================
