--------------------------- MODULE CreditBuckets ---------------------------
(***************************************************************************)
(* The replay of a user's credit ledger into buckets of points, and the    *)
(* allocation of a consumption to them: the pure part of                   *)
(* domains/billing/service.py (lines 126 to 415).                          *)
(*                                                                         *)
(* A bucket is what is left of one positive ledger row: where the points   *)
(* came from, when they lapse, and how many remain.  The account row only  *)
(* keeps a total; every question about which points a user still has is    *)
(* answered by replaying the ledger.                                       *)
(*                                                                         *)
(* A ledger row is a record with the fields                                *)
(*   kind     entry_type                 delta    points_delta             *)
(*   after    balance_after_points       ref      reference_id             *)
(*   at       created_at                 tie      the random entry_id      *)
(*   lapse    meta_json.period_end       alloc    the allocations kept in  *)
(*                                                meta_json                *)
(* For a subscription_expire row  ref  is the grant it expires             *)
(* (meta_json.subscription_grant_reference_id).                            *)
(***************************************************************************)
EXTENDS Integers, Sequences, SequencesExt

CONSTANT Never   \* the expires_at of points that do not lapse; later than any time

ASSUME NeverAssumption == Never \in Nat

(***************************************************************************)
(* _bucket_source_for_entry_type, without the meta_json override, which no *)
(* caller in src/ sets on a row that adds points.                          *)
(***************************************************************************)
SourceOf(kind) ==
    CASE kind = "subscription_grant" -> "subscription"
      [] kind = "recharge"           -> "recharge"
      [] OTHER                       -> "other"

Smaller(m, n) == IF m <= n THEN m ELSE n

\* The element of a finite set that all others come before.
Latest(S, Before(_, _)) == CHOOSE i \in S : \A j \in S : i = j \/ Before(j, i)

\* A loop over the elements of a finite set, in the order of Before.
InTurn(Body(_, _), start, S, Before(_, _)) ==
    MapThenFoldSet(LAMBDA i, state : Body(state, i), start,
                   LAMBDA i : i, LAMBDA T : Latest(T, Before), S)

(***************************************************************************)
(* The rows in the order of the replay: ORDER BY created_at, entry_id.     *)
(* created_at is the time the transaction began, not the time it wrote.    *)
(* Rows with the same tie have identifiers in the order of insertion.      *)
(***************************************************************************)
Earlier(rows, i, j) ==
    \/ rows[i].at < rows[j].at
    \/ /\ rows[i].at = rows[j].at
       /\ rows[i].tie < rows[j].tie \/ (rows[i].tie = rows[j].tie /\ i < j)

(***************************************************************************)
(* The key of _ordered_consumption_buckets: what lapses first goes first,  *)
(* what never lapses goes last; then by age, then by identifier.           *)
(***************************************************************************)
ConsumedBefore(b, c) ==
    \/ b.lapse < c.lapse
    \/ b.lapse = c.lapse /\ b.at < c.at
    \/ b.lapse = c.lapse /\ b.at = c.at /\ b.id < c.id

\* What compares as equal stays in the order of the list.
Consumed(buckets, i, j) ==
    \/ ConsumedBefore(buckets[i], buckets[j])
    \/ ~ConsumedBefore(buckets[j], buckets[i]) /\ i < j

(***************************************************************************)
(* The order in which _allocate_points_from_buckets visits the buckets:    *)
(* those with the wanted identifier in list order, then those with the     *)
(* wanted source, then all others, both in consumption order.              *)
(***************************************************************************)
Visited(buckets, id, source, i, j) ==
    LET Class(k) == IF buckets[k].id = id THEN 1
                    ELSE IF buckets[k].source = source THEN 2 ELSE 3
    IN  \/ Class(i) < Class(j)
        \/ Class(i) = 1 /\ Class(j) = 1 /\ i < j
        \/ Class(i) # 1 /\ Class(i) = Class(j) /\ Consumed(buckets, i, j)

NoId == 0
NoSource == "none"

(***************************************************************************)
(* _allocate_points_from_buckets: take points from the buckets in          *)
(* allocation order until none are wanted.  The result holds the buckets   *)
(* afterwards, the allocations made and the points still wanted, which is  *)
(* positive only when every bucket is empty.                               *)
(***************************************************************************)
Allocate(buckets, points, id, source) ==
    LET Take(state, i) ==
            LET taken == Smaller(state.buckets[i].left, state.rest)
                b == state.buckets[i]
            IN  IF taken = 0 THEN state
                ELSE [buckets |-> [state.buckets EXCEPT ![i].left = @ - taken],
                      rest    |-> state.rest - taken,
                      taken   |-> Append(state.taken,
                                         [id |-> b.id, source |-> b.source,
                                          points |-> taken, lapse |-> b.lapse])]
    IN  InTurn(Take, [buckets |-> buckets, rest |-> points, taken |-> <<>>],
               {i \in DOMAIN buckets : points > 0 /\ buckets[i].left > 0},
               LAMBDA i, j : Visited(buckets, id, source, i, j))

(***************************************************************************)
(* A positive row opens one bucket, or, for a refund that names the        *)
(* allocations it gives back, one per allocation: with the identifier,     *)
(* source and lapse time of the bucket the points came from, but with the  *)
(* type of the refund.                                                     *)
(***************************************************************************)
OpenBuckets(buckets, row) ==
    IF row.kind = "refund" /\ row.alloc # <<>>
    THEN buckets \o [i \in DOMAIN row.alloc |->
            [id |-> row.alloc[i].id, kind |-> "refund", source |-> row.alloc[i].source,
             left |-> row.alloc[i].points, lapse |-> row.alloc[i].lapse, at |-> row.at]]
    ELSE Append(buckets,
            [id |-> row.ref, kind |-> row.kind, source |-> SourceOf(row.kind),
             left |-> row.delta, at |-> row.at,
             lapse |-> IF row.kind = "subscription_grant" THEN row.lapse ELSE Never])

(***************************************************************************)
(* Faulty variants of DrainBuckets: an expiry does not say which grant it  *)
(* expires; a consumption forgets that its allocations already paid.       *)
(***************************************************************************)
DrainUntargeted(buckets, row) ==
    LET Recorded(state, a) ==
            LET wanted == Smaller(state.rest, a.points)
                drawn  == Allocate(state.buckets, wanted, a.id, a.source)
            IN  [buckets |-> drawn.buckets, rest |-> state.rest - (wanted - drawn.rest)]
        recorded == FoldLeft(Recorded, [buckets |-> buckets, rest |-> -row.delta], row.alloc)
    IN  Allocate(recorded.buckets, recorded.rest, NoId, NoSource).buckets

DrainTwice(buckets, row) ==
    LET Recorded(rest, a) == Allocate(rest, a.points, a.id, a.source).buckets
    IN  Allocate(FoldLeft(Recorded, buckets, row.alloc), -row.delta, NoId, NoSource).buckets

(***************************************************************************)
(* A negative row drains buckets: an expiry its grant, a consumption the   *)
(* allocations recorded with it, and what is then still wanted any bucket. *)
(* What no bucket can cover is dropped.                                    *)
(***************************************************************************)
DrainBuckets(buckets, row) ==
    LET targeted == IF row.kind = "subscription_expire"
                    THEN Allocate(buckets, -row.delta, row.ref, NoSource)
                    ELSE [buckets |-> buckets, rest |-> -row.delta]
        Recorded(state, a) ==
            LET wanted == Smaller(state.rest, a.points)
                drawn  == Allocate(state.buckets, wanted, a.id, a.source)
            IN  [buckets |-> drawn.buckets, rest |-> state.rest - (wanted - drawn.rest)]
        recorded == FoldLeft(Recorded,
                             [buckets |-> targeted.buckets, rest |-> targeted.rest],
                             row.alloc)
    IN  Allocate(recorded.buckets, recorded.rest, NoId, NoSource).buckets

\* _rebuild_credit_buckets_from_ledger_rows.
Replay(rows) ==
    LET Apply(buckets, i) == IF rows[i].delta > 0 THEN OpenBuckets(buckets, rows[i])
                             ELSE IF rows[i].delta < 0 THEN DrainBuckets(buckets, rows[i])
                             ELSE buckets
    IN  InTurn(Apply, <<>>, DOMAIN rows, LAMBDA i, j : Earlier(rows, i, j))

PointsIn(buckets) == FoldLeft(LAMBDA sum, b : sum + b.left, 0, buckets)

\* _preview_credit_consumption_allocations: rest > 0 is its 402.
Preview(rows, points) == Allocate(Replay(rows), points, NoId, NoSource)

(***************************************************************************)
(* The buckets _reconcile_expired_subscription_points expires at a time,   *)
(* in the order it expires them.  Only the bucket a grant opened counts;   *)
(* points a refund gave back have another type.                            *)
(***************************************************************************)
ExpiredBuckets(rows, now) ==
    LET buckets == Replay(rows)
    IN  InTurn(LAMBDA found, i : Append(found, buckets[i]), <<>>,
               {i \in DOMAIN buckets : /\ buckets[i].kind = "subscription_grant"
                                      /\ buckets[i].lapse <= now
                                      /\ buckets[i].left > 0},
               LAMBDA i, j : Consumed(buckets, i, j))

(***************************************************************************)
(* _resolve_refund_source_allocations: the first points allocations of the *)
(* latest consumption with the reference.  Nothing asks whether it was     *)
(* refunded before, or whether it was for as many points.                  *)
(***************************************************************************)
RefundAllocations(rows, ref, points) ==
    LET charges == {i \in DOMAIN rows : rows[i].kind = "consume" /\ rows[i].ref = ref}
        latest == Latest(charges, LAMBDA i, j : Earlier(rows, i, j))
        GiveBack(state, a) ==
            LET back == Smaller(state.rest, a.points)
            IN  IF back = 0 THEN state
                ELSE [rest |-> state.rest - back,
                      back |-> Append(state.back, [a EXCEPT !.points = back])]
    IN  IF charges = {} THEN <<>>
        ELSE FoldLeft(GiveBack, [rest |-> points, back |-> <<>>], rows[latest].alloc).back
============================================================================
