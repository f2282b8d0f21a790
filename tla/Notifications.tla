---------------------------- MODULE Notifications ----------------------------
(***************************************************************************)
(* The notes a user finds in the portal (domains/notifications/service.py) *)
(* and the account overview that writes them (domains/admin/service.py).   *)
(*                                                                         *)
(* Nothing writes a note when points arrive: the overview reads the newest *)
(* entries, orders and the balance, and upserts a note for each.  Requests *)
(* of one user run at the same time, and operators send a note to all.     *)
(* Statements take the locks of the rows they write and keep them until    *)
(* the commit; that a statement waits row by row is one step here.         *)
(***************************************************************************)
EXTENDS Integers, FiniteSets, Sequences, SequencesExt

CONSTANTS
    Users, Handlers, Nobody,
    Readers,      \* bound of the model: users who open the portal; the others only get broadcasts
    Facts,        \* bonus entries, referral rewards, paid orders and subscription periods
    Rewards,      \* those of the facts that are told in the category of the user
    Broadcasts,   \* what operators send to everybody
    RecentLimit   \* how many entries an overview reads

Low == "balance_low_threshold_500"
Keys == Facts \cup Broadcasts \cup {Low}

VARIABLES
    active,      \* users with status active
    facts,       \* what happened to the account, in its order
    low,         \* the balance is 500 points or less
    notes,       \* app.user_notification, committed: none, unread or read
    delivered,   \* delivered_user_count of a broadcast, committed; none before
    request,     \* a request: how far it is, what it read and what it will commit
    rowLock      \* holder of the row of a note

vars == <<active, facts, low, notes, delivered, request, rowLock>>

Idle == [step |-> "idle"]
NotYet == -1

Init ==
    /\ active = Users
    /\ facts = [u \in Users |-> <<>>]
    /\ low = [u \in Users |-> TRUE]
    /\ notes = [u \in Users |-> [k \in Keys |-> "none"]]
    /\ delivered = [b \in Broadcasts |-> NotYet]
    /\ request = [h \in Handlers |-> Idle]
    /\ rowLock = [n \in Users \X Keys |-> Nobody]

-----------------------------------------------------------------------------
(* The account, as other parts of the service change it. *)

Happen(u, f) ==
    /\ f \notin ToSet(facts[u])
    /\ facts' = [facts EXCEPT ![u] = Append(@, f)]
    /\ UNCHANGED <<active, low, notes, delivered, request, rowLock>>

Balance(u) ==
    /\ low' = [low EXCEPT ![u] = ~@]
    /\ UNCHANGED <<active, facts, notes, delivered, request, rowLock>>

Deactivate(u) ==
    /\ u \in active /\ active' = active \ {u}
    /\ UNCHANGED <<facts, low, notes, delivered, request, rowLock>>

-----------------------------------------------------------------------------
(* Transactions. *)

Free(h, rows) == \A n \in rows : rowLock[n] \in {Nobody, h}
Lock(h, rows) == rowLock' = [n \in Users \X Keys |-> IF n \in rows THEN h ELSE rowLock[n]]

Over(h) ==
    /\ request' = [request EXCEPT ![h] = Idle]
    /\ rowLock' = [n \in Users \X Keys |-> IF rowLock[n] = h THEN Nobody ELSE rowLock[n]]

\* Faulty variant of Upserted: a note that is written again is new.
UpsertedUnread(state) == "unread"

\* ON CONFLICT DO UPDATE rewrites everything but read_at.
Upserted(state) == IF state = "none" THEN "unread" ELSE state

\* _build_user_account_overview reads the account first.
Overview(h, u) ==
    /\ request[h] = Idle
    /\ request' = [request EXCEPT ![h] = [step |-> "read", user |-> u, low |-> low[u]]]
    /\ UNCHANGED <<active, facts, low, notes, delivered, rowLock>>

Recent(u) == ToSet(SubSeq(facts[u], IF Len(facts[u]) > RecentLimit THEN Len(facts[u]) - RecentLimit + 1 ELSE 1,
                          Len(facts[u])))

\* Then the newest entries, and _sync_portal_notifications writes a note for each; the warning of
\* a low balance is written or, if there is one to be seen, deleted.
Sync(h) ==
    LET u == request[h].user
        written == Recent(u) \cup (IF request[h].low THEN {Low} ELSE {})
        deleted == IF ~request[h].low /\ notes[u][Low] # "none" THEN {Low} ELSE {}
        rows == {u} \X (written \cup deleted)
    IN  /\ request[h].step = "read" /\ Free(h, rows)
        /\ request' = [request EXCEPT ![h] = [step |-> "synced", user |-> u, written |-> written, deleted |-> deleted]]
        /\ Lock(h, rows)
        /\ UNCHANGED <<active, facts, low, notes, delivered>>

Commit(h) ==
    LET u == request[h].user
    IN  /\ request[h].step = "synced"
        /\ notes' = [notes EXCEPT ![u] = [k \in Keys |->
             CASE k \in request[h].written -> Upserted(notes[u][k])
               [] k \in request[h].deleted -> "none"
               [] OTHER -> notes[u][k]]]
        /\ Over(h)
        /\ UNCHANGED <<active, facts, low, delivered>>

\* Every other overview waits for these rows, and whatever goes wrong rolls everything back.
Abort(h) ==
    /\ request[h] # Idle
    /\ Over(h)
    /\ UNCHANGED <<active, facts, low, notes, delivered>>

InCategory(k, category) == (category = "user") <=> (k \in Rewards \cup {Low})

\* _set_notification_read_state: one statement over the chosen notes, by id or by category.
SetRead(h, u, read, chosen) ==
    LET changed == {k \in chosen : notes[u][k] # "none"}
    IN  /\ request[h] = Idle /\ Free(h, {u} \X changed)
        /\ notes' = [notes EXCEPT ![u] = [k \in Keys |->
                       IF k \in changed THEN (IF read THEN "read" ELSE "unread") ELSE notes[u][k]]]
        /\ UNCHANGED <<active, facts, low, delivered, request, rowLock>>

\* Faulty variant of Receivers: everybody, also who is not active, is counted.
AllReceivers == Users

Receivers == active

\* admin_create_system_notification: the active users are read, each gets a note ...
Broadcast(h, b) ==
    /\ request[h] = Idle /\ delivered[b] = NotYet
    /\ \A g \in Handlers : request[g].step = "sending" => request[g].broadcast # b    \* a new id for each
    /\ request' = [request EXCEPT ![h] = [step |-> "sending", broadcast |-> b, to |-> active, count |-> Cardinality(Receivers)]]
    /\ UNCHANGED <<active, facts, low, notes, delivered, rowLock>>

\* ... and the count is committed with the notes.
Deliver(h) ==
    /\ request[h].step = "sending"
    /\ LET b == request[h].broadcast
       IN  /\ notes' = [u \in Users |-> IF u \in request[h].to
                          THEN [notes[u] EXCEPT ![b] = Upserted(notes[u][b])] ELSE notes[u]]
           /\ delivered' = [delivered EXCEPT ![b] = request[h].count]
    /\ Over(h)
    /\ UNCHANGED <<active, facts, low>>

MarkRead == \E h \in Handlers, u \in Readers :
    \/ \E k \in Keys : SetRead(h, u, TRUE, {k})
    \/ \E c \in {"system", "user"} : SetRead(h, u, TRUE, {k \in Keys : InCategory(k, c)})
MarkUnread == \E h \in Handlers, u \in Readers, k \in Keys : SetRead(h, u, FALSE, {k})

Next ==
    \/ \E u \in Readers, f \in Facts : Happen(u, f)
    \/ \E u \in Readers : Balance(u)
    \/ \E u \in Users : Deactivate(u)
    \/ \E h \in Handlers, u \in Readers : Overview(h, u)
    \/ \E h \in Handlers : Sync(h) \/ Commit(h) \/ Abort(h) \/ Deliver(h)
    \/ \E h \in Handlers, b \in Broadcasts : Broadcast(h, b)
    \/ MarkRead \/ MarkUnread

Spec == Init /\ [][Next]_vars

-----------------------------------------------------------------------------
(* Properties. *)

\* The variables have their types, and an overview holds the rows it has written.
TypeOK ==
    /\ active \subseteq Users /\ low \in [Users -> BOOLEAN]
    /\ notes \in [Users -> [Keys -> {"none", "unread", "read"}]]
    /\ delivered \in [Broadcasts -> 0..Cardinality(Users) \cup {NotYet}]
    /\ \A h \in Handlers : request[h].step = "synced" =>
          \A k \in request[h].written \cup request[h].deleted : rowLock[<<request[h].user, k>>] = h

\* A broadcast says how many users have its note, whoever left while it was sent.
DeliveredIsCounted == \A b \in Broadcasts :
    Cardinality({u \in Users : notes[u][b] # "none"}) = (IF delivered[b] = NotYet THEN 0 ELSE delivered[b])

\* What a user has read stays read however often overviews write it again; only the user takes
\* that back, and only the warning of a balance that had recovered goes and comes as new.
KeepsRead ==
    \A u \in Users, k \in Keys :
       (notes[u][k] = "read" /\ ~MarkUnread) =>
           notes'[u][k] = "read" \/ (k = Low /\ notes'[u][k] = "none")
ReadStaysRead == [][KeepsRead]_vars

-----------------------------------------------------------------------------
(* What makes them inductive. *)

Bounds ==
    /\ Nobody \notin Handlers /\ Readers \subseteq Users
    /\ Facts \cap Broadcasts = {} /\ Low \notin Facts \cup Broadcasts
    /\ IsFiniteSet(Users) /\ RecentLimit \in Nat

Requests ==
    [step : {"read"}, user : Readers, low : BOOLEAN]
    \cup [step : {"synced"}, user : Readers, written : SUBSET (Facts \cup {Low}), deleted : SUBSET {Low}]
    \cup [step : {"sending"}, broadcast : Broadcasts, to : SUBSET Users, count : 0..Cardinality(Users)]

\* A broadcast that is being sent is new and the only one of its id, and counts whom it goes to.
SendingIsNew ==
    \A h \in Handlers : request[h].step = "sending" =>
       /\ delivered[request[h].broadcast] = NotYet /\ request[h].count = Cardinality(request[h].to)
       /\ \A g \in Handlers \ {h} : request[g].step = "sending" => request[g].broadcast # request[h].broadcast

\* Nobody has the note of a broadcast that is not delivered.
NoneBefore == \A b \in Broadcasts : delivered[b] = NotYet => \A u \in Users : notes[u][b] = "none"

IInv ==
    /\ TypeOK /\ DeliveredIsCounted /\ SendingIsNew /\ NoneBefore
    /\ facts \in [Users -> Seq(Facts)]
    /\ request \in [Handlers -> Requests \cup {Idle}]
    /\ rowLock \in [Users \X Keys -> Handlers \cup {Nobody}]
=============================================================================
