----------------------------- MODULE UserRecords -----------------------------
(***************************************************************************)
(* The users the service knows (domains/identity/service.py) and the key   *)
(* each has (domains/api_keys/service.py).  Open WebUI keeps the accounts; *)
(* a row of app.app_user follows them: it is written when a user comes     *)
(* with another name or address, marked orphaned when the account is gone, *)
(* and revived when it is back.  scripts/cleanup_placeholder_users.py      *)
(* disables or deletes rows of a list it has read before.                  *)
(*                                                                         *)
(* Requests of one user overlap.  What a transaction writes is in its      *)
(* draft until the commit, and it holds the row from its first write on.   *)
(***************************************************************************)
EXTENDS Naturals, FiniteSets

CONSTANTS
    Users, Handlers,
    Nobody,      \* no handler, no code, no key
    Codes,       \* invite codes that may be drawn
    Attempts,    \* max_attempts of the upsert
    MaxKeys      \* bound of the model on the keys that are made

Emails == {"placeholder", "real"}
Keys == 1..MaxKeys

VARIABLES
    source,     \* Open WebUI: the account is active, and under which address
    users,      \* app.app_user, committed
    keys,       \* app.user_api_key, committed
    request,    \* a request: how far it is, what it read, what it has written
    rowLock,    \* holder of the row of a user, its advisory lock included
    keyLock,    \* who has inserted a key and not committed
    made,       \* keys drawn so far
    cleanup     \* the script: what it does, and the users it has listed

vars == <<source, users, keys, request, rowLock, keyLock, made, cleanup>>

NoUser == [email |-> "none", status |-> "none", state |-> "none", invite |-> Nobody, verified |-> FALSE]
Idle == [step |-> "idle"]
Exists(u) == users[u] # NoUser

Init ==
    /\ source \in [Users -> [active : {TRUE}, email : Emails]]
    /\ users = [u \in Users |-> NoUser]
    /\ keys = [u \in Users |-> Nobody]
    /\ request = [h \in Handlers |-> Idle]
    /\ rowLock = [u \in Users |-> Nobody] /\ keyLock = [u \in Users |-> Nobody]
    /\ made = 0
    /\ cleanup = [step |-> "idle", listed |-> {}]

-----------------------------------------------------------------------------
(* Around the requests. *)

\* Open WebUI (external): a user takes another address, leaves or comes back.
Account(u, account) ==
    /\ source' = [source EXCEPT ![u] = account]
    /\ UNCHANGED <<users, keys, request, rowLock, keyLock, made, cleanup>>

\* The user confirms the address of the row (EmailChallenges).
Verify(u) ==
    /\ Exists(u) /\ rowLock[u] = Nobody /\ ~users[u].verified
    /\ users' = [users EXCEPT ![u].verified = TRUE]
    /\ UNCHANGED <<source, keys, request, rowLock, keyLock, made, cleanup>>

Over(h) ==
    /\ request' = [request EXCEPT ![h] = Idle]
    /\ rowLock' = [u \in Users |-> IF rowLock[u] = h THEN Nobody ELSE rowLock[u]]
    /\ keyLock' = [u \in Users |-> IF keyLock[u] = h THEN Nobody ELSE keyLock[u]]

Abort(h) ==
    /\ request[h] # Idle
    /\ Over(h)
    /\ UNCHANGED <<source, users, keys, made, cleanup>>

Go(h, step) == request' = [request EXCEPT ![h].step = step]

-----------------------------------------------------------------------------
(* Requests. *)

\* _ensure_user_record: nothing is written for a user whose identity and state are as they were.
UpToDate(u) == Exists(u) /\ users[u].email = source[u].email /\ users[u].state = "active"

Begin(h, u, goal, step) ==
    request' = [request EXCEPT ![h] = [step |-> step, user |-> u,
                                       goal |-> IF step = "upsert" THEN goal ELSE "none",
                                       email |-> IF step = "upsert" THEN source[u].email ELSE "none",
                                       tries |-> 1, row |-> NoUser, key |-> Nobody]]

\* exchange-webui-user: the account comes with the request.
Exchange(h, u) ==
    /\ request[h] = Idle /\ source[u].active
    /\ Begin(h, u, "key", IF UpToDate(u) THEN "key" ELSE "upsert")
    /\ UNCHANGED <<source, users, keys, rowLock, keyLock, made, cleanup>>

\* _reconcile_openwebui_user_sources: the account is read from Open WebUI's database first.
Reconcile(h, u) ==
    /\ request[h] = Idle
    /\ Begin(h, u, "none", IF ~source[u].active THEN "orphan"
                           ELSE IF UpToDate(u) THEN "commit" ELSE "upsert")
    /\ UNCHANGED <<source, users, keys, rowLock, keyLock, made, cleanup>>

\* Faulty variant of Rewritten: ON CONFLICT writes everything, the code drawn for a new user included.
RewrittenAll(row, email, code) ==
    [email |-> email, status |-> "active", state |-> "active", invite |-> code,
     verified |-> row.verified /\ row.email = email]

\* ON CONFLICT DO UPDATE: the code and the status stay, a new address is not confirmed.
Rewritten(row, email, code) ==
    [row EXCEPT !.email = email, !.state = "active",
                !.invite = IF row.invite = Nobody THEN code ELSE row.invite,
                !.verified = row.verified /\ row.email = email]

New(email, code) ==
    [email |-> email, status |-> "active", state |-> "active", invite |-> code, verified |-> FALSE]

Drawn(h) == Codes \ ({users[u].invite : u \in Users}
                     \cup {request[g].row.invite : g \in {k \in Handlers \ {h} : request[k] # Idle}})

\* _execute_app_user_upsert, under the advisory lock of the user.  A code another user
\* has is a unique violation, which is not tried again: that request aborts.
Upsert(h, code) ==
    LET u == request[h].user
    IN  /\ request[h].step = "upsert" /\ rowLock[u] = Nobody
        /\ code \in Drawn(h)
        /\ rowLock' = [rowLock EXCEPT ![u] = h]
        /\ request' = [request EXCEPT ![h].step = IF request[h].goal = "key" THEN "key" ELSE "commit",
                         ![h].tries = 1, ![h].goal = "none", ![h].email = "none",
                         ![h].row = IF Exists(u) THEN Rewritten(users[u], request[h].email, code)
                                    ELSE New(request[h].email, code)]
        /\ UNCHANGED <<source, users, keys, keyLock, made, cleanup>>

\* A deadlock rolls back to the savepoint; the last one is raised.
Deadlock(h) ==
    /\ request[h].step = "upsert"
    /\ IF request[h].tries < Attempts
         THEN request' = [request EXCEPT ![h].tries = @ + 1] /\ UNCHANGED <<rowLock, keyLock>>
         ELSE Over(h)
    /\ UNCHANGED <<source, users, keys, made, cleanup>>

\* UPDATE ... WHERE source_state <> 'orphaned' finds the row, or nothing to do.
Orphan(h) ==
    LET u == request[h].user
    IN  /\ request[h].step = "orphan" /\ rowLock[u] = Nobody
        /\ IF Exists(u) /\ users[u].state # "orphaned"
             THEN /\ rowLock' = [rowLock EXCEPT ![u] = h]
                  /\ request' = [request EXCEPT ![h].step = "commit", ![h].row = [users[u] EXCEPT !.state = "orphaned"]]
             ELSE Go(h, "commit") /\ UNCHANGED rowLock
        /\ UNCHANGED <<source, users, keys, keyLock, made, cleanup>>

\* _ensure_user_api_key looks for the key without a lock.
FindKey(h) ==
    LET u == request[h].user
    IN  /\ request[h].step = "key"
        /\ request' = [request EXCEPT ![h].step = IF keys[u] = Nobody THEN "insert" ELSE "commit", ![h].key = keys[u]]
        /\ UNCHANGED <<source, users, keys, rowLock, keyLock, made, cleanup>>

\* The key is inserted, unless another request did (a unique violation) or the user is gone.
InsertKey(h) ==
    LET u == request[h].user
    IN  /\ request[h].step = "insert" /\ keyLock[u] = Nobody
        /\ rowLock[u] = h \/ (rowLock[u] = Nobody /\ Exists(u))
        /\ keys[u] = Nobody /\ made < MaxKeys
        /\ made' = made + 1
        /\ keyLock' = [keyLock EXCEPT ![u] = h]
        /\ request' = [request EXCEPT ![h].step = "commit", ![h].key = made + 1]
        /\ UNCHANGED <<source, users, keys, rowLock, cleanup>>

Commit(h) ==
    LET u == request[h].user
    IN  /\ request[h].step = "commit"
        /\ users' = IF rowLock[u] = h THEN [users EXCEPT ![u] = request[h].row] ELSE users
        /\ keys' = IF keyLock[u] = h THEN [keys EXCEPT ![u] = request[h].key] ELSE keys
        /\ Over(h)
        /\ UNCHANGED <<source, made, cleanup>>

-----------------------------------------------------------------------------
(* The script. *)

List(action) ==
    /\ cleanup.step = "idle"
    /\ cleanup' = [step |-> action, listed |-> {u \in Users : Exists(u) /\ users[u].email = "placeholder"}]
    /\ UNCHANGED <<source, users, keys, request, rowLock, keyLock, made>>

\* The rows of the list are updated or deleted by their ids, with all that hangs on them, and the
\* transaction is committed; a key that is being inserted is waited for.
CleanUp ==
    LET gone == {u \in cleanup.listed : Exists(u)}
    IN  /\ cleanup.step \in {"disable", "delete"}
        /\ \A u \in gone : rowLock[u] = Nobody /\ keyLock[u] = Nobody
        /\ IF cleanup.step = "disable"
             THEN /\ users' = [u \in Users |-> IF u \in gone THEN [users[u] EXCEPT !.status = "disabled"] ELSE users[u]]
                  /\ UNCHANGED keys
             ELSE /\ users' = [u \in Users |-> IF u \in gone THEN NoUser ELSE users[u]]
                  /\ keys' = [u \in Users |-> IF u \in gone THEN Nobody ELSE keys[u]]
        /\ cleanup' = [cleanup EXCEPT !.step = "accounts"]
        /\ UNCHANGED <<source, request, rowLock, keyLock, made>>

\* After the commit the accounts of the listed addresses are switched off too, where that was
\* asked for and Open WebUI's database can be written.
SwitchOff(reached) ==
    /\ cleanup.step = "accounts"
    /\ source' = [u \in Users |-> IF reached /\ u \in cleanup.listed /\ source[u].email = "placeholder"
                                    THEN [source[u] EXCEPT !.active = FALSE] ELSE source[u]]
    /\ cleanup' = [step |-> "idle", listed |-> {}]
    /\ UNCHANGED <<users, keys, request, rowLock, keyLock, made>>

Next ==
    \/ \E u \in Users, a \in [active : BOOLEAN, email : Emails] : Account(u, a)
    \/ \E u \in Users : Verify(u)
    \/ \E h \in Handlers, u \in Users : Exchange(h, u) \/ Reconcile(h, u)
    \/ \E h \in Handlers, code \in Codes : Upsert(h, code)
    \/ \E h \in Handlers : Deadlock(h) \/ Orphan(h) \/ FindKey(h) \/ InsertKey(h) \/ Commit(h) \/ Abort(h)
    \/ \E action \in {"disable", "delete"} : List(action)
    \/ CleanUp
    \/ \E reached \in BOOLEAN : SwitchOff(reached)

Spec == Init /\ [][Next]_vars

-----------------------------------------------------------------------------
(* Properties. *)

\* The variables have their types, and no two users have the same code or key.
TypeOK ==
    /\ source \in [Users -> [active : BOOLEAN, email : Emails]]
    /\ keys \in [Users -> Keys \cup {Nobody}] /\ made \in 0..MaxKeys
    /\ rowLock \in [Users -> Handlers \cup {Nobody}] /\ keyLock \in [Users -> Handlers \cup {Nobody}]
    /\ cleanup \in [step : {"idle", "disable", "delete", "accounts"}, listed : SUBSET Users]
    /\ \A u, v \in Users : u # v /\ Exists(u) /\ users[u].invite # Nobody => users[v].invite # users[u].invite
    /\ \A u \in Users : keys[u] # Nobody => Exists(u)

\* Whatever requests write over a row, its invite code and its key stay, a disabled user is not
\* enabled by coming back, and no new address counts as confirmed.
KeepsUsers ==
    \A u \in Users : (Exists(u) /\ users'[u] # NoUser) =>
       /\ users[u].invite # Nobody => users'[u].invite = users[u].invite
       /\ users[u].status = "disabled" => users'[u].status = "disabled"
       /\ users'[u].email # users[u].email => ~users'[u].verified
       /\ keys[u] # Nobody => keys'[u] = keys[u]
UsersAreKept == [][KeepsUsers]_vars

-----------------------------------------------------------------------------
(* What makes them inductive. *)

Bounds == Nobody \notin Handlers /\ MaxKeys \in Nat

Rows == [email : Emails, status : {"active", "disabled"}, state : {"active", "orphaned"},
         invite : Codes \cup {Nobody}, verified : BOOLEAN] \cup {NoUser}
Requests == [step : {"upsert", "orphan", "key", "insert", "commit"}, user : Users, goal : {"key", "none"},
             email : Emails \cup {"none"}, tries : Nat, row : Rows, key : Keys \cup {Nobody}]

\* What may be written over a row.
Keeps(row, new) ==
    /\ row.invite # Nobody => new.invite = row.invite
    /\ row.status = "disabled" => new.status = "disabled"
    /\ new.email # row.email => ~new.verified

\* A draft is held by its request and follows the committed row, which nobody else changes.
DraftsKeep ==
    /\ \A h \in Handlers : request[h] # Idle =>
          /\ request[h].step = "upsert" => request[h].email \in Emails
          /\ request[h].row = NoUser \/ rowLock[request[h].user] = h
    /\ \A u \in Users, h \in Handlers : rowLock[u] = h =>
          /\ request[h] # Idle /\ request[h].user = u /\ request[h].step \in {"key", "insert", "commit"}
          /\ request[h].row # NoUser
          /\ Exists(u) => Keeps(users[u], request[h].row)

\* A key is inserted once, for a user who is there or comes with it.
KeysAreNew ==
    \A u \in Users, h \in Handlers : keyLock[u] = h =>
       /\ request[h] # Idle /\ request[h].user = u /\ request[h].step = "commit"
       /\ keys[u] = Nobody /\ (Exists(u) \/ rowLock[u] = h)

\* Neither the rows nor the drafts of two users have the same code.
CodesAreApart ==
    \A h \in Handlers, v \in Users :
       request[h] # Idle /\ v # request[h].user /\ request[h].row.invite # Nobody =>
          /\ users[v].invite # request[h].row.invite
          /\ \A g \in Handlers : rowLock[v] = g => request[g].row.invite # request[h].row.invite

IInv ==
    /\ TypeOK /\ users \in [Users -> Rows]
    /\ request \in [Handlers -> Requests \cup {Idle}]
    /\ DraftsKeep /\ KeysAreNew /\ CodesAreApart
=============================================================================
