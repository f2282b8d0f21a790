--------------------------- MODULE EmailChallenges ---------------------------
(***************************************************************************)
(* Codes sent by mail (domains/identity/service.py): for the confirmation  *)
(* of the address of an account, for sensitive actions on a page, and for  *)
(* a forgotten password.  One user, whose address may change in Open WebUI *)
(* at any time.                                                            *)
(*                                                                         *)
(* Every request is one transaction at READ COMMITTED: it writes into its  *)
(* draft, others see it at its commit, and wait where they would write the *)
(* same row.  The mail goes out while the transaction is open.             *)
(***************************************************************************)
EXTENDS Naturals, FiniteSets, FiniteSetsExt

CONSTANTS Addresses, Handlers, Nothing,
          Purposes,      \* "signup" and others: "security_verify", "password_reset"
          DailyLimit,    \* daily_send_limit_per_email
          MaxChallenges  \* bound of the model on the rows of the table

Ids == 1..MaxChallenges      \* in the order of created_at

\* Nothing is no address and no purpose, and the bounds are numbers.
Bounds ==
    /\ Nothing \notin Addresses \cup Purposes \cup {"signup"}
    /\ DailyLimit \in Nat /\ MaxChallenges \in Nat

VARIABLES
    address, confirmed,      \* app.app_user: email, email_verified_at
    challenges,              \* app.email_verification_challenge
    at, wish, found, writes  \* the open requests

vars == <<address, confirmed, challenges, at, wish, found, writes>>

NoRow == [purpose |-> Nothing, to |-> Nothing, consumed |-> FALSE,
          expired |-> FALSE, today |-> FALSE, sent |-> FALSE]
NoWish == [kind |-> "none", purpose |-> Nothing, auto |-> FALSE, id |-> 0, to |-> Nothing]
NoFind == [to |-> Nothing, old |-> {}]
NoWrites == [key |-> Nothing, consumes |-> {}, made |-> 0, row |-> NoRow,
             confirms |-> FALSE, moves |-> Nothing, touches |-> FALSE]

Init ==
    /\ address \in Addresses /\ confirmed = FALSE
    /\ challenges = [c \in Ids |-> NoRow]
    /\ at = [h \in Handlers |-> "idle"]
    /\ wish = [h \in Handlers |-> NoWish]
    /\ found = [h \in Handlers |-> NoFind]
    /\ writes = [h \in Handlers |-> NoWrites]

-----------------------------------------------------------------------------
Step(h, s) == at' = [at EXCEPT ![h] = s]
Others(h) == Handlers \ {h}
Rows == {c \in Ids : challenges[c] # NoRow}
Unconsumed(p) == {c \in Rows : challenges[c].purpose = p /\ ~challenges[c].consumed}

\* The challenges that a code is compared with, and the latest of them.
Active(p, a) == {c \in Unconsumed(p) : challenges[c].to = a /\ ~challenges[c].expired}
Latest(p, a) == IF Active(p, a) = {} THEN 0 ELSE Max(Active(p, a))

\* The rows that others have written and not yet committed.
RowsFree(h, cs) == \A g \in Others(h) : writes[g].consumes \cap cs = {}
UserFree(h) ==
    \A g \in Others(h) : ~writes[g].confirms /\ ~writes[g].touches /\ writes[g].moves = Nothing

Ended(h) ==
    /\ Step(h, "idle")
    /\ wish' = [wish EXCEPT ![h] = NoWish]
    /\ found' = [found EXCEPT ![h] = NoFind]
    /\ writes' = [writes EXCEPT ![h] = NoWrites]

\* An exception: the transaction is rolled back.
Abort(h) ==
    /\ at[h] # "idle"
    /\ Ended(h)
    /\ UNCHANGED <<address, confirmed, challenges>>

\* Faulty variant of AddressAfter: what is not given is written too.
AddressAfterAny(w) == w.moves

\* A request that brings no other address leaves it alone.
AddressAfter(w) == IF w.moves # Nothing THEN w.moves ELSE address

Commit(h) ==
    LET w == writes[h]
    IN  /\ at[h] = "commit"
        /\ challenges' = [c \in Ids |->
              IF c = w.made THEN w.row
              ELSE IF c \in w.consumes THEN [challenges[c] EXCEPT !.consumed = TRUE]
              ELSE challenges[c]]
        /\ address' = AddressAfter(w)
        /\ confirmed' = ((w.confirms \/ confirmed) /\ w.moves = Nothing)
        /\ Ended(h)

-----------------------------------------------------------------------------
(* A code is asked for: by the user, or (auto) by any request of a user     *)
(* whose address is not confirmed, which goes on whatever happens.          *)

\* Nothing is sent once the address is confirmed, and (auto) while the last
\* code still holds.
NeedsCode(p, auto) ==
    p = "signup" => ~confirmed /\ ~(auto /\ Active("signup", address) # {})

Ask(h, p, auto) ==
    /\ at[h] = "idle"
    /\ auto => p = "signup"
    /\ NeedsCode(p, auto)
    /\ wish' = [wish EXCEPT ![h] = [NoWish EXCEPT !.kind = "ask", !.purpose = p, !.auto = auto]]
    /\ found' = [found EXCEPT ![h].to = address]
    /\ Step(h, IF p = "signup" THEN "lock" ELSE "quota")
    /\ UNCHANGED <<address, confirmed, challenges, writes>>

\* Faulty variant of LockRequest: two requests are not kept apart.
LockNoRequest(h) ==
    /\ at[h] = "lock"
    /\ Step(h, "quota")
    /\ UNCHANGED <<address, confirmed, challenges, wish, found, writes>>

\* pg_advisory_xact_lock for user and address.
LockRequest(h) ==
    /\ at[h] = "lock"
    /\ \A g \in Others(h) : writes[g].key # found[h].to
    /\ writes' = [writes EXCEPT ![h].key = found[h].to]
    /\ Step(h, "quota")
    /\ UNCHANGED <<address, confirmed, challenges, wish, found>>

SentToday(p, a) ==
    Cardinality({c \in Rows : challenges[c].purpose = p /\ challenges[c].to = a /\ challenges[c].today})

\* While a signup code holds, it is announced again; other codes are renewed
\* after a pause, which has passed or not.
MustSend(h) ==
    wish[h].purpose = "signup" => Active("signup", found[h].to) = {}

CheckQuota(h) ==
    /\ at[h] = "quota"
    /\ IF ~MustSend(h) THEN Step(h, "commit") /\ UNCHANGED found
       ELSE /\ SentToday(wish[h].purpose, found[h].to) < DailyLimit
            /\ found' = [found EXCEPT ![h].old = Unconsumed(wish[h].purpose)]
            /\ Step(h, "consume")
    /\ UNCHANGED <<address, confirmed, challenges, wish, writes>>

\* The refusal is swallowed where nobody asked.
OverQuota(h) ==
    /\ at[h] = "quota" /\ MustSend(h)
    /\ SentToday(wish[h].purpose, found[h].to) >= DailyLimit
    /\ IF wish[h].auto
       THEN Step(h, "commit") /\ UNCHANGED <<address, confirmed, challenges, wish, found, writes>>
       ELSE Abort(h)

ConsumeOld(h) ==
    /\ at[h] = "consume"
    /\ RowsFree(h, found[h].old)
    /\ writes' = [writes EXCEPT ![h].consumes = found[h].old]
    /\ found' = [found EXCEPT ![h].old = {}]
    /\ Step(h, "insert")
    /\ UNCHANGED <<address, confirmed, challenges, wish>>

InsertChallenge(h) ==
    /\ at[h] = "insert"
    /\ \E c \in Ids \ (Rows \cup {writes[g].made : g \in Handlers}) :
          writes' = [writes EXCEPT ![h].made = c,
                         ![h].row = [purpose |-> wish[h].purpose, to |-> found[h].to,
                                     consumed |-> FALSE, expired |-> FALSE,
                                     today |-> TRUE, sent |-> FALSE]]
    /\ found' = [found EXCEPT ![h] = NoFind]
    /\ Step(h, "send")
    /\ UNCHANGED <<address, confirmed, challenges, wish>>

SendMail(h) ==
    /\ at[h] = "send"
    /\ writes' = [writes EXCEPT ![h].row.sent = TRUE]
    /\ wish' = [wish EXCEPT ![h] = NoWish]
    /\ Step(h, "commit")
    /\ UNCHANGED <<address, confirmed, challenges, found>>

\* The server of the mail is not there.
SendFails(h) ==
    /\ at[h] = "send"
    /\ IF wish[h].auto
       THEN Step(h, "commit") /\ UNCHANGED <<address, confirmed, challenges, wish, found, writes>>
       ELSE Abort(h)

-----------------------------------------------------------------------------
(* A code that was received, or the link beside it, comes back.             *)

Returned(h, kind, c) ==
    /\ at[h] = "idle"
    /\ c \in Rows /\ challenges[c].sent
    /\ wish' = [wish EXCEPT ![h] = [NoWish EXCEPT !.kind = kind, !.id = c,
                                                  !.purpose = challenges[c].purpose]]
    /\ found' = [found EXCEPT ![h].to = address]

\* The user is read first; an address that is confirmed is not confirmed again.
ReturnCode(h, c) ==
    /\ Returned(h, "code", c)
    /\ challenges[c].purpose = "signup" => ~confirmed
    /\ Step(h, "code")
    /\ UNCHANGED <<address, confirmed, challenges, writes>>

\* A code is compared with the latest one.  Of another one, the failed attempt
\* is written, and rolled back by the exception that tells of it.
CompareCode(h) ==
    /\ at[h] = "code"
    /\ Latest(wish[h].purpose, found[h].to) = wish[h].id
    /\ Step(h, "consumeOne")
    /\ UNCHANGED <<address, confirmed, challenges, wish, found, writes>>

WrongCode(h) ==
    /\ at[h] = "code"
    /\ Latest(wish[h].purpose, found[h].to) # wish[h].id
    /\ Abort(h)

\* A link names its challenge, and is refused if that is for another address,
\* consumed or expired.  Of a confirmed address it is only consumed.
FollowLink(h, c) ==
    /\ Returned(h, "link", c)
    /\ challenges[c].purpose = "signup" /\ challenges[c].to = address
    /\ ~challenges[c].consumed
    /\ ~confirmed => ~challenges[c].expired
    /\ Step(h, IF confirmed THEN "tidy" ELSE "consumeOne")
    /\ UNCHANGED <<address, confirmed, challenges, writes>>

\* UPDATE ... WHERE challenge_id: who comes second writes it again.
ConsumeOne(h) ==
    /\ at[h] \in {"consumeOne", "tidy"}
    /\ RowsFree(h, {wish[h].id})
    /\ writes' = [writes EXCEPT ![h].consumes = {wish[h].id}]
    /\ found' = [found EXCEPT ![h] = NoFind]
    /\ Step(h, IF at[h] = "tidy" THEN "commit" ELSE "settle")
    /\ UNCHANGED <<address, confirmed, challenges, wish>>

\* The row of the user: confirmed, or only touched.
Settle(h) ==
    /\ at[h] = "settle"
    /\ UserFree(h)
    /\ writes' = [writes EXCEPT ![h].confirms = (wish[h].purpose = "signup"),
                                ![h].touches = TRUE]
    /\ wish' = [wish EXCEPT ![h] = NoWish]
    /\ Step(h, "commit")
    /\ UNCHANGED <<address, confirmed, challenges, found>>

-----------------------------------------------------------------------------
\* The user signs in with another address than the row has.
SignIn(h, a) ==
    /\ at[h] = "idle" /\ a # address
    /\ wish' = [wish EXCEPT ![h] = [NoWish EXCEPT !.kind = "signin", !.to = a]]
    /\ Step(h, "upsert")
    /\ UNCHANGED <<address, confirmed, challenges, found, writes>>

\* A new address is not confirmed.
Upsert(h) ==
    /\ at[h] = "upsert"
    /\ UserFree(h)
    /\ writes' = [writes EXCEPT ![h].moves = IF wish[h].to = address THEN Nothing ELSE wish[h].to,
                                ![h].touches = TRUE]
    /\ wish' = [wish EXCEPT ![h] = NoWish]
    /\ Step(h, "commit")
    /\ UNCHANGED <<address, confirmed, challenges, found>>

Expire(c) ==
    /\ c \in Rows /\ ~challenges[c].expired
    /\ challenges' = [challenges EXCEPT ![c].expired = TRUE]
    /\ UNCHANGED <<address, confirmed, at, wish, found, writes>>

NextDay ==
    /\ \E c \in Rows : challenges[c].today
    /\ challenges' = [c \in Ids |-> [challenges[c] EXCEPT !.today = FALSE]]
    /\ UNCHANGED <<address, confirmed, at, wish, found, writes>>

Next ==
    \/ NextDay
    \/ \E c \in Ids : Expire(c)
    \/ \E h \in Handlers :
         \/ \E p \in Purposes, auto \in BOOLEAN : Ask(h, p, auto)
         \/ \E c \in Ids : ReturnCode(h, c) \/ FollowLink(h, c)
         \/ \E a \in Addresses : SignIn(h, a)
         \/ LockRequest(h) \/ CheckQuota(h) \/ OverQuota(h)
         \/ ConsumeOld(h) \/ InsertChallenge(h) \/ SendMail(h) \/ SendFails(h)
         \/ CompareCode(h) \/ WrongCode(h) \/ ConsumeOne(h) \/ Settle(h) \/ Upsert(h)
         \/ Commit(h) \/ Abort(h)

Spec == Init /\ [][Next]_vars

-----------------------------------------------------------------------------
Row == [purpose : Purposes \cup {Nothing}, to : Addresses \cup {Nothing}, consumed : BOOLEAN,
        expired : BOOLEAN, today : BOOLEAN, sent : BOOLEAN]

TypeOK ==
    /\ address \in Addresses /\ confirmed \in BOOLEAN
    /\ challenges \in [Ids -> Row]
    /\ at \in [Handlers -> {"idle", "lock", "quota", "consume", "insert", "send", "code",
                            "tidy", "consumeOne", "settle", "upsert", "commit"}]
    /\ wish \in [Handlers -> [kind : {"none", "ask", "code", "link", "signin"}, auto : BOOLEAN,
                              purpose : Purposes \cup {Nothing}, id : 0..MaxChallenges,
                              to : Addresses \cup {Nothing}]]
    /\ found \in [Handlers -> [to : Addresses \cup {Nothing}, old : SUBSET Ids]]
    /\ writes \in [Handlers -> [key : Addresses \cup {Nothing}, consumes : SUBSET Ids,
                                made : 0..MaxChallenges, row : Row, confirms : BOOLEAN,
                                moves : Addresses \cup {Nothing}, touches : BOOLEAN]]

\* However many requests ask for it at once, an address has one code for its
\* confirmation that is not consumed: no mail is outdated by one that was sent
\* beside it (_lock_email_verification_request).
OneOpenCode ==
    \A c, d \in Unconsumed("signup") : challenges[c].to = challenges[d].to => c = d

\* Nor is an address sent more of them in a day than the limit
\* (_enforce_email_verification_send_quota counts before it inserts).
SendLimit == \A a \in Addresses : SentToday("signup", a) <= DailyLimit
=============================================================================
