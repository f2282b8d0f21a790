----------------------------- MODULE RedeemCodes -----------------------------
(***************************************************************************)
(* Codes that turn into points (domains/billing/service.py, 683 to 1207):  *)
(* operators create batches and disable codes, users redeem them.          *)
(*                                                                         *)
(* A redemption is one transaction: it reads the code FOR UPDATE, looks at *)
(* the other codes of the batch without a lock, grants the points under    *)
(* the row of the account, and marks the code.  What comes after the last  *)
(* lock is one step here, because nobody sees it before the commit.        *)
(***************************************************************************)
EXTENDS Naturals, FiniteSets

CONSTANTS
    Codes, Batches, Users, Handlers,
    Nobody,      \* no user, no handler, no code, no batch
    BatchSize    \* codes an operator asks for

\* Nobody is none of those it stands in for.
NobodyApart == Nobody \notin Users \cup Handlers \cup Batches \cup Codes

VARIABLES
    codes,      \* app.redeem_code; a free value has status "unused"
    ledger,     \* how many entries a user has for redeem_code:<id>
    season,     \* where the clock stands: before, within or after the validity
    codeLock, accountLock,   \* holders of the two rows
    step, task, \* a redemption: how far it is, for whom and which code
    told        \* codes of which an operator was told that they are disabled

vars == <<codes, ledger, season, codeLock, accountLock, step, task, told>>

Unused == [status |-> "unused", batch |-> Nobody, by |-> Nobody]
Active(b) == [status |-> "active", batch |-> b, by |-> Nobody]

Init ==
    /\ codes = [c \in Codes |-> Unused]
    /\ ledger = [e \in Users \X Codes |-> 0]
    /\ season = "early"
    /\ codeLock = [c \in Codes |-> Nobody]
    /\ accountLock = [u \in Users |-> Nobody]
    /\ step = [h \in Handlers |-> "idle"]
    /\ task = [h \in Handlers |-> [user |-> Nobody, code |-> Nobody]]
    /\ told = {}

-----------------------------------------------------------------------------
(* The operator's side. *)

\* Values are drawn at random, and one that is taken is drawn again; a batch
\* that stays short after twenty attempts for each code is not created at all.
CreateBatch(b) ==
    /\ \A c \in Codes : codes[c].batch # b
    /\ \E drawn \in SUBSET Codes :
         /\ Cardinality(drawn) = BatchSize
         /\ \A c \in drawn : codes[c] = Unused
         /\ codes' = [c \in Codes |-> IF c \in drawn THEN Active(b) ELSE codes[c]]
    /\ UNCHANGED <<ledger, season, codeLock, accountLock, step, task, told>>

\* UPDATE ... WHERE status = 'active' waits for a redemption of the code and
\* looks at what it left.  A code that is disabled already is no error.
Disable(c) ==
    /\ codes[c].status \in {"active", "disabled"} /\ codeLock[c] = Nobody
    /\ codes' = [codes EXCEPT ![c].status = "disabled"]
    /\ told' = told \cup {c}
    /\ UNCHANGED <<ledger, season, codeLock, accountLock, step, task>>

-----------------------------------------------------------------------------
(* A redemption. *)

Go(h, s) == step' = [step EXCEPT ![h] = s]

\* Faulty variant of Release: the transaction is returned to the pool open.
ReleaseNothing(h) ==
    /\ Go(h, "open")
    /\ UNCHANGED <<task, codeLock, accountLock>>

\* The transaction ends; its locks go with it.
Release(h) ==
    /\ Go(h, "idle")
    /\ task' = [task EXCEPT ![h] = [user |-> Nobody, code |-> Nobody]]
    /\ codeLock' = [c \in Codes |-> IF codeLock[c] = h THEN Nobody ELSE codeLock[c]]
    /\ accountLock' = [u \in Users |-> IF accountLock[u] = h THEN Nobody ELSE accountLock[u]]

Redeem(h, u, c) ==
    /\ step[h] = "idle"
    /\ codes[c] # Unused
    /\ Go(h, "lock_code")
    /\ task' = [task EXCEPT ![h] = [user |-> u, code |-> c]]
    /\ UNCHANGED <<codes, ledger, season, codeLock, accountLock, told>>

\* Faulty variant of LockCode: SELECT without FOR UPDATE.
ReadCode(h) ==
    /\ step[h] = "lock_code"
    /\ Go(h, "check")
    /\ UNCHANGED <<codes, ledger, season, codeLock, accountLock, task, told>>

\* SELECT ... FOR UPDATE: what is read is the row after the wait.
LockCode(h) ==
    /\ step[h] = "lock_code"
    /\ codeLock[task[h].code] = Nobody
    /\ codeLock' = [codeLock EXCEPT ![task[h].code] = h]
    /\ Go(h, "check")
    /\ UNCHANGED <<codes, ledger, season, accountLock, task, told>>

OtherOfBatch(u, c) ==
    \E d \in Codes \ {c} : codes[d].batch = codes[c].batch /\ codes[d].by = u

Redeemable(u, c) ==
    /\ codes[c].status = "active"
    /\ ~OtherOfBatch(u, c)
    /\ season = "valid"

Check(h) ==
    /\ step[h] = "check"
    /\ Redeemable(task[h].user, task[h].code)
    /\ Go(h, "lock_account")
    /\ UNCHANGED <<codes, ledger, season, codeLock, accountLock, task, told>>

\* A code past its validity is marked 'expired', and the exception that
\* follows takes the mark back with everything else.
Refuse(h) ==
    /\ step[h] = "check"
    /\ ~Redeemable(task[h].user, task[h].code)
    /\ Release(h)
    /\ UNCHANGED <<codes, ledger, season, told>>

LockAccount(h) ==
    /\ step[h] = "lock_account"
    /\ accountLock[task[h].user] = Nobody
    /\ accountLock' = [accountLock EXCEPT ![task[h].user] = h]
    /\ Go(h, "write")
    /\ UNCHANGED <<codes, ledger, season, codeLock, task, told>>

\* Faulty variant of UniqueInBatch: an index on codes only.
NotUnique(u, c) == TRUE

\* idx_redeem_code_batch_user_once: a user has one code of a batch.
UniqueInBatch(u, c) == ~OtherOfBatch(u, c)

Write(h) ==
    LET u == task[h].user
        c == task[h].code
    IN  /\ step[h] = "write"
        /\ UniqueInBatch(u, c)
        /\ ledger' = [ledger EXCEPT ![<<u, c>>] = @ + 1]
        /\ codes' = [codes EXCEPT ![c].status = "redeemed", ![c].by = u]
        /\ Release(h)
        /\ UNCHANGED <<season, told>>

\* The unique index refuses the code: 23505, and the points are taken back.
RefuseDuplicate(h) ==
    /\ step[h] = "write"
    /\ ~UniqueInBatch(task[h].user, task[h].code)
    /\ Release(h)
    /\ UNCHANGED <<codes, ledger, season, told>>

\* Connection, process or client gone: the database rolls back.
Abort(h) ==
    /\ step[h] # "idle"
    /\ Release(h)
    /\ UNCHANGED <<codes, ledger, season, told>>

\* valid_from and valid_until pass.
Tick ==
    /\ season # "late"
    /\ season' = IF season = "early" THEN "valid" ELSE "late"
    /\ UNCHANGED <<codes, ledger, codeLock, accountLock, step, task, told>>

Next ==
    \/ Tick
    \/ \E b \in Batches : CreateBatch(b)
    \/ \E c \in Codes : Disable(c)
    \/ \E h \in Handlers :
         \/ \E u \in Users, c \in Codes : Redeem(h, u, c)
         \/ LockCode(h) \/ Check(h) \/ Refuse(h)
         \/ LockAccount(h) \/ Write(h) \/ RefuseDuplicate(h) \/ Abort(h)

Spec == Init /\ [][Next]_vars

-----------------------------------------------------------------------------
TypeOK ==
    /\ codes \in [Codes -> [status : {"unused", "active", "disabled", "redeemed"},
                            batch : Batches \cup {Nobody}, by : Users \cup {Nobody}]]
    /\ ledger \in [Users \X Codes -> Nat]
    /\ season \in {"early", "valid", "late"}
    /\ codeLock \in [Codes -> Handlers \cup {Nobody}]
    /\ accountLock \in [Users -> Handlers \cup {Nobody}]
    /\ step \in [Handlers -> {"idle", "lock_code", "check", "lock_account", "write"}]
    /\ task \in [Handlers -> [user : Users \cup {Nobody}, code : Codes \cup {Nobody}]]
    /\ told \subseteq Codes

\* A code has paid exactly when it is marked as redeemed: once, to the user
\* it names, and to nobody when an operator was told that it is disabled,
\* whatever redemptions of it were waiting (_redeem_code, _disable_redeem_code).
CodePaysOnce ==
    \A c \in Codes, u \in Users :
        /\ ledger[<<u, c>>] = (IF codes[c].status = "redeemed" /\ codes[c].by = u THEN 1 ELSE 0)
        /\ c \in told => ledger[<<u, c>>] = 0

\* An account redeems one code of a batch, even when two of its requests
\* hold two codes of the batch at the same time (_redeem_code and
\* idx_redeem_code_batch_user_once).
OneCodePerBatch ==
    \A c, d \in Codes :
        c # d /\ codes[c].batch = codes[d].batch /\ codes[c].by # Nobody
            => codes[c].by # codes[d].by
=============================================================================
