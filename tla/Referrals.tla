------------------------------ MODULE Referrals ------------------------------
(***************************************************************************)
(* Invitations (domains/identity/service.py and domains/billing/service.py,*)
(* with the routes of api/portal_routes.py that call them): a user names   *)
(* an inviter before confirming the address of the account; the user is    *)
(* rewarded for naming one, the inviter when the address is confirmed.     *)
(*                                                                         *)
(* Every request is one transaction at READ COMMITTED.  It writes into its *)
(* draft, which others see when it commits; where a write would meet the   *)
(* uncommitted write of another transaction, it waits.                     *)
(***************************************************************************)
EXTENDS Naturals, FiniteSets

CONSTANTS Users, Handlers, Nobody

\* Nobody is no user and no handler.
NobodyApart == Nobody \notin Users \cup Handlers

Kinds == {"inviter", "invited"}   \* the two rewards, and their two rules

VARIABLES
    verified,   \* users whose email_verified_at is set
    binding,    \* app.user_referral_binding: who invited a user
    rewarded,   \* users whose binding has rewarded_at
    paid,       \* <<kind, invited user>>: ledger entries of the reward
    claims,     \* app.promotion_claim, unique for rule and invited user
    rules,      \* rules that are active; without one a default is granted
    lock,       \* holders of the rows of app.user_credit_account
    stage, request, draft

vars == <<verified, binding, rewarded, paid, claims, rules, lock, stage, request, draft>>
tables == <<verified, binding, rewarded, paid, claims, rules>>

NoTask == [kind |-> "none", user |-> Nobody, inviter |-> Nobody]
NoDraft == [verified |-> FALSE, inviter |-> Nobody, claims |-> {}, paid |-> {}, marked |-> FALSE]

Init ==
    /\ verified = {} /\ rewarded = {} /\ claims = {}
    /\ binding = [u \in Users |-> Nobody]
    /\ paid = [e \in Kinds \X Users |-> 0]
    /\ rules = Kinds
    /\ lock = [u \in Users |-> Nobody]
    /\ stage = [h \in Handlers |-> "idle"]
    /\ request = [h \in Handlers |-> NoTask]
    /\ draft = [h \in Handlers |-> NoDraft]

-----------------------------------------------------------------------------
Go(h, s) == stage' = [stage EXCEPT ![h] = s]
User(h) == request[h].user

\* What a statement of h sees: what is committed, and what h wrote itself.
SeesVerified(h) == User(h) \in verified \/ draft[h].verified
SeesInviter(h) == IF draft[h].inviter # Nobody THEN draft[h].inviter ELSE binding[User(h)]

\* Others that work for the same user, and have written this.
OthersOf(h) == {g \in Handlers \ {h} : User(g) = User(h)}

End(h) ==
    /\ Go(h, "idle")
    /\ request' = [request EXCEPT ![h] = NoTask]
    /\ draft' = [draft EXCEPT ![h] = NoDraft]
    /\ lock' = [u \in Users |-> IF lock[u] = h THEN Nobody ELSE lock[u]]

\* The rest of the request, and COMMIT.
Commit(h) ==
    LET u == User(h)
        d == draft[h]
    IN  /\ stage[h] = "done"
        /\ verified' = IF d.verified THEN verified \cup {u} ELSE verified
        /\ binding' = IF d.inviter # Nobody THEN [binding EXCEPT ![u] = d.inviter] ELSE binding
        /\ claims' = claims \cup {<<k, u>> : k \in d.claims}
        /\ paid' = [e \in Kinds \X Users |->
                       IF e[2] = u /\ e[1] \in d.paid THEN paid[e] + 1 ELSE paid[e]]
        /\ rewarded' = IF d.marked THEN rewarded \cup {u} ELSE rewarded
        /\ End(h)
        /\ UNCHANGED rules

\* A refusal, a lost connection, or a deadlock that the database resolves.
Abort(h) ==
    /\ stage[h] # "idle"
    /\ End(h)
    /\ UNCHANGED tables

-----------------------------------------------------------------------------
(* Requests.  A view provisions the account, as every internal call does.  *)

Start(h, kind, u, i) ==
    /\ stage[h] = "idle"
    /\ request' = [request EXCEPT ![h] = [kind |-> kind, user |-> u, inviter |-> i]]
    /\ Go(h, CASE kind = "confirm" -> "confirm" [] kind = "bind" -> "bind" [] OTHER -> "own")
    /\ UNCHANGED <<tables, lock, draft>>

\* The code, or the link, of the message is accepted.  Of two at a time the
\* second waits for the row of the challenge and writes the same again.
Confirm(h) ==
    /\ stage[h] = "confirm"
    /\ \A g \in OthersOf(h) : ~draft[g].verified
    /\ draft' = [draft EXCEPT ![h].verified = User(h) \notin verified]
    /\ Go(h, "own")
    /\ UNCHANGED <<tables, lock, request>>

\* Not after the confirmation, not oneself, not a second inviter.
MayBind(h) ==
    /\ User(h) \notin verified
    /\ request[h].inviter # User(h)
    /\ binding[User(h)] \in {Nobody, request[h].inviter}

BindCheck(h) ==
    /\ stage[h] = "bind"
    /\ MayBind(h)
    /\ Go(h, IF binding[User(h)] = Nobody THEN "insert" ELSE "invited")
    /\ UNCHANGED <<tables, lock, request, draft>>

BindRefused(h) ==
    /\ stage[h] = "bind" /\ ~MayBind(h)
    /\ Abort(h)

\* UNIQUE (invited_user_id): a second insertion waits and then fails.
Insert(h) ==
    /\ stage[h] = "insert"
    /\ \A g \in OthersOf(h) : draft[g].inviter = Nobody
    /\ IF binding[User(h)] # Nobody
       THEN Abort(h)
       ELSE /\ draft' = [draft EXCEPT ![h].inviter = request[h].inviter]
            /\ Go(h, "invited")
            /\ UNCHANGED <<tables, lock, request>>

\* The claim that goes with an active rule; ON CONFLICT DO NOTHING waits for
\* whoever is inserting the same.
ClaimFree(h, k) == \A g \in OthersOf(h) : k \notin draft[g].claims
Claimed(h, k) == k \in rules /\ <<k, User(h)>> \in claims
Claim(d, k) == IF k \in rules THEN [d EXCEPT !.claims = @ \cup {k}] ELSE d

\* Faulty variant of InvitedReward: without an active rule nothing is granted.
InvitedByRule(h) ==
    /\ stage[h] = "invited"
    /\ ClaimFree(h, "invited")
    /\ IF "invited" \notin rules \/ paid[<<"invited", User(h)>>] > 0
       THEN /\ Go(h, "own") /\ UNCHANGED draft
       ELSE /\ draft' = [draft EXCEPT ![h] = Claim(@, "invited")]
            /\ Go(h, "fund")
    /\ UNCHANGED <<tables, lock, request>>

\* _grant_referral_invited_reward_if_needed up to the lock of the account.
InvitedReward(h) ==
    /\ stage[h] = "invited"
    /\ ClaimFree(h, "invited")
    /\ IF paid[<<"invited", User(h)>>] > 0 \/ Claimed(h, "invited")
       THEN /\ Go(h, "own") /\ UNCHANGED draft
       ELSE /\ draft' = [draft EXCEPT ![h] = Claim(@, "invited")]
            /\ Go(h, "fund")
    /\ UNCHANGED <<tables, lock, request>>

Fund(h) ==
    /\ stage[h] = "fund"
    /\ lock[User(h)] \in {Nobody, h}
    /\ lock' = [lock EXCEPT ![User(h)] = h]
    /\ draft' = [draft EXCEPT ![h].paid = @ \cup {"invited"}]
    /\ Go(h, "own")
    /\ UNCHANGED <<tables, request>>

-----------------------------------------------------------------------------
(* _ensure_user_credit_account_state. *)

\* The upsert of the own account locks its row before anything is looked up.
LockOwn(h) ==
    /\ stage[h] = "own"
    /\ lock[User(h)] \in {Nobody, h}
    /\ lock' = [lock EXCEPT ![User(h)] = h]
    /\ Go(h, "reward")
    /\ UNCHANGED <<tables, request, draft>>

\* Nothing is due: no inviter, not confirmed, or rewarded before, in which
\* case the binding is marked (again).
Settled(h) ==
    paid[<<"inviter", User(h)>>] > 0 \/ User(h) \in rewarded \/ Claimed(h, "inviter")

NothingDue(h) ==
    /\ stage[h] = "reward"
    /\ \/ SeesInviter(h) = Nobody
       \/ ~SeesVerified(h)
       \/ ClaimFree(h, "inviter") /\ Settled(h)
    /\ draft' = [draft EXCEPT ![h].marked = SeesInviter(h) # Nobody /\ SeesVerified(h)]
    /\ Go(h, "done")
    /\ UNCHANGED <<tables, lock, request>>

RewardDue(h) ==
    /\ stage[h] = "reward"
    /\ SeesInviter(h) # Nobody /\ SeesVerified(h)
    /\ ClaimFree(h, "inviter") /\ ~Settled(h)
    /\ draft' = [draft EXCEPT ![h] = Claim(@, "inviter")]
    /\ Go(h, "inviter")
    /\ UNCHANGED <<tables, lock, request>>

\* The inviter's account is the second row this transaction locks.
RewardInviter(h) ==
    /\ stage[h] = "inviter"
    /\ lock[SeesInviter(h)] \in {Nobody, h}
    /\ draft' = [draft EXCEPT ![h].paid = @ \cup {"inviter"}, ![h].marked = TRUE]
    /\ lock' = [lock EXCEPT ![SeesInviter(h)] = h]
    /\ Go(h, "done")
    /\ UNCHANGED <<tables, request>>

\* An operator switches a rule on or off.
SwitchRule(k) ==
    /\ rules' = IF k \in rules THEN rules \ {k} ELSE rules \cup {k}
    /\ UNCHANGED <<verified, binding, rewarded, paid, claims, lock, stage, request, draft>>

Next ==
    \/ \E k \in Kinds : SwitchRule(k)
    \/ \E h \in Handlers :
         \/ \E kind \in {"confirm", "bind", "view"}, u, i \in Users :
              (kind # "bind" => i = u) /\ Start(h, kind, u, i)
         \/ Confirm(h) \/ BindCheck(h) \/ BindRefused(h) \/ Insert(h)
         \/ InvitedReward(h) \/ Fund(h) \/ LockOwn(h)
         \/ NothingDue(h) \/ RewardDue(h) \/ RewardInviter(h)
         \/ Commit(h) \/ Abort(h)

Spec == Init /\ [][Next]_vars

-----------------------------------------------------------------------------
TypeOK ==
    /\ verified \subseteq Users /\ rewarded \subseteq Users
    /\ binding \in [Users -> Users \cup {Nobody}]
    /\ paid \in [Kinds \X Users -> Nat]
    /\ claims \subseteq Kinds \X Users /\ rules \subseteq Kinds
    /\ lock \in [Users -> Handlers \cup {Nobody}]
    /\ stage \in [Handlers -> {"idle", "confirm", "bind", "insert", "invited", "fund",
                              "own", "reward", "inviter", "done"}]
    /\ request \in [Handlers -> [kind : {"none", "confirm", "bind", "view"},
                              user : Users \cup {Nobody}, inviter : Users \cup {Nobody}]]
    /\ draft \in [Handlers -> [verified : BOOLEAN, inviter : Users \cup {Nobody},
                               claims : SUBSET Kinds, paid : SUBSET Kinds, marked : BOOLEAN]]

\* Whatever requests and whatever changes of the rules come together, a user
\* who named an inviter is rewarded once, the inviter is rewarded once and
\* exactly when the binding says so, and only for a confirmed address
\* (_grant_referral_invited_reward_if_needed, _grant_referral_inviter_reward_if_needed).
RewardedExactlyOnce ==
    \A u \in Users :
        /\ paid[<<"invited", u>>] = (IF binding[u] # Nobody THEN 1 ELSE 0)
        /\ paid[<<"inviter", u>>] = (IF u \in rewarded THEN 1 ELSE 0)
        /\ u \in rewarded => u \in verified /\ binding[u] \notin {Nobody, u}
=============================================================================
