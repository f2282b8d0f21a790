--------------------------- MODULE DialogueProofs ---------------------------
(***************************************************************************)
(* Proofs about the parts of Dialogues: that an inductive invariant holds  *)
(* in the first states of a part, that its steps keep it, and that it      *)
(* implies what the part promises.  ServicesProofs puts them together.     *)
(***************************************************************************)
EXTENDS Dialogues, Induction, SequenceTheorems, FiniteSetTheorems, TLAPS

-----------------------------------------------------------------------------
(***************************************************************************)
(* Invitations: x1 are the confirmed users, x2 the bindings, x3 those that *)
(* are rewarded, x4 what was paid, x5 the claims, x6 the rules, x7 the     *)
(* locks of accounts, x8 to x10 the requests and their drafts.             *)
(*                                                                         *)
(* Two things keep rewards from being granted twice: one transaction at a  *)
(* time inserts a binding (InviteAlone), and whoever looks at the reward   *)
(* of the inviter holds the account of the invited user (InviteLocked).    *)
(* What a draft then promises is still true of the tables when it is       *)
(* committed (InviteSound).                                                *)
(***************************************************************************)
InviteEarly == {"idle", "confirm", "bind", "insert"}
InviteLate == {"reward", "inviter", "done"}

InviteSound(h) ==
    /\ x8[h] # "idle" => Invite!User(h) \in Owners /\ x9[h].inviter \in Owners
    /\ x8[h] \in InviteEarly =>
          x10[h].inviter = Nobody /\ x10[h].claims = {} /\ x10[h].paid = {}
    /\ x8[h] = "insert" => x9[h].inviter # Invite!User(h)
    /\ x8[h] = "invited" =>
          /\ x10[h].inviter # Nobody \/ x2[Invite!User(h)] # Nobody
          /\ x10[h].claims = {} /\ x10[h].paid = {}
    /\ x8[h] = "fund" => x10[h].inviter # Nobody /\ x10[h].paid = {}
    /\ x10[h].inviter # Nobody =>
          x10[h].inviter # Invite!User(h) /\ x2[Invite!User(h)] = Nobody
    /\ "invited" \in x10[h].claims => x10[h].inviter # Nobody
    /\ x8[h] \in {"own"} \cup InviteLate => ("invited" \in x10[h].paid <=> x10[h].inviter # Nobody)
    /\ "inviter" \in x10[h].claims => x8[h] \in {"inviter", "done"}
    /\ "inviter" \in x10[h].paid => x8[h] = "done"
    /\ x8[h] = "inviter" =>
          Invite!User(h) \notin x3 /\ Invite!SeesInviter(h) # Nobody /\ Invite!SeesVerified(h)
    /\ x8[h] = "done" =>
          /\ x10[h].marked => Invite!SeesInviter(h) # Nobody /\ Invite!SeesVerified(h)
          /\ "inviter" \in x10[h].paid <=> x10[h].marked /\ Invite!User(h) \notin x3
          /\ "inviter" \in x10[h].claims => x10[h].marked

InviteLocked(h) == x8[h] \in InviteLate => x7[Invite!User(h)] = h

InviteAlone(g, h) ==
    Invite!User(g) = Invite!User(h) => x10[g].inviter = Nobody \/ x10[h].inviter = Nobody

InviteTables(u) ==
    /\ x2[u] # u
    /\ <<"invited", u>> \in x5 => x2[u] # Nobody
    /\ <<"inviter", u>> \in x5 => u \in x3

InviteInv ==
    /\ Invite!TypeOK
    /\ \A h \in Actors : InviteSound(h) /\ InviteLocked(h)
    /\ \A g, h \in Actors : g # h => InviteAlone(g, h)
    /\ \A u \in Owners : InviteTables(u)
    /\ Invite!RewardedExactlyOnce

InviteStages == {"idle", "confirm", "bind", "insert", "invited", "fund", "own", "reward", "inviter", "done"}
InviteRequests == [kind : {"none", "confirm", "bind", "view"},
             user : Owners \cup {Nobody}, inviter : Owners \cup {Nobody}]
InviteDrafts == [verified : BOOLEAN, inviter : Owners \cup {Nobody},
           claims : SUBSET Invite!Kinds, paid : SUBSET Invite!Kinds, marked : BOOLEAN]

-----------------------------------------------------------------------------
LEMMA InviteInit == Invite!NobodyApart /\ Invite!Init => InviteInv
<1> SUFFICES ASSUME Invite!NobodyApart, Invite!Init PROVE InviteInv
    OBVIOUS
<1>1. Invite!TypeOK
    BY DEF Invite!Init, Invite!TypeOK, Invite!NoTask, Invite!NoDraft, Invite!Kinds
<1>2. Invite!RewardedExactlyOnce
    BY DEF Invite!Init, Invite!RewardedExactlyOnce, Invite!Kinds
<1>3. ASSUME NEW h \in Actors PROVE InviteSound(h) /\ InviteLocked(h)
    BY DEF Invite!Init, InviteSound, InviteLocked, InviteEarly, InviteLate, Invite!NoDraft
<1>4. ASSUME NEW g \in Actors, NEW h \in Actors PROVE InviteAlone(g, h)
    BY DEF Invite!Init, InviteAlone, Invite!NoDraft
<1>5. ASSUME NEW u \in Owners PROVE InviteTables(u)
    BY DEF Invite!Init, InviteTables, Invite!NobodyApart
<1> QED
    BY <1>1, <1>2, <1>3, <1>4, <1>5 DEF InviteInv

\* A step of one handler that does not commit: what has to be shown of it.
LEMMA InviteLocalStep ==
    ASSUME InviteInv, NEW h \in Actors,
           UNCHANGED <<x1, x2, x3, x4, x5>>,
           \A g \in Actors \ {h} :
              x8'[g] = x8[g] /\ x9'[g] = x9[g] /\ x10'[g] = x10[g],
           \A g \in Actors \ {h}, u \in Owners : x7[u] = g => x7'[u] = g,
           Invite!TypeOK', InviteSound(h)', InviteLocked(h)',
           \A g \in Actors \ {h} : InviteAlone(g, h)'
    PROVE  InviteInv'
<1>1. ASSUME NEW g \in Actors PROVE InviteSound(g)' /\ InviteLocked(g)'
    <2>1. CASE g = h
        BY <2>1
    <2>2. CASE g # h
        <3>1. x8'[g] = x8[g] /\ x9'[g] = x9[g] /\ x10'[g] = x10[g]
            BY <2>2
        <3>2. InviteSound(g) /\ InviteLocked(g)
            BY DEF InviteInv
        <3>3. InviteSound(g)'
            BY <3>1, <3>2 DEF InviteSound, Invite!User, Invite!SeesInviter, Invite!SeesVerified
        <3>4. InviteLocked(g)'
            BY <2>2, <3>1, <3>2 DEF InviteLocked, Invite!User, InviteSound, InviteLate
        <3> QED
            BY <3>3, <3>4
    <2> QED
        BY <2>1, <2>2
<1>2. ASSUME NEW f \in Actors, NEW g \in Actors, f # g PROVE InviteAlone(f, g)'
    <2>1. CASE f # h /\ g # h
        BY <1>2, <2>1 DEF InviteInv, InviteAlone, Invite!User
    <2>2. CASE f = h \/ g = h
        BY <1>2, <2>2 DEF InviteAlone
    <2> QED
        BY <2>1, <2>2
<1>3. Invite!RewardedExactlyOnce' /\ \A u \in Owners : InviteTables(u)'
    BY DEF InviteInv, Invite!RewardedExactlyOnce, InviteTables
<1> QED
    BY <1>1, <1>2, <1>3 DEF InviteInv

\* A transaction that ends without a commit leaves nothing behind.
LEMMA InviteAbortInv ==
    ASSUME Invite!NobodyApart, InviteInv, NEW h \in Actors, Invite!Abort(h)
    PROVE  InviteInv'
<1>1. /\ UNCHANGED Invite!tables
      /\ x8' = [x8 EXCEPT ![h] = "idle"]
      /\ x9' = [x9 EXCEPT ![h] = Invite!NoTask]
      /\ x10' = [x10 EXCEPT ![h] = Invite!NoDraft]
      /\ x7' = [u \in Owners |-> IF x7[u] = h THEN Nobody ELSE x7[u]]
    BY DEF Invite!Abort, Invite!End, Invite!Go
<1>2. Invite!TypeOK
    BY DEF InviteInv
<1>3. Invite!TypeOK'
    <2>1. Invite!NoTask \in InviteRequests /\ Invite!NoDraft \in InviteDrafts
        BY DEF Invite!NoTask, Invite!NoDraft, InviteRequests, InviteDrafts
    <2> QED
        BY <1>1, <1>2, <2>1 DEF Invite!TypeOK, Invite!tables, InviteRequests, InviteDrafts
<1>4. x8'[h] = "idle" /\ x10'[h] = Invite!NoDraft
    BY <1>1, <1>2 DEF Invite!TypeOK
<1>5. InviteSound(h)' /\ InviteLocked(h)' /\ \A g \in Actors \ {h} : InviteAlone(g, h)'
    BY <1>4 DEF InviteSound, InviteLocked, InviteAlone, InviteEarly, InviteLate, Invite!NoDraft
<1>6. \A g \in Actors \ {h} : x8'[g] = x8[g] /\ x9'[g] = x9[g] /\ x10'[g] = x10[g]
    BY <1>1, <1>2 DEF Invite!TypeOK
<1>7. \A g \in Actors \ {h}, u \in Owners : x7[u] = g => x7'[u] = g
    BY <1>1
<1> QED
    BY <1>1, <1>3, <1>5, <1>6, <1>7, InviteLocalStep DEF Invite!tables

-----------------------------------------------------------------------------
\* The shape of a step that goes on: the handler moves to another stage and
\* writes in its draft, and holds what it held.
InviteMoves(h, s, d) ==
    /\ s \in InviteStages /\ d \in InviteDrafts
    /\ x8' = [x8 EXCEPT ![h] = s]
    /\ x10' = [x10 EXCEPT ![h] = d]
    /\ UNCHANGED <<Invite!tables, x9>>

LEMMA InviteMoveStep ==
    ASSUME InviteInv, NEW h \in Actors, NEW s, NEW d, InviteMoves(h, s, d),
           x7' \in [Owners -> Actors \cup {Nobody}],
           \A g \in Actors \ {h}, u \in Owners : x7[u] = g => x7'[u] = g,
           InviteSound(h)', InviteLocked(h)',
           \A g \in Actors \ {h} : InviteAlone(g, h)'
    PROVE  InviteInv'
<1>1. Invite!TypeOK
    BY DEF InviteInv
<1>2. Invite!TypeOK'
    BY <1>1 DEF Invite!TypeOK, InviteMoves, Invite!tables, InviteStages, InviteDrafts
<1>3. \A g \in Actors \ {h} : x8'[g] = x8[g] /\ x9'[g] = x9[g] /\ x10'[g] = x10[g]
    BY <1>1 DEF Invite!TypeOK, InviteMoves
<1> QED
    BY <1>2, <1>3, InviteLocalStep DEF InviteMoves, Invite!tables

\* What a move leaves in place for its handler.
LEMMA InviteMoved ==
    ASSUME InviteInv, NEW h \in Actors, NEW s, NEW d, InviteMoves(h, s, d)
    PROVE  /\ x8'[h] = s /\ x10'[h] = d /\ x9'[h] = x9[h]
           /\ \A g \in Actors \ {h} : x10'[g] = x10[g] /\ x9'[g] = x9[g]
           /\ UNCHANGED <<x1, x2, x3, x4, x5>>
           /\ x10[h] \in InviteDrafts /\ x9[h] \in InviteRequests
BY DEF InviteInv, Invite!TypeOK, InviteMoves, Invite!tables, InviteDrafts, InviteRequests

\* As long as the draft names the inviter it did, no other is in its way.
LEMMA InviteStillAlone ==
    ASSUME InviteInv, NEW h \in Actors, NEW s, NEW d, InviteMoves(h, s, d), d.inviter = x10[h].inviter
    PROVE  \A g \in Actors \ {h} : InviteAlone(g, h)'
BY InviteMoved DEF InviteInv, InviteAlone, Invite!User

-----------------------------------------------------------------------------
LEMMA InviteStartInv ==
    ASSUME Invite!NobodyApart, InviteInv, NEW h \in Actors, NEW kind \in {"confirm", "bind", "view"},
           NEW u \in Owners, NEW i \in Owners, Invite!Start(h, kind, u, i)
    PROVE  InviteInv'
<1> DEFINE s == CASE kind = "confirm" -> "confirm" [] kind = "bind" -> "bind" [] OTHER -> "own"
<1>1. /\ x8[h] = "idle"
      /\ x9' = [x9 EXCEPT ![h] = [kind |-> kind, user |-> u, inviter |-> i]]
      /\ x8' = [x8 EXCEPT ![h] = s]
      /\ UNCHANGED <<Invite!tables, x7, x10>>
    BY DEF Invite!Start, Invite!Go
<1>2. Invite!TypeOK
    BY DEF InviteInv
<1>3. s \in {"confirm", "bind", "own"}
    OBVIOUS
<1> HIDE DEF s
<1>4. Invite!TypeOK'
    BY <1>1, <1>2, <1>3 DEF Invite!TypeOK, Invite!tables
<1>5. /\ x8'[h] = s /\ x9'[h].user = u /\ x9'[h].inviter = i /\ x10'[h] = x10[h]
      /\ \A g \in Actors \ {h} :
            x8'[g] = x8[g] /\ x9'[g] = x9[g] /\ x10'[g] = x10[g]
    BY <1>1, <1>2 DEF Invite!TypeOK
<1>6. x10[h].inviter = Nobody /\ x10[h].claims = {} /\ x10[h].paid = {}
    BY <1>1 DEF InviteInv, InviteSound, InviteEarly
<1>7. InviteSound(h)'
    BY <1>3, <1>5, <1>6 DEF InviteSound, Invite!User, InviteEarly, InviteLate
<1>8. InviteLocked(h)' /\ \A g \in Actors \ {h} : InviteAlone(g, h)'
    BY <1>3, <1>5, <1>6 DEF InviteLocked, InviteLate, InviteAlone
<1> QED
    BY <1>1, <1>4, <1>5, <1>7, <1>8, InviteLocalStep DEF Invite!tables

LEMMA InviteConfirmInv ==
    ASSUME InviteInv, NEW h \in Actors, Invite!Confirm(h)
    PROVE  InviteInv'
<1> DEFINE d == [x10[h] EXCEPT !.verified = Invite!User(h) \notin x1]
<1>1. x10[h] \in InviteDrafts /\ x8[h] = "confirm" /\ UNCHANGED x7
    BY DEF InviteInv, Invite!TypeOK, InviteDrafts, Invite!Confirm
<1>2. /\ d \in InviteDrafts /\ d.inviter = x10[h].inviter /\ d.claims = x10[h].claims
      /\ d.paid = x10[h].paid
    BY <1>1 DEF InviteDrafts
<1>3. x10' = [x10 EXCEPT ![h] = d]
    BY DEF Invite!Confirm
<1> HIDE DEF d
<1>4. InviteMoves(h, "own", d)
    BY <1>2, <1>3 DEF Invite!Confirm, InviteMoves, Invite!Go, InviteStages
<1>5. InviteSound(h)' /\ InviteLocked(h)'
    BY <1>1, <1>2, <1>4, InviteMoved DEF InviteInv, InviteSound, InviteLocked, Invite!User, InviteEarly, InviteLate
<1> QED
    BY <1>1, <1>2, <1>4, <1>5, InviteMoveStep, InviteStillAlone DEF InviteInv, Invite!TypeOK

LEMMA InviteBindCheckInv ==
    ASSUME InviteInv, NEW h \in Actors, Invite!BindCheck(h)
    PROVE  InviteInv'
<1> DEFINE s == IF x2[Invite!User(h)] = Nobody THEN "insert" ELSE "invited"
<1>1. x10[h] \in InviteDrafts /\ x8[h] = "bind" /\ UNCHANGED x7 /\ x9[h].inviter # Invite!User(h)
    BY DEF InviteInv, Invite!TypeOK, InviteDrafts, Invite!BindCheck, Invite!MayBind
<1>2. x10' = [x10 EXCEPT ![h] = x10[h]]
    BY DEF Invite!BindCheck, InviteInv, Invite!TypeOK
<1>3. InviteMoves(h, s, x10[h])
    BY <1>1, <1>2 DEF Invite!BindCheck, InviteMoves, Invite!Go, InviteStages
<1>4. InviteSound(h)' /\ InviteLocked(h)'
    BY <1>1, <1>3, InviteMoved DEF InviteInv, InviteSound, InviteLocked, Invite!User, InviteEarly, InviteLate
<1> QED
    BY <1>1, <1>3, <1>4, InviteMoveStep, InviteStillAlone DEF InviteInv, Invite!TypeOK

\* The only step that names an inviter in a draft.
LEMMA InviteInsertInv ==
    ASSUME Invite!NobodyApart, InviteInv, NEW h \in Actors, Invite!Insert(h)
    PROVE  InviteInv'
<1>1. CASE x2[Invite!User(h)] # Nobody
    BY <1>1, InviteAbortInv DEF Invite!Insert
<1>2. CASE x2[Invite!User(h)] = Nobody
    <2> DEFINE d == [x10[h] EXCEPT !.inviter = x9[h].inviter]
    <2>1. /\ x10[h] \in InviteDrafts /\ x8[h] = "insert" /\ UNCHANGED x7
          /\ Invite!User(h) \in Owners /\ x9[h].inviter \in Owners /\ x9[h].inviter # Invite!User(h)
        BY <1>2 DEF InviteInv, Invite!TypeOK, InviteDrafts, Invite!Insert, InviteSound
    <2>2. /\ d \in InviteDrafts /\ d.inviter = x9[h].inviter /\ d.claims = x10[h].claims
          /\ d.paid = x10[h].paid
        BY <2>1 DEF InviteDrafts
    <2>3. x10' = [x10 EXCEPT ![h] = d]
        BY <1>2 DEF Invite!Insert
    <2> HIDE DEF d
    <2>4. InviteMoves(h, "invited", d)
        BY <1>2, <2>2, <2>3 DEF Invite!Insert, InviteMoves, Invite!Go, InviteStages
    <2>5. d.inviter # Nobody
        BY <2>1, <2>2 DEF Invite!NobodyApart
    <2>6. InviteSound(h)' /\ InviteLocked(h)'
        BY <1>2, <2>1, <2>2, <2>4, <2>5, InviteMoved DEF InviteInv, InviteSound, InviteLocked, Invite!User, InviteEarly, InviteLate
    <2>7. \A g \in Actors \ {h} : InviteAlone(g, h)'
        BY <2>4, InviteMoved DEF Invite!Insert, Invite!OthersOf, InviteAlone, Invite!User
    <2> QED
        BY <2>1, <2>4, <2>6, <2>7, InviteMoveStep DEF InviteInv, Invite!TypeOK
<1> QED
    BY <1>1, <1>2

-----------------------------------------------------------------------------
\* What a claim adds to a draft.
LEMMA InviteClaiming ==
    ASSUME NEW d \in InviteDrafts, NEW k \in Invite!Kinds
    PROVE  /\ Invite!Claim(d, k) \in InviteDrafts
           /\ Invite!Claim(d, k).inviter = d.inviter /\ Invite!Claim(d, k).paid = d.paid
           /\ Invite!Claim(d, k).verified = d.verified /\ Invite!Claim(d, k).marked = d.marked
           /\ d.claims \subseteq Invite!Claim(d, k).claims /\ Invite!Claim(d, k).claims \subseteq d.claims \cup {k}
BY DEF Invite!Claim, InviteDrafts

\* Where there is a binding the reward was paid with it; where the draft makes
\* the binding there is neither reward nor claim.
LEMMA InvitedRewardInv ==
    ASSUME Invite!NobodyApart, InviteInv, NEW h \in Actors, Invite!InvitedReward(h)
    PROVE  InviteInv'
<1>1. /\ x10[h] \in InviteDrafts /\ x8[h] = "invited" /\ UNCHANGED x7
      /\ Invite!User(h) \in Owners
      /\ x10[h].claims = {} /\ x10[h].paid = {}
      /\ x10[h].inviter # Nobody \/ x2[Invite!User(h)] # Nobody
    BY DEF InviteInv, Invite!TypeOK, InviteDrafts, Invite!InvitedReward, InviteSound
<1>2. x10[h].inviter # Nobody => x2[Invite!User(h)] = Nobody
    BY DEF InviteInv, InviteSound
<1>3. x4[<<"invited", Invite!User(h)>>] = IF x2[Invite!User(h)] # Nobody THEN 1 ELSE 0
    BY <1>1 DEF InviteInv, Invite!RewardedExactlyOnce
<1>4. <<"invited", Invite!User(h)>> \in x5 => x2[Invite!User(h)] # Nobody
    BY <1>1 DEF InviteInv, InviteTables
<1>5. CASE x2[Invite!User(h)] # Nobody
    <2>1. Invite!Go(h, "own") /\ UNCHANGED x10
        BY <1>3, <1>5 DEF Invite!InvitedReward
    <2>2. InviteMoves(h, "own", x10[h])
        BY <1>1, <2>1 DEF InviteInv, Invite!TypeOK, Invite!InvitedReward, InviteMoves, Invite!Go, InviteStages
    <2>3. InviteSound(h)' /\ InviteLocked(h)'
        BY <1>1, <1>2, <1>5, <2>2, InviteMoved DEF InviteInv, InviteSound, InviteLocked, Invite!User, InviteEarly, InviteLate
    <2> QED
        BY <1>1, <2>2, <2>3, InviteMoveStep, InviteStillAlone DEF InviteInv, Invite!TypeOK
<1>6. CASE x2[Invite!User(h)] = Nobody
    <2> DEFINE d == Invite!Claim(x10[h], "invited")
    <2>1. Invite!Go(h, "fund") /\ x10' = [x10 EXCEPT ![h] = d]
        BY <1>3, <1>4, <1>6 DEF Invite!InvitedReward, Invite!Claimed
    <2>2. /\ d \in InviteDrafts /\ d.inviter = x10[h].inviter /\ d.paid = {}
          /\ d.claims \subseteq {"invited"}
        BY <1>1, InviteClaiming DEF Invite!Kinds
    <2> HIDE DEF d
    <2>3. InviteMoves(h, "fund", d)
        BY <2>1, <2>2 DEF Invite!InvitedReward, InviteMoves, Invite!Go, InviteStages
    <2>4. InviteSound(h)' /\ InviteLocked(h)'
        BY <1>1, <1>6, <2>2, <2>3, InviteMoved DEF InviteInv, InviteSound, InviteLocked, Invite!User, InviteEarly, InviteLate
    <2> QED
        BY <1>1, <2>2, <2>3, <2>4, InviteMoveStep, InviteStillAlone DEF InviteInv, Invite!TypeOK
<1> QED
    BY <1>5, <1>6

LEMMA InviteFundInv ==
    ASSUME Invite!NobodyApart, InviteInv, NEW h \in Actors, Invite!Fund(h)
    PROVE  InviteInv'
<1> DEFINE d == [x10[h] EXCEPT !.paid = @ \cup {"invited"}]
<1>1. /\ x10[h] \in InviteDrafts /\ x8[h] = "fund" /\ Invite!User(h) \in Owners
      /\ x7[Invite!User(h)] \in {Nobody, h} /\ x7' = [x7 EXCEPT ![Invite!User(h)] = h]
      /\ x10[h].inviter # Nobody /\ x10[h].paid = {}
    BY DEF InviteInv, Invite!TypeOK, InviteDrafts, Invite!Fund, InviteSound
<1>2. /\ d \in InviteDrafts /\ d.inviter = x10[h].inviter /\ d.claims = x10[h].claims
      /\ d.paid = {"invited"}
    BY <1>1 DEF InviteDrafts, Invite!Kinds
<1>3. x10' = [x10 EXCEPT ![h] = d]
    BY DEF Invite!Fund
<1> HIDE DEF d
<1>4. InviteMoves(h, "own", d)
    BY <1>2, <1>3 DEF Invite!Fund, InviteMoves, Invite!Go, InviteStages
<1>5. InviteSound(h)' /\ InviteLocked(h)'
    BY <1>1, <1>2, <1>4, InviteMoved DEF InviteInv, InviteSound, InviteLocked, Invite!User, InviteEarly, InviteLate
<1>6. /\ x7' \in [Owners -> Actors \cup {Nobody}]
      /\ \A g \in Actors \ {h}, u \in Owners : x7[u] = g => x7'[u] = g
    BY <1>1 DEF InviteInv, Invite!TypeOK, Invite!NobodyApart
<1> QED
    BY <1>2, <1>4, <1>5, <1>6, InviteMoveStep, InviteStillAlone

-----------------------------------------------------------------------------
LEMMA InviteLockOwnInv ==
    ASSUME Invite!NobodyApart, InviteInv, NEW h \in Actors, Invite!LockOwn(h)
    PROVE  InviteInv'
<1>1. /\ x10[h] \in InviteDrafts /\ x8[h] = "own" /\ Invite!User(h) \in Owners
      /\ x7[Invite!User(h)] \in {Nobody, h} /\ x7' = [x7 EXCEPT ![Invite!User(h)] = h]
    BY DEF InviteInv, Invite!TypeOK, InviteDrafts, Invite!LockOwn, InviteSound
<1>2. x10' = [x10 EXCEPT ![h] = x10[h]]
    BY DEF Invite!LockOwn, InviteInv, Invite!TypeOK
<1>3. InviteMoves(h, "reward", x10[h])
    BY <1>1, <1>2 DEF Invite!LockOwn, InviteMoves, Invite!Go, InviteStages
<1>4. x7'[Invite!User(h)] = h
    BY <1>1 DEF InviteInv, Invite!TypeOK
<1>5. InviteSound(h)' /\ InviteLocked(h)'
    BY <1>1, <1>3, <1>4, InviteMoved DEF InviteInv, InviteSound, InviteLocked, Invite!User, InviteEarly, InviteLate
<1>6. /\ x7' \in [Owners -> Actors \cup {Nobody}]
      /\ \A g \in Actors \ {h}, u \in Owners : x7[u] = g => x7'[u] = g
    BY <1>1 DEF InviteInv, Invite!TypeOK, Invite!NobodyApart
<1> QED
    BY <1>1, <1>3, <1>5, <1>6, InviteMoveStep, InviteStillAlone

\* A binding is marked without a payment only if it was marked before.
LEMMA InviteNothingDueInv ==
    ASSUME InviteInv, NEW h \in Actors, Invite!NothingDue(h)
    PROVE  InviteInv'
<1> DEFINE due == Invite!SeesInviter(h) # Nobody /\ Invite!SeesVerified(h)
           d == [x10[h] EXCEPT !.marked = due]
<1>1. x10[h] \in InviteDrafts /\ x8[h] = "reward" /\ Invite!User(h) \in Owners /\ UNCHANGED x7
    BY DEF InviteInv, Invite!TypeOK, InviteDrafts, Invite!NothingDue, InviteSound
<1>2. due \in BOOLEAN
    BY DEF Invite!SeesVerified
<1>3. due => Invite!User(h) \in x3
    <2>1. due => Invite!Settled(h)
        BY DEF Invite!NothingDue
    <2>2. x4[<<"inviter", Invite!User(h)>>] > 0 => Invite!User(h) \in x3
        <3>1. x4[<<"inviter", Invite!User(h)>>] = IF Invite!User(h) \in x3 THEN 1 ELSE 0
            BY <1>1 DEF InviteInv, Invite!RewardedExactlyOnce
        <3> QED
            BY <3>1
    <2> QED
        BY <1>1, <2>1, <2>2 DEF Invite!Settled, Invite!Claimed, InviteInv, InviteTables
<1>4. /\ x10' = [x10 EXCEPT ![h] = d]
      /\ due <=> Invite!SeesInviter(h) # Nobody /\ Invite!SeesVerified(h)
    BY DEF Invite!NothingDue
<1> HIDE DEF due
<1>5. /\ d \in InviteDrafts /\ d.inviter = x10[h].inviter /\ d.claims = x10[h].claims
      /\ d.paid = x10[h].paid /\ d.marked = due /\ d.verified = x10[h].verified
    BY <1>1, <1>2 DEF InviteDrafts
<1> HIDE DEF d
<1>6. InviteMoves(h, "done", d)
    BY <1>4, <1>5 DEF Invite!NothingDue, InviteMoves, Invite!Go, InviteStages
<1>7. Invite!SeesInviter(h)' = Invite!SeesInviter(h) /\ Invite!SeesVerified(h)' = Invite!SeesVerified(h)
    BY <1>5, <1>6, InviteMoved DEF Invite!SeesInviter, Invite!SeesVerified, Invite!User
<1>8. InviteSound(h)' /\ InviteLocked(h)'
    <2>1. InviteSound(h)'
        BY <1>1, <1>3, <1>4, <1>5, <1>6, <1>7, InviteMoved DEF InviteInv, InviteSound, Invite!User, InviteEarly, InviteLate
    <2>2. InviteLocked(h)'
        BY <1>1, <1>6, InviteMoved DEF InviteInv, InviteLocked, Invite!User, InviteLate
    <2> QED
        BY <2>1, <2>2
<1> QED
    BY <1>1, <1>5, <1>6, <1>8, InviteMoveStep, InviteStillAlone DEF InviteInv, Invite!TypeOK

LEMMA InviteRewardDueInv ==
    ASSUME InviteInv, NEW h \in Actors, Invite!RewardDue(h)
    PROVE  InviteInv'
<1> DEFINE d == Invite!Claim(x10[h], "inviter")
<1>1. /\ x10[h] \in InviteDrafts /\ x8[h] = "reward" /\ UNCHANGED x7
      /\ Invite!SeesInviter(h) # Nobody /\ Invite!SeesVerified(h) /\ Invite!User(h) \notin x3
    BY DEF InviteInv, Invite!TypeOK, InviteDrafts, Invite!RewardDue, Invite!Settled
<1>2. /\ d \in InviteDrafts /\ d.inviter = x10[h].inviter /\ d.paid = x10[h].paid
      /\ d.claims \subseteq x10[h].claims \cup {"inviter"}
      /\ d.marked = x10[h].marked /\ d.verified = x10[h].verified
    BY <1>1, InviteClaiming DEF Invite!Kinds
<1>3. x10' = [x10 EXCEPT ![h] = d]
    BY DEF Invite!RewardDue
<1> HIDE DEF d
<1>4. InviteMoves(h, "inviter", d)
    BY <1>2, <1>3 DEF Invite!RewardDue, InviteMoves, Invite!Go, InviteStages
<1>5. Invite!SeesInviter(h)' = Invite!SeesInviter(h) /\ Invite!SeesVerified(h)' = Invite!SeesVerified(h)
    BY <1>2, <1>4, InviteMoved DEF Invite!SeesInviter, Invite!SeesVerified, Invite!User
<1>6. InviteSound(h)' /\ InviteLocked(h)'
    BY <1>1, <1>2, <1>4, <1>5, InviteMoved DEF InviteInv, InviteSound, InviteLocked, Invite!User, InviteEarly, InviteLate
<1> QED
    BY <1>1, <1>2, <1>4, <1>6, InviteMoveStep, InviteStillAlone DEF InviteInv, Invite!TypeOK

LEMMA InviteRewardInviterInv ==
    ASSUME Invite!NobodyApart, InviteInv, NEW h \in Actors, Invite!RewardInviter(h)
    PROVE  InviteInv'
<1> DEFINE d == [x10[h] EXCEPT !.paid = @ \cup {"inviter"}, !.marked = TRUE]
           i == Invite!SeesInviter(h)
<1>1. /\ x10[h] \in InviteDrafts /\ x8[h] = "inviter" /\ Invite!User(h) \in Owners
      /\ x7[Invite!User(h)] = h /\ Invite!User(h) \notin x3 /\ i # Nobody /\ Invite!SeesVerified(h)
    BY DEF InviteInv, Invite!TypeOK, InviteDrafts, Invite!RewardInviter, InviteSound, InviteLocked, InviteLate
<1>2. i \in Owners
    BY <1>1 DEF Invite!SeesInviter, InviteDrafts, InviteInv, Invite!TypeOK
<1>3. /\ d \in InviteDrafts /\ d.inviter = x10[h].inviter /\ d.claims = x10[h].claims
      /\ d.paid = x10[h].paid \cup {"inviter"} /\ d.marked = TRUE /\ d.verified = x10[h].verified
    BY <1>1 DEF InviteDrafts, Invite!Kinds
<1>4. /\ x10' = [x10 EXCEPT ![h] = d]
      /\ x7[i] \in {Nobody, h} /\ x7' = [x7 EXCEPT ![i] = h]
    BY DEF Invite!RewardInviter
<1> HIDE DEF d
<1>5. InviteMoves(h, "done", d)
    BY <1>3, <1>4 DEF Invite!RewardInviter, InviteMoves, Invite!Go, InviteStages
<1>6. Invite!SeesInviter(h)' = i /\ Invite!SeesVerified(h)' = Invite!SeesVerified(h)
    BY <1>3, <1>5, InviteMoved DEF Invite!SeesInviter, Invite!SeesVerified, Invite!User
<1> HIDE DEF i
<1>7. x7'[Invite!User(h)] = h
    BY <1>1, <1>2, <1>4 DEF InviteInv, Invite!TypeOK
<1>8. InviteSound(h)' /\ InviteLocked(h)'
    BY <1>1, <1>3, <1>5, <1>6, <1>7, InviteMoved DEF InviteInv, InviteSound, InviteLocked, Invite!User, InviteEarly, InviteLate
<1>9. /\ x7' \in [Owners -> Actors \cup {Nobody}]
      /\ \A g \in Actors \ {h}, u \in Owners : x7[u] = g => x7'[u] = g
    BY <1>2, <1>4 DEF InviteInv, Invite!TypeOK, Invite!NobodyApart
<1> QED
    BY <1>3, <1>5, <1>8, <1>9, InviteMoveStep, InviteStillAlone

-----------------------------------------------------------------------------
\* A draft becomes true: what a commit does to the tables.
LEMMA InviteCommitted ==
    ASSUME Invite!NobodyApart, InviteInv, NEW h \in Actors, Invite!Commit(h)
    PROVE  /\ Invite!User(h) \in Owners /\ x7[Invite!User(h)] = h /\ x10[h] \in InviteDrafts
           /\ x2'[Invite!User(h)] = Invite!SeesInviter(h)
           /\ \A v \in Owners \ {Invite!User(h)} : x2'[v] = x2[v]
           /\ x3' = IF x10[h].marked THEN x3 \cup {Invite!User(h)} ELSE x3
           /\ x1' = IF x10[h].verified THEN x1 \cup {Invite!User(h)} ELSE x1
           /\ x5' = x5 \cup {<<k, Invite!User(h)>> : k \in x10[h].claims}
           /\ \A k \in Invite!Kinds : x4'[<<k, Invite!User(h)>>] =
                 IF k \in x10[h].paid THEN x4[<<k, Invite!User(h)>>] + 1 ELSE x4[<<k, Invite!User(h)>>]
           /\ \A k \in Invite!Kinds, v \in Owners \ {Invite!User(h)} : x4'[<<k, v>>] = x4[<<k, v>>]
<1>1. x8[h] = "done" /\ Invite!TypeOK /\ InviteSound(h) /\ InviteLocked(h)
    BY DEF Invite!Commit, InviteInv
<1>2. Invite!User(h) \in Owners /\ x7[Invite!User(h)] = h /\ x10[h] \in InviteDrafts
    BY <1>1 DEF InviteSound, InviteLocked, InviteLate, Invite!TypeOK, InviteDrafts
<1>3. x2' = IF x10[h].inviter # Nobody THEN [x2 EXCEPT ![Invite!User(h)] = x10[h].inviter] ELSE x2
    BY DEF Invite!Commit
<1>4. /\ x2'[Invite!User(h)] = Invite!SeesInviter(h)
      /\ \A v \in Owners \ {Invite!User(h)} : x2'[v] = x2[v]
    BY <1>1, <1>2, <1>3 DEF Invite!SeesInviter, Invite!TypeOK
<1>5. x4' = [e \in Invite!Kinds \X Owners |->
                  IF e[2] = Invite!User(h) /\ e[1] \in x10[h].paid THEN x4[e] + 1 ELSE x4[e]]
    BY DEF Invite!Commit
<1>6. /\ \A k \in Invite!Kinds : x4'[<<k, Invite!User(h)>>] =
             IF k \in x10[h].paid THEN x4[<<k, Invite!User(h)>>] + 1 ELSE x4[<<k, Invite!User(h)>>]
      /\ \A k \in Invite!Kinds, v \in Owners \ {Invite!User(h)} : x4'[<<k, v>>] = x4[<<k, v>>]
    BY <1>2, <1>5
<1> QED
    BY <1>2, <1>4, <1>6 DEF Invite!Commit

LEMMA InviteCommitInv ==
    ASSUME Invite!NobodyApart, InviteInv, NEW h \in Actors, Invite!Commit(h)
    PROVE  InviteInv'
<1> DEFINE u == Invite!User(h)
           d == x10[h]
<1>1. /\ x8[h] = "done" /\ UNCHANGED x6
      /\ x8' = [x8 EXCEPT ![h] = "idle"]
      /\ x9' = [x9 EXCEPT ![h] = Invite!NoTask]
      /\ x10' = [x10 EXCEPT ![h] = Invite!NoDraft]
      /\ x7' = [v \in Owners |-> IF x7[v] = h THEN Nobody ELSE x7[v]]
    BY DEF Invite!Commit, Invite!End, Invite!Go
<1>2. Invite!TypeOK /\ InviteSound(h) /\ Invite!RewardedExactlyOnce /\ InviteTables(u)
    BY InviteCommitted DEF InviteInv
<1>3. Invite!TypeOK'
    <2>1. Invite!NoTask \in InviteRequests /\ Invite!NoDraft \in InviteDrafts
        BY DEF Invite!NoTask, Invite!NoDraft, InviteRequests, InviteDrafts
    <2>2. /\ x8' \in [Actors -> InviteStages] /\ x9' \in [Actors -> InviteRequests]
          /\ x10' \in [Actors -> InviteDrafts] /\ x7' \in [Owners -> Actors \cup {Nobody}]
        BY <1>1, <1>2, <2>1 DEF Invite!TypeOK, InviteStages, InviteRequests, InviteDrafts
    <2>3. x1' \subseteq Owners /\ x3' \subseteq Owners /\ x5' \subseteq Invite!Kinds \X Owners
        BY <1>2, InviteCommitted DEF Invite!TypeOK, InviteDrafts
    <2>4. x2' \in [Owners -> Owners \cup {Nobody}]
        BY <1>2, InviteCommitted DEF Invite!Commit, Invite!TypeOK, InviteDrafts
    <2>5. x4' \in [Invite!Kinds \X Owners -> Nat]
        BY <1>2 DEF Invite!Commit, Invite!TypeOK
    <2> QED
        BY <1>1, <1>2, <2>2, <2>3, <2>4, <2>5 DEF Invite!TypeOK, InviteStages, InviteRequests, InviteDrafts
<1>4. /\ x8'[h] = "idle" /\ x10'[h] = Invite!NoDraft
      /\ \A g \in Actors \ {h} : x8'[g] = x8[g] /\ x9'[g] = x9[g] /\ x10'[g] = x10[g]
    BY <1>1, <1>2 DEF Invite!TypeOK
<1>5. \A g \in Actors \ {h}, v \in Owners : x7[v] = g => x7'[v] = g
    BY <1>1
<1>6. d.inviter # Nobody => x2[u] = Nobody /\ d.inviter # u
    BY <1>2 DEF InviteSound
<1>7. ASSUME NEW g \in Actors PROVE InviteSound(g)' /\ InviteLocked(g)'
    <2>1. CASE g = h
        BY <1>4, <2>1 DEF InviteSound, InviteLocked, InviteEarly, InviteLate, Invite!NoDraft
    <2>2. CASE g # h
        <3>1. x8'[g] = x8[g] /\ x9'[g] = x9[g] /\ x10'[g] = x10[g] /\ Invite!User(g)' = Invite!User(g)
            BY <1>4, <2>2 DEF Invite!User
        <3>2. InviteSound(g) /\ InviteLocked(g) /\ InviteAlone(g, h)
            BY <2>2 DEF InviteInv
        <3>3. InviteLocked(g)'
            BY <1>5, <2>2, <3>1, <3>2 DEF InviteLocked, InviteSound, InviteLate
        <3>4. CASE x8[g] = "idle"
            BY <3>1, <3>2, <3>3, <3>4 DEF InviteSound, InviteEarly, InviteLate
        <3>5. CASE x8[g] # "idle" /\ Invite!User(g) # u
            <4>1. /\ Invite!User(g) \in Owners /\ x2'[Invite!User(g)] = x2[Invite!User(g)]
                  /\ Invite!User(g) \in x3' <=> Invite!User(g) \in x3
                  /\ Invite!User(g) \in x1' <=> Invite!User(g) \in x1
                BY <3>2, <3>5, InviteCommitted DEF InviteSound
            <4>2. Invite!SeesInviter(g)' = Invite!SeesInviter(g) /\ (Invite!SeesVerified(g)' <=> Invite!SeesVerified(g))
                BY <3>1, <4>1 DEF Invite!SeesInviter, Invite!SeesVerified
            <4> QED
                BY <3>1, <3>2, <3>3, <4>1, <4>2 DEF InviteSound
        <3>6. CASE x8[g] # "idle" /\ Invite!User(g) = u
            <4>1. x8[g] \notin InviteLate
                BY <2>2, <3>2, <3>6, InviteCommitted DEF InviteLocked
            <4>2. x10[g].inviter # Nobody => x2'[u] = x2[u]
                BY <3>2, <3>6, InviteCommitted DEF InviteAlone, Invite!SeesInviter
            <4>3. x2[u] # Nobody => x2'[u] # Nobody
                BY <1>6, InviteCommitted DEF Invite!SeesInviter
            <4> QED
                BY <3>1, <3>2, <3>3, <3>6, <4>1, <4>2, <4>3 DEF InviteSound, InviteLate
        <3> QED
            BY <3>4, <3>5, <3>6, <3>3
    <2> QED
        BY <2>1, <2>2
<1>8. ASSUME NEW f \in Actors, NEW g \in Actors, f # g PROVE InviteAlone(f, g)'
    BY <1>4, <1>8 DEF InviteInv, InviteAlone, Invite!User, Invite!NoDraft
<1>9. ASSUME NEW v \in Owners PROVE InviteTables(v)'
    <2>1. InviteTables(v)
        BY DEF InviteInv
    <2>2. CASE v # u
        <3>1. \A k : <<k, v>> \in x5' => <<k, v>> \in x5
            BY <2>2, InviteCommitted
        <3> QED
            BY <2>1, <2>2, <3>1, InviteCommitted DEF InviteTables
    <2>3. CASE v = u
        <3>1. x2'[u] # u
            BY <1>2, <1>6, InviteCommitted DEF Invite!SeesInviter, InviteTables
        <3>2. \A k : <<k, u>> \in x5' => <<k, u>> \in x5 \/ k \in d.claims
            BY InviteCommitted
        <3>3. <<"invited", u>> \in x5' => x2'[u] # Nobody
            BY <1>2, <3>2, InviteCommitted DEF InviteSound, InviteTables, Invite!SeesInviter
        <3>4. <<"inviter", u>> \in x5' => u \in x3'
            BY <1>1, <1>2, <3>2, InviteCommitted DEF InviteSound, InviteTables
        <3> QED
            BY <2>3, <3>1, <3>3, <3>4 DEF InviteTables
    <2> QED
        BY <2>2, <2>3
<1>10. ASSUME NEW v \in Owners
       PROVE  /\ x4'[<<"invited", v>>] = (IF x2'[v] # Nobody THEN 1 ELSE 0)
              /\ x4'[<<"inviter", v>>] = (IF v \in x3' THEN 1 ELSE 0)
              /\ v \in x3' => v \in x1' /\ x2'[v] \notin {Nobody, v}
    <2>1. /\ x4[<<"invited", v>>] = (IF x2[v] # Nobody THEN 1 ELSE 0)
          /\ x4[<<"inviter", v>>] = (IF v \in x3 THEN 1 ELSE 0)
          /\ v \in x3 => v \in x1 /\ x2[v] \notin {Nobody, v}
        BY <1>2 DEF Invite!RewardedExactlyOnce
    <2>2. CASE v # u
        <3>1. /\ x4'[<<"invited", v>>] = x4[<<"invited", v>>]
              /\ x4'[<<"inviter", v>>] = x4[<<"inviter", v>>]
              /\ x2'[v] = x2[v]
            <4>1. "invited" \in Invite!Kinds /\ "inviter" \in Invite!Kinds /\ v \in Owners \ {Invite!User(h)}
                BY <2>2 DEF Invite!Kinds
            <4>2. /\ \A k \in Invite!Kinds, w \in Owners \ {Invite!User(h)} : x4'[<<k, w>>] = x4[<<k, w>>]
                  /\ \A w \in Owners \ {Invite!User(h)} : x2'[w] = x2[w]
                BY InviteCommitted
            <4> QED
                BY <4>1, <4>2
        <3>2. v \in x3' <=> v \in x3
            BY <2>2, InviteCommitted
        <3>3. v \in x1 => v \in x1'
            BY InviteCommitted
        <3> QED
            BY <2>1, <3>1, <3>2, <3>3
    <2>3. CASE v = u
        <3>1. /\ "invited" \in d.paid <=> d.inviter # Nobody
              /\ "inviter" \in d.paid <=> d.marked /\ u \notin x3
              /\ d.marked => Invite!SeesInviter(h) # Nobody /\ Invite!SeesVerified(h)
            BY <1>1, <1>2 DEF InviteSound, InviteLate
        <3>2. /\ x4'[<<"invited", u>>] = IF "invited" \in d.paid THEN x4[<<"invited", u>>] + 1 ELSE x4[<<"invited", u>>]
              /\ x4'[<<"inviter", u>>] = IF "inviter" \in d.paid THEN x4[<<"inviter", u>>] + 1 ELSE x4[<<"inviter", u>>]
            BY InviteCommitted DEF Invite!Kinds
        <3>3. x2'[u] = IF d.inviter # Nobody THEN d.inviter ELSE x2[u]
            BY InviteCommitted DEF Invite!SeesInviter
        <3>4. x4'[<<"invited", v>>] = (IF x2'[v] # Nobody THEN 1 ELSE 0)
            BY <1>6, <2>1, <2>3, <3>1, <3>2, <3>3
        <3>5. u \in x3' <=> d.marked \/ u \in x3
            BY InviteCommitted
        <3>6. x4'[<<"inviter", v>>] = (IF v \in x3' THEN 1 ELSE 0)
            BY <2>1, <2>3, <3>1, <3>2, <3>5
        <3>7. v \in x3' => x2'[v] \notin {Nobody, v}
            BY <1>2, <1>6, <2>1, <2>3, <3>1, <3>3, <3>5, InviteCommitted DEF InviteTables
        <3>8. v \in x3' => v \in x1'
            BY <2>1, <2>3, <3>1, <3>5, InviteCommitted DEF Invite!SeesVerified
        <3> QED
            BY <3>4, <3>6, <3>7, <3>8
    <2> QED
        BY <2>2, <2>3
<1>11. Invite!RewardedExactlyOnce'
    BY <1>10 DEF Invite!RewardedExactlyOnce
<1> QED
    BY <1>3, <1>7, <1>8, <1>9, <1>11 DEF InviteInv

-----------------------------------------------------------------------------
LEMMA InviteNext == Invite!NobodyApart /\ InviteInv /\ [Invite!Next]_Invite!vars => InviteInv'
<1> SUFFICES ASSUME Invite!NobodyApart, InviteInv, [Invite!Next]_Invite!vars PROVE InviteInv'
    OBVIOUS
<1>1. ASSUME UNCHANGED <<x1, x2, x3, x4, x5, x7, x8, x9, x10>>,
             x6' \subseteq Invite!Kinds
      PROVE  InviteInv'
    BY <1>1 DEF InviteInv, Invite!TypeOK, InviteSound, InviteLocked, InviteAlone, InviteTables, Invite!RewardedExactlyOnce,
                Invite!User, Invite!SeesInviter, Invite!SeesVerified
<1>2. CASE UNCHANGED Invite!vars
    BY <1>1, <1>2 DEF Invite!vars, InviteInv, Invite!TypeOK
<1>3. ASSUME NEW k \in Invite!Kinds, Invite!SwitchRule(k) PROVE InviteInv'
    BY <1>1, <1>3 DEF Invite!SwitchRule, InviteInv, Invite!TypeOK
<1>4. ASSUME NEW h \in Actors,
             \/ \E kind \in {"confirm", "bind", "view"}, u, i \in Owners :
                  (kind # "bind" => i = u) /\ Invite!Start(h, kind, u, i)
             \/ Invite!Confirm(h) \/ Invite!BindCheck(h) \/ Invite!BindRefused(h) \/ Invite!Insert(h)
      PROVE  InviteInv'
    BY <1>4, InviteStartInv, InviteConfirmInv, InviteBindCheckInv, InviteInsertInv, InviteAbortInv DEF Invite!BindRefused
<1>5. ASSUME NEW h \in Actors,
             \/ Invite!InvitedReward(h) \/ Invite!Fund(h) \/ Invite!LockOwn(h)
             \/ Invite!NothingDue(h) \/ Invite!RewardDue(h) \/ Invite!RewardInviter(h)
             \/ Invite!Commit(h) \/ Invite!Abort(h)
      PROVE  InviteInv'
    BY <1>5, InvitedRewardInv, InviteFundInv, InviteLockOwnInv, InviteNothingDueInv, InviteRewardDueInv,
       InviteRewardInviterInv, InviteCommitInv, InviteAbortInv
<1> QED
    BY <1>2, <1>3, <1>4, <1>5 DEF Invite!Next

LEMMA InviteSafe == InviteInv => Invite!TypeOK /\ Invite!RewardedExactlyOnce
BY DEF InviteInv

-----------------------------------------------------------------------------
(***************************************************************************)
(* Streams: x1 is the request, x2 the connection, x3 the titles kept, x4   *)
(* what was sent, x5 whether the client is gone, x6 how the stream ended.  *)
(***************************************************************************)
Marks == Stream!Lines \cup Stream!Errors \cup {"aborted"}

\* What has been sent grows by what is appended.
LEMMA SentGrows ==
    ASSUME NEW s \in Seq(Marks), NEW e \in Marks
    PROVE  /\ Append(s, e) \in Seq(Marks)
           /\ Stream!ToSet(Append(s, e)) = Stream!ToSet(s) \cup {e}
           /\ Stream!Last(Append(s, e)) = e
<1>1. /\ Append(s, e) \in Seq(Marks) /\ Len(Append(s, e)) = Len(s) + 1
      /\ \A i \in 1 .. Len(s) : Append(s, e)[i] = s[i]
      /\ Append(s, e)[Len(s) + 1] = e
    BY AppendProperties
<1>2. /\ DOMAIN s = 1 .. Len(s) /\ DOMAIN Append(s, e) = 1 .. Len(s) + 1 /\ Len(s) \in Nat
      /\ 1 .. Len(s) + 1 = (1 .. Len(s)) \cup {Len(s) + 1}
    BY <1>1
<1> QED
    BY <1>1, <1>2 DEF Stream!ToSet, Stream!Last

LEMMA StreamInit == Stream!Init => Stream!IInv
<1> SUFFICES ASSUME Stream!Init PROVE Stream!IInv
    OBVIOUS
<1>1. x4 \in Seq(Marks) /\ Stream!ToSet(x4) = {}
    BY DEF Stream!Init, Stream!ToSet
<1>2. /\ x1 = [kind |-> "report", step |-> "idle"] /\ x1.step = "idle"
      /\ x2 = "closed" /\ x3 = {} /\ x5 = FALSE /\ x6 = "no"
    BY DEF Stream!Init
<1>3. Stream!ToSet(x4) \ Stream!Lines = {}
    BY <1>1
<1> QED
    BY <1>1, <1>2, <1>3 DEF Stream!IInv, Stream!BreaksAreTold, Marks

\* A stream that ends is no longer read; who listened is told if it broke.
LEMMA StreamEnds ==
    ASSUME Stream!IInv, Stream!Dropped \/ Stream!Break \/ Stream!EndOfStream
    PROVE  Stream!IInv'
<1> DEFINE mark == IF x1.kind = "report" THEN Stream!TimeoutEvent ELSE "aborted"
<1>1. /\ x1.step = "reading" /\ x1 \in [kind : {"report", "other"}, step : {"idle", "reading"}]
      /\ x1' = [kind |-> x1.kind, step |-> "idle"] /\ x2' = "closed" /\ UNCHANGED <<x3, x5>>
      /\ x6 = "no" /\ x4 \in Seq(Marks) /\ x5 \in BOOLEAN
      /\ Stream!ToSet(x4) \ Stream!Lines = {}
      /\ x1.kind = "report" => ("evidence" \in x3 <=> "evidence" \in Stream!ToSet(x4))
    BY DEF Stream!Dropped, Stream!Break, Stream!EndOfStream, Stream!Over, Stream!IInv,
           Stream!BreaksAreTold, Marks
<1>2. CASE x4' = x4 /\ (x6' = "broken" => x5)
    BY <1>1, <1>2 DEF Stream!IInv, Stream!BreaksAreTold, Marks
<1>3. CASE ~x5 /\ x4' = Append(x4, mark) /\ x6' = "broken"
    <2>1. mark \in Marks /\ mark \notin Stream!Lines
        BY DEF Marks, Stream!TimeoutEvent, Stream!Errors, Stream!Lines
    <2>2. /\ x4' \in Seq(Marks) /\ Stream!ToSet(x4)' = Stream!ToSet(x4) \cup {mark}
          /\ Stream!Last(x4)' = mark
        BY <1>1, <1>3, <2>1, SentGrows
    <2>3. (Stream!ToSet(x4) \ Stream!Lines)' = {mark}
        BY <1>1, <2>1, <2>2 DEF Stream!Lines
    <2>4. x1.kind = "report" =>
              (mark = "report_final_answer_timeout" <=> "evidence" \in Stream!ToSet(x4)')
        BY <1>1, <2>1, <2>2 DEF Stream!TimeoutEvent, Stream!Lines
    <2> HIDE DEF mark
    <2> QED
        BY <1>1, <1>3, <2>2, <2>3, <2>4, <2>1 DEF Stream!IInv, Stream!BreaksAreTold, Marks, Stream!Lines
<1> QED
    BY <1>1, <1>2, <1>3 DEF Stream!Dropped, Stream!Break, Stream!EndOfStream, Stream!Over

LEMMA StreamGoesOn ==
    ASSUME Stream!IInv, NEW line \in Stream!Lines, Stream!Forward(line)
    PROVE  Stream!IInv'
<1>1. /\ line \in Marks /\ x4 \in Seq(Marks) /\ x4' = Append(x4, line)
      /\ x1.step = "reading" /\ x6 = "no" /\ UNCHANGED <<x1, x2, x5, x6>>
      /\ x3' = IF x1.kind = "report" /\ line # "text" THEN x3 \cup {line} ELSE x3
    BY DEF Stream!Forward, Stream!IInv, Marks
<1>2. x4' \in Seq(Marks) /\ Stream!ToSet(x4)' = Stream!ToSet(x4) \cup {line}
    BY <1>1, SentGrows
<1>3. (Stream!ToSet(x4) \ Stream!Lines)' = {} /\ Stream!ToSet(x4) \ Stream!Lines = {}
    BY <1>1, <1>2 DEF Stream!IInv, Stream!BreaksAreTold, Stream!Lines
<1> QED
    BY <1>1, <1>2, <1>3 DEF Stream!IInv, Stream!BreaksAreTold, Marks, Stream!Lines

LEMMA StreamNext == Stream!IInv /\ [Stream!Next]_(Stream!vars) => Stream!IInv'
<1> SUFFICES ASSUME Stream!IInv, [Stream!Next]_(Stream!vars) PROVE Stream!IInv'
    OBVIOUS
<1>1. ASSUME NEW kind \in {"report", "other"}, NEW accepted \in BOOLEAN, Stream!Open(kind, accepted)
      PROVE  Stream!IInv'
    <2>1. x4' \in Seq(Marks) /\ Stream!ToSet(x4)' = {}
        BY <1>1 DEF Stream!Open, Stream!ToSet
    <2> QED
        BY <1>1, <2>1 DEF Stream!Open, Stream!IInv, Stream!BreaksAreTold, Marks
<1>2. CASE Stream!HangUp
    BY <1>2 DEF Stream!HangUp, Stream!IInv, Stream!BreaksAreTold
<1>3. CASE UNCHANGED Stream!vars
    BY <1>3 DEF Stream!vars, Stream!IInv, Stream!BreaksAreTold
<1> QED
    BY <1>1, <1>2, <1>3, StreamEnds, StreamGoesOn DEF Stream!Next

-----------------------------------------------------------------------------
(***************************************************************************)
(* Sources of a report: x1 is the snapshots, x2 the inquiry, x3 the tally  *)
(* of its calls, x4 what it has found, x5 the outcome.                     *)
(***************************************************************************)
IsTally(t) ==
    /\ DOMAIN t = {"answered", "failed", "timedOut", "hidden"}
    /\ t.answered \in BOOLEAN /\ t.failed \in BOOLEAN /\ t.timedOut \in BOOLEAN /\ t.hidden \in BOOLEAN

\* What the calls of an inquiry have left behind.
CallsAreTold(inquiry, tally, evidence) ==
    /\ inquiry \in Source!Inquiries /\ IsTally(tally)
    /\ evidence # {} => tally.answered
    /\ tally.hidden => "suggestions" \in evidence
    /\ inquiry.at = "idle" => tally = Source!NoCalls /\ evidence = {}
    /\ inquiry.vendor = "1688" =>
          /\ inquiry.at \in {"idle", "item_search", "item_get", "seller_info", "score"}
          /\ inquiry.at \in {"item_get", "seller_info"} => "item_search" \in evidence
          /\ inquiry.at = "score" => tally.answered \/ tally.failed

LEMMA SourceInvIs == Source!IInv <=> Source!SourcesAreTold /\ CallsAreTold(x2, x3, x4)
BY DEF Source!IInv, CallsAreTold, IsTally, Source!NoCalls

LEMMA NoCallsIs ==
    /\ IsTally(Source!NoCalls)
    /\ ~Source!NoCalls.answered /\ ~Source!NoCalls.failed /\ ~Source!NoCalls.hidden
BY DEF IsTally, Source!NoCalls

LEMMA CountIs ==
    ASSUME NEW t, IsTally(t), NEW o
    PROVE  /\ IsTally(Source!Count(t, o))
           /\ Source!Count(t, o).answered = (t.answered \/ o \in {"found", "empty"})
           /\ Source!Count(t, o).failed = (t.failed \/ o \in {"timeout", "error"})
           /\ Source!Count(t, o).hidden = t.hidden
BY DEF IsTally, Source!Count

\* Nothing is said of the sources while their calls are made.
LEMMA SourceCalls ==
    ASSUME Source!SourcesAreTold, x5' = x5 \/ x5' = Source!NoOutcome, CallsAreTold(x2, x3, x4)'
    PROVE  Source!IInv'
<1>1. Source!SourcesAreTold'
    BY DEF Source!SourcesAreTold, Source!NoOutcome
<1>2. Source!IInv' <=> (Source!SourcesAreTold /\ CallsAreTold(x2, x3, x4))'
    BY SourceInvIs, PTL
<1> QED
    BY <1>1, <1>2

LEMMA SourceInit == Source!Init => Source!IInv
<1> SUFFICES ASSUME Source!Init PROVE Source!IInv
    OBVIOUS
<1>1. CallsAreTold(x2, x3, x4)
    BY NoCallsIs DEF Source!Init, CallsAreTold, Source!Idle, Source!Inquiries, Source!Vendors
<1>2. Source!SourcesAreTold
    BY DEF Source!Init, Source!SourcesAreTold, Source!NoOutcome
<1> QED
    BY <1>1, <1>2, SourceInvIs

\* A request of which nothing is asked.
LEMMA DeclineInv ==
    ASSUME Source!IInv, NEW v, NEW k, NEW refresh, NEW clear, NEW configured, NEW reason,
           Source!Decline(v, k, refresh, clear, configured, reason)
    PROVE  Source!IInv'
<1>1. UNCHANGED <<x1, x2, x3, x4>> /\ x5'.from = "nothing"
    BY DEF Source!Decline, Source!Answer
<1>2. Source!SourcesAreTold'
    BY <1>1 DEF Source!SourcesAreTold
<1>3. CallsAreTold(x2, x3, x4)'
    BY <1>1, SourceInvIs
<1>4. Source!IInv' <=> (Source!SourcesAreTold /\ CallsAreTold(x2, x3, x4))'
    BY SourceInvIs, PTL
<1> QED
    BY <1>2, <1>3, <1>4

\* A snapshot that is reused is recent and is told as what it is.
LEMMA ReuseInv ==
    ASSUME Source!IInv, NEW v, NEW k, NEW refresh, NEW configured, NEW s \in x1,
           Source!Reuse(v, k, refresh, configured, s)
    PROVE  Source!IInv'
<1>1. /\ UNCHANGED <<x1, x2, x3, x4>> /\ s \in Source!Recent(v, k)
      /\ x5'.from = "snapshot" /\ x5'.status = s.status /\ x5'.rows = {s}
    BY DEF Source!Reuse, Source!Answer
<1>2. s.age <= 1 /\ s.status # "failed"
    BY <1>1 DEF Source!Recent, Source!Usable
<1>3. Source!SourcesAreTold'
    BY <1>1, <1>2 DEF Source!SourcesAreTold
<1>4. CallsAreTold(x2, x3, x4)'
    BY <1>1, SourceInvIs
<1>5. Source!IInv' <=> (Source!SourcesAreTold /\ CallsAreTold(x2, x3, x4))'
    BY SourceInvIs, PTL
<1> QED
    BY <1>3, <1>4, <1>5

LEMMA BeginInquiryInv ==
    ASSUME Source!IInv, NEW v \in Source!Vendors, NEW k \in {"k1", "k2", "none"}, NEW refresh,
           Source!Begin(v, k, refresh)
    PROVE  Source!IInv'
<1>1. /\ x2.at = "idle" /\ UNCHANGED <<x1, x3, x4>> /\ x5' = Source!NoOutcome
      /\ x2' = [vendor |-> v, key |-> k, at |-> Source!NextCall(v, "begin")]
    BY DEF Source!Begin
<1>2. Source!NextCall(v, "begin") = IF v = "1688" THEN "item_search" ELSE "hot_products"
    BY DEF Source!NextCall, Source!Vendors
<1>3. CallsAreTold(x2, x3, x4)'
    BY <1>1, <1>2, SourceInvIs, NoCallsIs DEF CallsAreTold, Source!Inquiries, Source!Calls
<1> QED
    BY <1>1, <1>3, SourceInvIs, SourceCalls

LEMMA SupplierInv ==
    ASSUME Source!IInv, NEW o \in Source!Outcomes, NEW again \in BOOLEAN, Source!CallSupplier(o, again)
    PROVE  Source!IInv'
<1>1. x2 \in Source!Inquiries /\ IsTally(x3) /\ CallsAreTold(x2, x3, x4)
    BY SourceInvIs DEF CallsAreTold
<1>2. /\ x2.vendor = "1688" /\ x2.at \in Source!Calls /\ UNCHANGED <<x1, x5>>
      /\ x3' = Source!Count(x3, o)
      /\ x4' = x4 \cup (IF o = "found" THEN {x2.at} \cap Source!Searches ELSE {})
      /\ x2' = [x2 EXCEPT !.at =
             IF again THEN x2.at
             ELSE IF "item_search" \in x4' THEN Source!NextCall("1688", x2.at) ELSE "score"]
    BY DEF Source!CallSupplier
<1>3. x2.at \in {"item_search", "item_get", "seller_info"}
    BY <1>1, <1>2 DEF CallsAreTold, Source!Calls
<1>4. Source!NextCall("1688", x2.at) \in {"item_get", "seller_info", "score"}
    BY <1>3 DEF Source!NextCall
<1>5. /\ x2' \in Source!Inquiries /\ x2'.vendor = "1688"
      /\ x2'.at \in {"item_search", "item_get", "seller_info", "score"}
      /\ x2'.at \in {"item_get", "seller_info"} => "item_search" \in x4'
    BY <1>1, <1>2, <1>3, <1>4 DEF Source!Inquiries, Source!Calls, CallsAreTold
<1>6. /\ IsTally(x3') /\ (x4' # {} => x3'.answered) /\ (x3'.answered \/ x3'.failed)
      /\ x3'.hidden => "suggestions" \in x4'
    BY <1>1, <1>2, CountIs DEF CallsAreTold, Source!Outcomes
<1>7. CallsAreTold(x2, x3, x4)'
    BY <1>5, <1>6 DEF CallsAreTold
<1> QED
    BY <1>2, <1>7, SourceInvIs, SourceCalls

LEMMA PassOverInv == ASSUME Source!IInv, Source!PassOver PROVE Source!IInv'
<1>1. x2 \in Source!Inquiries /\ IsTally(x3) /\ CallsAreTold(x2, x3, x4)
    BY SourceInvIs DEF CallsAreTold
<1>2. /\ x2.at \in {"item_get", "seller_info"} /\ UNCHANGED <<x1, x3, x4, x5>>
      /\ x2' = [x2 EXCEPT !.at = Source!NextCall("1688", x2.at)]
    BY DEF Source!PassOver
<1>3. Source!NextCall("1688", x2.at) = IF x2.at = "item_get" THEN "seller_info" ELSE "score"
    BY <1>2 DEF Source!NextCall
<1>4. /\ x2' \in Source!Inquiries /\ x2'.vendor = x2.vendor
      /\ x2'.at = IF x2.at = "item_get" THEN "seller_info" ELSE "score"
    BY <1>1, <1>2, <1>3 DEF Source!Inquiries, Source!Calls
<1>5. CallsAreTold(x2, x3, x4)'
    BY <1>1, <1>2, <1>4 DEF CallsAreTold
<1> QED
    BY <1>2, <1>5, SourceInvIs, SourceCalls

LEMMA ShopInv ==
    ASSUME Source!IInv, NEW o \in Source!Outcomes, Source!CallShop(o)
    PROVE  Source!IInv'
<1>1. x2 \in Source!Inquiries /\ IsTally(x3) /\ CallsAreTold(x2, x3, x4)
    BY SourceInvIs DEF CallsAreTold
<1>2. /\ x2.vendor = "tiktok" /\ x2.at \in Source!Calls /\ UNCHANGED <<x1, x5>>
      /\ x3' = Source!Count(x3, o)
      /\ x4' = x4 \cup (IF o = "found" THEN {x2.at} \cap Source!Searches ELSE {})
      /\ x2' = [x2 EXCEPT !.at = Source!NextCall("tiktok", x2.at)]
    BY DEF Source!CallShop
<1>3. Source!NextCall("tiktok", x2.at) \in Source!Calls \cup {"score"}
    BY <1>2 DEF Source!NextCall, Source!Calls
<1>4. x2' \in Source!Inquiries /\ x2'.vendor = "tiktok" /\ x2'.at # "idle"
    BY <1>1, <1>2, <1>3 DEF Source!Inquiries, Source!Calls
<1>5. /\ IsTally(x3') /\ (x4' # {} => x3'.answered)
      /\ x3'.hidden => "suggestions" \in x4'
    BY <1>1, <1>2, CountIs DEF CallsAreTold, Source!Outcomes
<1>6. CallsAreTold(x2, x3, x4)'
    BY <1>4, <1>5 DEF CallsAreTold
<1> QED
    BY <1>2, <1>6, SourceInvIs, SourceCalls

\* A search that failed and is tried again goes by a suggestion.
LEMMA SearchInv ==
    ASSUME Source!IInv, NEW o \in Source!Outcomes, NEW differs \in BOOLEAN, Source!Search(o, differs)
    PROVE  Source!IInv'
<1> DEFINE retry == o \in {"timeout", "error"} /\ "suggestions" \in x4 /\ differs
<1>1. x2 \in Source!Inquiries /\ IsTally(x3) /\ CallsAreTold(x2, x3, x4)
    BY SourceInvIs DEF CallsAreTold
<1>2. /\ x2.at = "search_products" /\ UNCHANGED <<x1, x5>>
      /\ x3' = IF retry THEN [x3 EXCEPT !.hidden = TRUE] ELSE Source!Count(x3, o)
      /\ x4' = x4 \cup (IF o = "found" THEN {"search_products"} ELSE {})
      /\ x2' = [x2 EXCEPT !.at = IF retry THEN "search_again" ELSE Source!AfterSearch(x4')]
    BY DEF Source!Search
<1>3. Source!AfterSearch(x4') \in {"product_detail", "posts"}
    BY DEF Source!AfterSearch
<1>4. x2' \in Source!Inquiries /\ x2'.vendor # "1688" /\ x2'.at # "idle"
    BY <1>1, <1>2, <1>3 DEF CallsAreTold, Source!Inquiries, Source!Calls
<1>5. /\ IsTally(x3') /\ (x4' # {} => x3'.answered)
      /\ x3'.hidden => "suggestions" \in x4'
    <2>1. CASE retry
        BY <1>1, <1>2, <2>1 DEF CallsAreTold, IsTally
    <2>2. CASE ~retry
        BY <1>1, <1>2, <2>2, CountIs DEF CallsAreTold, Source!Outcomes
    <2> QED
        BY <2>1, <2>2
<1>6. CallsAreTold(x2, x3, x4)'
    BY <1>4, <1>5 DEF CallsAreTold
<1> QED
    BY <1>2, <1>6, SourceInvIs, SourceCalls

LEMMA SearchAgainInv ==
    ASSUME Source!IInv, NEW o \in Source!Outcomes, NEW first \in {"timeout", "error"},
           Source!SearchAgain(o, first)
    PROVE  Source!IInv'
<1>1. x2 \in Source!Inquiries /\ IsTally(x3) /\ CallsAreTold(x2, x3, x4)
    BY SourceInvIs DEF CallsAreTold
<1>2. /\ x2.at = "search_again" /\ UNCHANGED <<x1, x5>>
      /\ x3' = IF o \in {"found", "empty"} THEN Source!Count(x3, o)
               ELSE [Source!Count(Source!Count(x3, first), o) EXCEPT !.hidden = FALSE]
      /\ x4' = x4 \cup (IF o = "found" THEN {"search_products"} ELSE {})
      /\ x2' = [x2 EXCEPT !.at = Source!AfterSearch(x4')]
    BY DEF Source!SearchAgain
<1>3. Source!AfterSearch(x4') \in {"product_detail", "posts"}
    BY DEF Source!AfterSearch
<1>4. x2' \in Source!Inquiries /\ x2'.vendor # "1688" /\ x2'.at # "idle"
    BY <1>1, <1>2, <1>3 DEF CallsAreTold, Source!Inquiries, Source!Calls
<1>5. /\ IsTally(x3') /\ (x4' # {} => x3'.answered)
      /\ x3'.hidden => "suggestions" \in x4'
    <2>1. CASE o \in {"found", "empty"}
        BY <1>1, <1>2, <2>1, CountIs DEF CallsAreTold
    <2>2. CASE o \notin {"found", "empty"}
        <3> DEFINE t == Source!Count(Source!Count(x3, first), o)
        <3>1. IsTally(t) /\ (x3.answered => t.answered)
            BY <1>1, CountIs
        <3> HIDE DEF t
        <3> QED
            BY <1>1, <1>2, <2>2, <3>1 DEF t, CallsAreTold, IsTally
    <2> QED
        BY <2>1, <2>2
<1>6. CallsAreTold(x2, x3, x4)'
    BY <1>4, <1>5 DEF CallsAreTold
<1> QED
    BY <1>2, <1>6, SourceInvIs, SourceCalls

\* What the calls have left behind is what is told of them.
LEMMA ScoreInv == ASSUME Source!IInv, Source!Score PROVE Source!IInv'
<1> DEFINE status == Source!Status(x2.vendor, x3, x4)
<1>1. x2 \in Source!Inquiries /\ IsTally(x3) /\ CallsAreTold(x2, x3, x4) /\ x2.at = "score"
    BY SourceInvIs DEF CallsAreTold, Source!Score
<1>2. /\ x5' = [from |-> "calls", status |-> status, evidence |-> x4, rows |-> {}, tally |-> x3]
      /\ x2' = Source!Idle /\ x3' = Source!NoCalls /\ x4' = {}
    BY DEF Source!Score, Source!Answer
<1>3. /\ status = "ok" => ~x3.failed
      /\ status = "failed" => ~x3.answered
      /\ status = "no_result" => x3.answered /\ "item_search" \notin x4
    BY <1>1 DEF Source!Status, CallsAreTold, IsTally, Source!Inquiries, Source!Vendors
<1>4. Source!SourcesAreTold'
    <2> HIDE DEF status
    <2>1. /\ x5'.from = "calls" /\ x5'.status = status /\ x5'.evidence = x4 /\ x5'.tally = x3
        BY <1>2
    <2> QED
        BY <1>1, <1>3, <2>1 DEF Source!SourcesAreTold, CallsAreTold
<1>5. CallsAreTold(x2, x3, x4)'
    BY <1>2, NoCallsIs DEF CallsAreTold, Source!Idle, Source!Inquiries, Source!Vendors
<1>6. Source!IInv' <=> (Source!SourcesAreTold /\ CallsAreTold(x2, x3, x4))'
    BY SourceInvIs, PTL
<1> QED
    BY <1>4, <1>5, <1>6

LEMMA SourceRests ==
    ASSUME Source!IInv, Source!ScoreIsLost \/ Source!Tick \/ UNCHANGED Source!vars
    PROVE  Source!IInv'
<1>1. CallsAreTold(x2, x3, x4)'
    <2>1. CASE Source!ScoreIsLost
        BY <2>1, NoCallsIs DEF Source!ScoreIsLost, CallsAreTold, Source!Idle, Source!Inquiries, Source!Vendors
    <2>2. CASE Source!Tick \/ UNCHANGED Source!vars
        BY <2>2, SourceInvIs DEF Source!Tick, Source!vars
    <2> QED
        BY <2>1, <2>2
<1>2. x5' = x5 \/ x5' = Source!NoOutcome
    BY DEF Source!ScoreIsLost, Source!Tick, Source!vars
<1> QED
    BY <1>1, <1>2, SourceInvIs, SourceCalls

LEMMA SourceNext == Source!IInv /\ [Source!Next]_(Source!vars) => Source!IInv'
<1> SUFFICES ASSUME Source!IInv, [Source!Next]_(Source!vars) PROVE Source!IInv'
    OBVIOUS
<1> QED
    BY DeclineInv, ReuseInv, BeginInquiryInv, SupplierInv, PassOverInv, ShopInv, SearchInv,
       SearchAgainInv, ScoreInv, SourceRests DEF Source!Next

-----------------------------------------------------------------------------
(***************************************************************************)
(* Searches: x1 is the search that is under way, x2 the last reply.        *)
(***************************************************************************)
LEMMA SearchCounts == \A S : Search!Cardinality(S) = Cardinality(S)
BY DEF Search!Cardinality, Cardinality, Search!IsFiniteSet, IsFiniteSet

LEMMA AddedIsFinite == ASSUME NEW S, IsFiniteSet(S), NEW e PROVE IsFiniteSet(S \cup {e})
BY FS_AddElement

LEMMA FewSources ==
    ASSUME NEW S \in SUBSET {"s1", "s2"}, Cardinality(S) = 1
    PROVE  \E s : S = {s}
<1>1. IsFiniteSet({"s1"} \cup {"s2"})
    BY FS_Singleton, AddedIsFinite
<1>2. S \in SUBSET ({"s1"} \cup {"s2"})
    OBVIOUS
<1> QED
    BY <1>1, <1>2, FS_Subset, FS_Singleton

LEMMA ItemsAreFew == IsFiniteSet(ItemsFound)
<1>1. ASSUME NEW a, NEW b, NEW c PROVE IsFiniteSet({a, b, c})
    <2>1. IsFiniteSet({a})
        BY FS_Singleton
    <2>2. IsFiniteSet({a} \cup {b})
        BY <2>1, AddedIsFinite
    <2>3. IsFiniteSet(({a} \cup {b}) \cup {c}) /\ ({a} \cup {b}) \cup {c} = {a, b, c}
        BY <2>2, AddedIsFinite
    <2> QED
        BY <2>3
<1> QED
    BY <1>1 DEF ItemsFound

\* The best of something are something.
CutOf(cut, S) == Search!Cardinality(cut) = IF 1 < Search!Cardinality(S) THEN 1 ELSE Search!Cardinality(S)

LEMMA CutIsSome ==
    ASSUME NEW S \in SUBSET ItemsFound, S # {}, NEW cut, CutOf(cut, S)
    PROVE  cut # {}
<1>1. IsFiniteSet(S) /\ Cardinality(S) \in Nat /\ Cardinality(S) # 0
    BY ItemsAreFew, FS_Subset, FS_CardinalityType, FS_EmptySet
<1>2. Cardinality(cut) # 0
    BY <1>1, SearchCounts DEF CutOf
<1> QED
    BY <1>2, FS_EmptySet

\* What the last reply said.
ToldAll(r) ==
    /\ r.failed # {} => r.warned \/ (r.service = "datasets" /\ r.shown = {} /\ r.found # {})
    /\ r.status = "error" => r.found = {}
    /\ r.service = "ima" /\ r.found # {} => r.shown # {}
    /\ r.service \in {"commerce", "news"} =>
          LET usable == {i \in r.found : Search!Relevant(r.service, i)} IN
          /\ r.shown \subseteq usable
          /\ usable # {} => r.shown # {}
          /\ \A i \in r.shown, j \in usable \ r.shown :
                Search!Score(r.service, i) >= Search!Score(r.service, j)
          /\ r.status = "ok" <=> r.failed = {} /\ r.shown # {}

\* How far a search has come.
Asking(s) ==
    s # Search!NoSearch =>
        /\ s \in [step : {"ask"}, service : Search!Services, asked : SUBSET {"s1", "s2"},
                  left : SUBSET {"s1", "s2"}, answered : SUBSET {"s1", "s2"},
                  found : SUBSET ItemsFound, failed : SUBSET {"s1", "s2"}]
        /\ s.asked \in Search!Asked(s.service)
        /\ s.asked = s.left \cup s.answered \cup s.failed
        /\ s.left \cap (s.answered \cup s.failed) = {}
        /\ s.answered \cap s.failed = {}
        /\ s.answered = {} => s.found = {}

LEMMA SearchInvIs ==
    /\ Search!IInv <=> Asking(x1) /\ ToldAll(x2)
    /\ Search!IInv' <=> Asking(x1') /\ ToldAll(x2')
BY DEF Search!IInv, Search!FailuresAreTold, Asking, ToldAll

LEMMA SearchInit == Search!Init => Search!IInv
<1> SUFFICES ASSUME Search!Init PROVE Asking(x1) /\ ToldAll(x2)
    BY SearchInvIs
<1> QED
    BY DEF Search!Init, Asking, ToldAll, Search!NoReply

LEMMA AskSources == ASSUME Search!IInv, NEW service \in Search!Services, Search!Ask(service) PROVE Search!IInv'
<1>1. x2' = x2
    BY DEF Search!Ask
<1>2. PICK sources \in Search!Asked(service) :
          x1' = [step |-> "ask", service |-> service, asked |-> sources,
                 left |-> sources, answered |-> {}, found |-> {}, failed |-> {}]
    BY DEF Search!Ask
<1>3. sources \in SUBSET {"s1", "s2"}
    BY DEF Search!Asked
<1>4. Asking(x1')
    BY <1>2, <1>3 DEF Asking
<1> QED
    BY <1>1, <1>4, SearchInvIs

LEMMA SourceAnswers ==
    ASSUME Search!IInv, NEW source \in {"s1", "s2"}, NEW items \in SUBSET ItemsFound,
           Search!Answers(source, items) \/ Search!Fails(source)
    PROVE  Search!IInv'
<1>1. x1 # Search!NoSearch /\ Asking(x1) /\ source \in x1.left /\ x2' = x2
    BY SearchInvIs DEF Search!Answers, Search!Fails, Search!NoSearch
<1>2. CASE Search!Answers(source, items)
    <2>1. x1' = [x1 EXCEPT !.left = x1.left \ {source}, !.found = x1.found \cup items,
                           !.answered = x1.answered \cup {source}]
        BY <1>2 DEF Search!Answers
    <2>2. Asking(x1')
        <3>1. /\ x1'.left = x1.left \ {source} /\ x1'.found = x1.found \cup items
              /\ x1'.answered = x1.answered \cup {source} /\ x1'.asked = x1.asked
              /\ x1'.service = x1.service /\ x1'.failed = x1.failed
            BY <1>1, <2>1 DEF Asking
        <3>2. /\ x1' \in [step : {"ask"}, service : Search!Services, asked : SUBSET {"s1", "s2"},
                          left : SUBSET {"s1", "s2"}, answered : SUBSET {"s1", "s2"},
                          found : SUBSET ItemsFound, failed : SUBSET {"s1", "s2"}]
            BY <1>1, <2>1 DEF Asking
        <3> QED
            BY <1>1, <3>1, <3>2 DEF Asking
    <2> QED
        BY <1>1, <2>2, SearchInvIs
<1>3. CASE Search!Fails(source)
    <2>1. x1' = [x1 EXCEPT !.left = x1.left \ {source}, !.failed = x1.failed \cup {source}]
        BY <1>3 DEF Search!Fails
    <2>2. Asking(x1')
        <3>1. /\ x1'.left = x1.left \ {source} /\ x1'.failed = x1.failed \cup {source}
              /\ x1'.answered = x1.answered /\ x1'.asked = x1.asked
              /\ x1'.service = x1.service /\ x1'.found = x1.found
            BY <1>1, <2>1 DEF Asking
        <3>2. /\ x1' \in [step : {"ask"}, service : Search!Services, asked : SUBSET {"s1", "s2"},
                          left : SUBSET {"s1", "s2"}, answered : SUBSET {"s1", "s2"},
                          found : SUBSET ItemsFound, failed : SUBSET {"s1", "s2"}]
            BY <1>1, <2>1 DEF Asking
        <3> QED
            BY <1>1, <3>1, <3>2 DEF Asking
    <2> QED
        BY <1>1, <2>2, SearchInvIs
<1> QED
    BY <1>2, <1>3

\* When every source was asked, those that did not answer have failed.
LEMMA AllAsked ==
    ASSUME Search!IInv, Search!Finished
    PROVE  /\ x1 # Search!NoSearch /\ x1.failed = x1.asked \ x1.answered /\ x1.asked # {}
           /\ x1.found \in SUBSET ItemsFound
           /\ x1.failed = x1.asked => x1.found = {}
           /\ x1.service = "help" /\ x1.failed # {} => x1.found = {}
<1>1. x1 # Search!NoSearch /\ Asking(x1) /\ x1.left = {}
    BY SearchInvIs DEF Search!Finished, Search!NoSearch
<1>2. x1.failed = x1.asked \ x1.answered /\ x1.found \in SUBSET ItemsFound /\ x1.asked # {}
    BY <1>1 DEF Asking, Search!Asked
<1>3. x1.failed = x1.asked => x1.found = {}
    BY <1>1 DEF Asking
<1>4. ASSUME x1.service = "help", x1.failed # {} PROVE x1.found = {}
    <2>1. Cardinality(x1.asked) = 1 /\ x1.asked \in SUBSET {"s1", "s2"}
        BY <1>1, <1>4, SearchCounts DEF Asking, Search!Asked
    <2>2. PICK s : x1.asked = {s}
        BY <2>1, FewSources
    <2> QED
        BY <1>2, <1>3, <1>4, <2>2
<1> QED
    BY <1>1, <1>2, <1>3, <1>4

\* A reply is told as it should be, and the search is over.
LEMMA ReplyInv ==
    ASSUME Search!IInv, Search!Finished, NEW status, NEW shown, NEW warned, Search!Reply(status, shown, warned),
           x1.failed # {} => warned \/ (x1.service = "datasets" /\ shown = {} /\ x1.found # {}),
           status = "error" => x1.found = {},
           x1.service = "ima" /\ x1.found # {} => shown # {},
           x1.service \notin {"commerce", "news"}
    PROVE  Search!IInv'
<1>1. /\ x2' = [status |-> status, shown |-> shown, warned |-> warned, service |-> x1.service,
                found |-> x1.found, failed |-> x1.failed]
      /\ x1' = Search!NoSearch
    BY AllAsked DEF Search!Reply
<1>2. /\ x2'.status = status /\ x2'.shown = shown /\ x2'.warned = warned /\ x2'.service = x1.service
      /\ x2'.found = x1.found /\ x2'.failed = x1.failed
    BY <1>1
<1>3. Asking(x1') /\ ToldAll(x2')
    BY <1>1, <1>2 DEF Asking, ToldAll
<1> QED
    BY <1>3, SearchInvIs

LEMMA ImaInv == ASSUME Search!IInv, Search!ReplyIma PROVE Search!IInv'
<1>1. Search!Finished /\ x1.service = "ima"
    BY DEF Search!ReplyIma
<1>2. CASE x1.found = {} /\ x1.failed # {}
    BY <1>1, <1>2, ReplyInv DEF Search!ReplyIma
<1>3. CASE ~(x1.found = {} /\ x1.failed # {})
    <2>1. PICK cut \in SUBSET x1.found : CutOf(cut, x1.found) /\ Search!Reply("ok", cut, x1.failed # {})
        BY <1>3 DEF Search!ReplyIma, CutOf
    <2>2. x1.found # {} => cut # {}
        BY <1>1, <2>1, AllAsked, CutIsSome
    <2> QED
        BY <1>1, <2>1, <2>2, ReplyInv
<1> QED
    BY <1>2, <1>3

LEMMA DatasetsInv == ASSUME Search!IInv, Search!ReplyDatasets PROVE Search!IInv'
<1>1. Search!Finished /\ x1.service = "datasets"
    BY DEF Search!ReplyDatasets
<1>2. CASE x1.found = {} /\ x1.failed # {}
    BY <1>1, <1>2, ReplyInv DEF Search!ReplyDatasets
<1>3. CASE ~(x1.found = {} /\ x1.failed # {})
    <2>1. PICK cut : Search!Reply("ok", {i \in cut : i.text}, {i \in cut : i.text} # {} /\ x1.failed # {})
        BY <1>3 DEF Search!ReplyDatasets
    <2> QED
        BY <1>1, <1>3, <2>1, ReplyInv
<1> QED
    BY <1>2, <1>3

LEMMA HelpInv == ASSUME Search!IInv, Search!ReplyHelp PROVE Search!IInv'
<1>1. Search!Finished /\ x1.service = "help"
    BY DEF Search!ReplyHelp
<1>2. CASE x1.failed # {}
    BY <1>1, <1>2, AllAsked, ReplyInv DEF Search!ReplyHelp
<1>3. CASE x1.failed = {}
    <2>1. PICK cut : Search!Reply("ok", {i \in cut : i.text}, FALSE)
        BY <1>3 DEF Search!ReplyHelp
    <2> QED
        BY <1>1, <1>3, <2>1, ReplyInv
<1> QED
    BY <1>2, <1>3

\* The web search: what is relevant, the best of it, and whether anything failed.
LEMMA TavilyInv == ASSUME Search!IInv, Search!ReplyTavily PROVE Search!IInv'
<1> DEFINE usable == {i \in x1.found : Search!Relevant(x1.service, i)}
<1>1. Search!Finished /\ x1.service \in {"commerce", "news"}
    BY DEF Search!ReplyTavily
<1>2. ASSUME NEW status, NEW shown, NEW warned, Search!Reply(status, shown, warned),
             x1.failed # {} => warned, status = "error" => x1.found = {},
             shown \subseteq usable, usable # {} => shown # {},
             \A i \in shown, j \in usable \ shown : Search!Score(x1.service, i) >= Search!Score(x1.service, j),
             status = "ok" <=> x1.failed = {} /\ shown # {}
      PROVE  Search!IInv'
    <2>1. /\ x2' = [status |-> status, shown |-> shown, warned |-> warned, service |-> x1.service,
                    found |-> x1.found, failed |-> x1.failed]
          /\ x1' = Search!NoSearch
        BY <1>1, <1>2, AllAsked DEF Search!Reply
    <2>2. /\ x2'.status = status /\ x2'.shown = shown /\ x2'.warned = warned /\ x2'.service = x1.service
          /\ x2'.found = x1.found /\ x2'.failed = x1.failed
        BY <2>1
    <2>3. ToldAll(x2')
        BY <1>1, <1>2, <2>2 DEF ToldAll
    <2> QED
        BY <2>1, <2>3, SearchInvIs DEF Asking
<1>3. CASE x1.failed = x1.asked
    <2>1. Search!Reply("error", {}, TRUE) /\ x1.found = {} /\ x1.failed # {}
        BY <1>1, <1>3, AllAsked DEF Search!ReplyTavily
    <2> QED
        BY <2>1, <1>2
<1>4. CASE x1.failed # x1.asked
    <2>1. PICK cut \in Search!Best(x1.service, usable) :
              Search!Reply(IF cut = {} THEN "no_relevant_results"
                           ELSE IF x1.failed # {} THEN "partial" ELSE "ok", cut, x1.failed # {})
        BY <1>4 DEF Search!ReplyTavily
    <2> HIDE DEF usable
    <2>2. /\ cut \in SUBSET usable /\ CutOf(cut, usable)
          /\ \A i \in cut, j \in usable \ cut : Search!Score(x1.service, i) >= Search!Score(x1.service, j)
        BY <2>1 DEF Search!Best, CutOf
    <2>3. usable \in SUBSET ItemsFound
        BY <1>1, AllAsked DEF usable
    <2>4. usable # {} => cut # {}
        BY <2>2, <2>3, CutIsSome
    <2>5. CASE cut = {}
        BY <1>2, <2>1, <2>2, <2>4, <2>5
    <2>6. CASE cut # {} /\ x1.failed # {}
        BY <1>2, <2>1, <2>2, <2>4, <2>6
    <2>7. CASE cut # {} /\ x1.failed = {}
        BY <1>2, <2>1, <2>2, <2>4, <2>7
    <2> QED
        BY <2>5, <2>6, <2>7
<1> QED
    BY <1>3, <1>4

LEMMA SearchNext == Search!IInv /\ [Search!Next]_(Search!vars) => Search!IInv'
<1> SUFFICES ASSUME Search!IInv, [Search!Next]_(Search!vars) PROVE Search!IInv'
    OBVIOUS
<1>1. CASE UNCHANGED Search!vars
    BY <1>1, SearchInvIs DEF Search!vars
<1>2. ASSUME NEW source \in {"s1", "s2"}, Search!Fails(source) PROVE Search!IInv'
    BY <1>2, SourceAnswers
<1> QED
    BY <1>1, <1>2, AskSources, SourceAnswers, ImaInv, DatasetsInv, HelpInv, TavilyInv DEF Search!Next

-----------------------------------------------------------------------------
(***************************************************************************)
(* Runs: x1 is the run, x2 the session, x3 how many messages there are, x4 *)
(* the artifacts, x5 the locks, x6 the handlers, x7 what was committed.    *)
(***************************************************************************)
Reported(l) == {n \in DOMAIN l : l[n].what = "report"}
RunMade(l) == {n \in DOMAIN l : l[n].what = "run"}
MessageIn(l) == {n \in DOMAIN l : l[n].what = "message"} \cup {n \in Reported(l) : l[n].report.message}
AnswerIn(l) == {n \in Reported(l) : l[n].report.answer}
EndIn(l) == {n \in Reported(l) : l[n].report.status \in Run!Terminal}
ArtifactIn(l, k) == {n \in Reported(l) : k \in l[n].report.artifacts}
Latest(S) == CHOOSE n \in S : \A m \in S : m <= n
LatestIn(l, S) == IF S = {} THEN 0 ELSE l[Latest(S)].report.id

\* What the log says of the row of the run.
RowAsTold(run, l) ==
    /\ run # Run!NoRun <=> RunMade(l) # {}
    /\ \A n \in Reported(l) : (\A m \in Reported(l) : m <= n) => run.status = l[n].report.status
    /\ Reported(l) = {} => run \in {Run!NoRun, Run!NewRun}
    /\ run.answer = LatestIn(l, AnswerIn(l)) /\ run.finished = LatestIn(l, EndIn(l))

MessagesAsTold(messages, l) == messages = Cardinality(MessageIn(l))
ArtifactsAsTold(artifacts, l) == artifacts["table"] = LatestIn(l, ArtifactIn(l, "table"))
ClosedOnce(session) == session.closed # 0 <=> session.status = "closed"

RunTypes(run, messages, lock, task, l) ==
    /\ run \in Run!Rows /\ messages \in Nat /\ l \in Seq(Run!Entries)
    /\ DOMAIN lock = {"run", "session"} /\ task \in [Actors -> Run!Tasks]

RunReaders(run, lock, task) ==
    \A h \in Actors :
        /\ task[h].step \in {"update", "touch", "report"} => run # Run!NoRun
        /\ task[h].step \in {"touch", "report"} => lock.run = h /\ task[h].seen = run

LEMMA RunInvIs ==
    Run!IInv <=> /\ RowAsTold(x1, x7) /\ MessagesAsTold(x3, x7) /\ ArtifactsAsTold(x4, x7) /\ ClosedOnce(x2)
                 /\ RunTypes(x1, x3, x5, x6, x7) /\ RunReaders(x1, x5, x6)
<1>1. \A S : Run!Cardinality(S) = Cardinality(S)
    BY DEF Run!Cardinality, Cardinality, Run!IsFiniteSet, IsFiniteSet
<1>2. /\ Run!Created = RunMade(x7) /\ Run!Said = Reported(x7) /\ Run!Wrote = MessageIn(x7)
      /\ Run!Answered = AnswerIn(x7) /\ Run!Finished = EndIn(x7) /\ Run!Holding("table") = ArtifactIn(x7, "table")
    BY DEF Run!Created, RunMade, Run!Said, Reported, Run!Wrote, MessageIn, Run!Answered, AnswerIn,
           Run!Finished, EndIn, Run!Holding, ArtifactIn
<1>3. \A S : Run!Last(S) = LatestIn(x7, S)
    BY DEF Run!Last, LatestIn, Latest, Run!NoValue
<1>4. Run!ReportsInOneOrder <=>
          RowAsTold(x1, x7) /\ MessagesAsTold(x3, x7) /\ ArtifactsAsTold(x4, x7) /\ ClosedOnce(x2)
    BY <1>1, <1>2, <1>3 DEF Run!ReportsInOneOrder, RowAsTold, MessagesAsTold, ArtifactsAsTold, ClosedOnce, Run!NoValue
<1> QED
    BY <1>4 DEF Run!IInv, RunTypes, RunReaders

LEMMA ReportIs ==
    ASSUME NEW r \in ReportsOfDify
    PROVE  r.id \in Nat \ {0} /\ r.status \in {"running", "completed", "failed"}
<1>1. \/ r = [id |-> 1, status |-> "running", answer |-> FALSE, message |-> FALSE, artifacts |-> {}]
      \/ r = [id |-> 2, status |-> "completed", answer |-> TRUE, message |-> TRUE, artifacts |-> {"table"}]
      \/ r = [id |-> 3, status |-> "failed", answer |-> FALSE, message |-> FALSE, artifacts |-> {"table"}]
    BY DEF ReportsOfDify
<1>2. r.id \in {1, 2, 3} /\ r.status \in {"running", "completed", "failed"}
    BY <1>1
<1> QED
    BY <1>2

\* What is committed comes last in the log.
LEMMA LogGrows ==
    ASSUME NEW l \in Seq(Run!Entries), NEW e \in Run!Entries
    PROVE  LET n == Len(l) + 1
               k == Append(l, e) IN
           /\ k \in Seq(Run!Entries) /\ n \in Nat /\ n \notin DOMAIN l
           /\ DOMAIN k = DOMAIN l \cup {n} /\ k[n] = e /\ \A i \in DOMAIN l : k[i] = l[i] /\ i < n
           /\ DOMAIN l = 1 .. Len(l) /\ Len(l) \in Nat
<1>1. /\ Append(l, e) \in Seq(Run!Entries) /\ Len(Append(l, e)) = Len(l) + 1
      /\ \A i \in 1 .. Len(l) : Append(l, e)[i] = l[i]
      /\ Append(l, e)[Len(l) + 1] = e
    BY AppendProperties
<1>2. /\ DOMAIN l = 1 .. Len(l) /\ Len(l) \in Nat /\ DOMAIN Append(l, e) = 1 .. Len(l) + 1
    BY <1>1
<1>3. 1 .. Len(l) + 1 = (1 .. Len(l)) \cup {Len(l) + 1}
    BY <1>2
<1> QED
    BY <1>1, <1>2, <1>3

LEMMA LatestKept ==
    ASSUME NEW l \in Seq(Run!Entries), NEW e \in Run!Entries, NEW S \in SUBSET DOMAIN l
    PROVE  LatestIn(Append(l, e), S) = LatestIn(l, S)
<1>1. DOMAIN l = 1 .. Len(l) /\ Len(l) \in Nat
    OBVIOUS
<1>2. S # {} => \E n \in S : \A m \in S : m <= n
    BY <1>1, MaxOf
<1>3. S # {} => Latest(S) \in S
    BY <1>2 DEF Latest
<1> QED
    BY <1>3, LogGrows DEF LatestIn

LEMMA LatestAdded ==
    ASSUME NEW l \in Seq(Run!Entries), NEW e \in Run!Entries, NEW S \in SUBSET DOMAIN l
    PROVE  LatestIn(Append(l, e), S \cup {Len(l) + 1}) = e.report.id
<1> DEFINE n == Len(l) + 1
           T == S \cup {n}
<1>1. n \in T /\ \A m \in T : m \in Nat /\ m <= n
    BY LogGrows
<1>2. ASSUME NEW i \in T, \A m \in T : m <= i PROVE i = n
    <2> HIDE DEF T, n
    <2>1. i \in Nat /\ n \in Nat /\ i <= n /\ n <= i
        BY <1>1, <1>2
    <2> QED
        BY <2>1
<1>3. Latest(T) = n
    <2> HIDE DEF T, n
    <2> QED
        BY <1>1, <1>2 DEF Latest
<1> QED
    BY <1>3, LogGrows DEF LatestIn

\* What an entry that is committed adds to what the log says.
LEMMA SaidMore ==
    ASSUME NEW l \in Seq(Run!Entries), NEW e \in Run!Entries
    PROVE  LET k == Append(l, e)
               With(S, yes) == IF yes THEN S \cup {Len(l) + 1} ELSE S IN
           /\ RunMade(k) = With(RunMade(l), e.what = "run")
           /\ Reported(k) = With(Reported(l), e.what = "report")
           /\ MessageIn(k) = With(MessageIn(l), e.what = "message" \/ (e.what = "report" /\ e.report.message))
           /\ AnswerIn(k) = With(AnswerIn(l), e.what = "report" /\ e.report.answer)
           /\ EndIn(k) = With(EndIn(l), e.what = "report" /\ e.report.status \in Run!Terminal)
           /\ ArtifactIn(k, "table") = With(ArtifactIn(l, "table"), e.what = "report" /\ "table" \in e.report.artifacts)
<1> DEFINE n == Len(l) + 1
           k == Append(l, e)
<1>1. /\ n \notin DOMAIN l /\ DOMAIN k = DOMAIN l \cup {n} /\ k[n] = e
      /\ \A i \in DOMAIN l : k[i] = l[i]
    BY LogGrows
<1> HIDE DEF n, k
<1>2. RunMade(k) = IF e.what = "run" THEN RunMade(l) \cup {n} ELSE RunMade(l)
    BY <1>1 DEF RunMade
<1>3. Reported(k) = IF e.what = "report" THEN Reported(l) \cup {n} ELSE Reported(l)
    BY <1>1 DEF Reported
<1>4. /\ \A i \in Reported(l) : k[i] = l[i] /\ i # n
      /\ e.what = "report" => n \in Reported(k)
    BY <1>1, <1>3 DEF Reported
<1>5. MessageIn(k) = IF e.what = "message" \/ (e.what = "report" /\ e.report.message)
                     THEN MessageIn(l) \cup {n} ELSE MessageIn(l)
    BY <1>1, <1>3, <1>4 DEF MessageIn
<1>6. AnswerIn(k) = IF e.what = "report" /\ e.report.answer THEN AnswerIn(l) \cup {n} ELSE AnswerIn(l)
    BY <1>1, <1>3, <1>4 DEF AnswerIn
<1>7. EndIn(k) = IF e.what = "report" /\ e.report.status \in Run!Terminal THEN EndIn(l) \cup {n} ELSE EndIn(l)
    BY <1>1, <1>3, <1>4 DEF EndIn
<1>8. ArtifactIn(k, "table") = IF e.what = "report" /\ "table" \in e.report.artifacts
                               THEN ArtifactIn(l, "table") \cup {n} ELSE ArtifactIn(l, "table")
    BY <1>1, <1>3, <1>4 DEF ArtifactIn
<1> QED
    BY <1>2, <1>3, <1>5, <1>6, <1>7, <1>8 DEF n, k

LEMMA NoRunIs == Run!NewRun # Run!NoRun /\ Run!NewRun \in Run!Rows /\ Run!NoRun \in Run!Rows
BY DEF Run!NewRun, Run!NoRun, Run!NoValue, Run!Rows

LEMMA RunInit == Run!Init => Run!IInv
<1> SUFFICES ASSUME Run!Init PROVE Run!IInv
    OBVIOUS
<1>1. /\ x7 \in Seq(Run!Entries) /\ DOMAIN x7 = {}
    BY DEF Run!Init
<1>2. /\ RunMade(x7) = {} /\ Reported(x7) = {} /\ MessageIn(x7) = {} /\ AnswerIn(x7) = {} /\ EndIn(x7) = {}
      /\ ArtifactIn(x7, "table") = {}
    BY <1>1 DEF RunMade, Reported, MessageIn, AnswerIn, EndIn, ArtifactIn
<1>3. x1 = Run!NoRun /\ x1.answer = 0 /\ x1.finished = 0 /\ x3 = 0 /\ x4["table"] = 0
    BY DEF Run!Init, Run!NoRun, Run!NewRun, Run!NoValue
<1>4. RowAsTold(x1, x7) /\ MessagesAsTold(x3, x7) /\ ArtifactsAsTold(x4, x7)
    BY <1>2, <1>3, FS_EmptySet DEF RowAsTold, MessagesAsTold, ArtifactsAsTold, LatestIn
<1>5. ClosedOnce(x2)
    BY DEF Run!Init, ClosedOnce, Run!NoValue
<1>6. x6 = [h \in Actors |-> Run!Idle] /\ Run!Idle \in Run!Tasks /\ \A h \in Actors : x6[h].step = "idle"
    BY DEF Run!Init, Run!Tasks, Run!Idle
<1>7. RunTypes(x1, x3, x5, x6, x7) /\ RunReaders(x1, x5, x6)
    BY <1>1, <1>3, <1>6, NoRunIs DEF Run!Init, RunTypes, RunReaders
<1> QED
    BY <1>4, <1>5, <1>7, RunInvIs

LEMMA RunInvNext ==
    ASSUME RowAsTold(x1', x7'), MessagesAsTold(x3', x7'), ArtifactsAsTold(x4', x7'), ClosedOnce(x2'),
           RunTypes(x1', x3', x5', x6', x7'), RunReaders(x1', x5', x6')
    PROVE  Run!IInv'
<1>1. Run!IInv' <=> (/\ RowAsTold(x1, x7) /\ MessagesAsTold(x3, x7) /\ ArtifactsAsTold(x4, x7) /\ ClosedOnce(x2)
                     /\ RunTypes(x1, x3, x5, x6, x7) /\ RunReaders(x1, x5, x6))'
    BY RunInvIs, PTL
<1> QED
    BY <1>1

\* What a handler does before it commits, or when it gives up: the tables are as they were.
LEMMA HandlerMoves ==
    ASSUME Run!IInv, NEW h \in Actors, NEW t \in Run!Tasks, UNCHANGED <<x1, x2, x3, x4, x7>>,
           x6' = [x6 EXCEPT ![h] = t], DOMAIN x5' = {"run", "session"},
           \A g \in Actors \ {h} : x5.run = g => x5'.run = g,
           t.step \in {"update", "touch", "report"} => x1 # Run!NoRun,
           t.step \in {"touch", "report"} => x5'.run = h /\ t.seen = x1
    PROVE  Run!IInv'
<1>1. RowAsTold(x1', x7') /\ MessagesAsTold(x3', x7') /\ ArtifactsAsTold(x4', x7') /\ ClosedOnce(x2')
    BY RunInvIs
<1>2. RunTypes(x1', x3', x5', x6', x7') /\ RunReaders(x1', x5', x6')
    BY RunInvIs DEF RunTypes, RunReaders
<1> QED
    BY <1>1, <1>2, RunInvNext

\* What a commit must see to: the log is explained anew, and nobody else has read the row that changed.
LEMMA Commits ==
    ASSUME Run!IInv, NEW h \in Actors, NEW e \in Run!Entries, Run!Done(h, e),
           RowAsTold(x1', Append(x7, e)), MessagesAsTold(x3', Append(x7, e)),
           ArtifactsAsTold(x4', Append(x7, e)), ClosedOnce(x2'),
           x1' \in Run!Rows, x3' \in Nat,
           x1' # Run!NoRun \/ x1' = x1, x1' # x1 => x5.run = h \/ x1 = Run!NoRun
    PROVE  Run!IInv'
<1>1. /\ RunTypes(x1, x3, x5, x6, x7) /\ RunReaders(x1, x5, x6)
      /\ x7 \in Seq(Run!Entries) /\ DOMAIN x5 = {"run", "session"} /\ x6 \in [Actors -> Run!Tasks]
    BY RunInvIs DEF RunTypes
<1>2. /\ x7' = Append(x7, e) /\ x6' = [x6 EXCEPT ![h] = Run!Idle]
      /\ x5' = [row \in DOMAIN x5 |-> IF x5[row] = h THEN Nobody ELSE x5[row]]
    BY DEF Run!Done, Run!To, Run!Released
<1>3. Run!Idle \in Run!Tasks /\ Run!Idle.step = "idle"
    BY DEF Run!Tasks, Run!Idle
<1>4. x7' \in Seq(Run!Entries)
    BY <1>1, <1>2, LogGrows
<1>5. RunTypes(x1', x3', x5', x6', x7')
    BY <1>1, <1>2, <1>3, <1>4 DEF RunTypes
<1>6. RunReaders(x1', x5', x6')
    <2> SUFFICES ASSUME NEW g \in Actors, x6'[g].step \in {"update", "touch", "report"}
                 PROVE  /\ x1' # Run!NoRun
                        /\ x6'[g].step \in {"touch", "report"} => x5'.run = g /\ x6'[g].seen = x1'
        BY DEF RunReaders
    <2>1. g # h /\ x6'[g] = x6[g]
        BY <1>1, <1>2, <1>3
    <2>2. x1 # Run!NoRun /\ (x6[g].step \in {"touch", "report"} => x5.run = g /\ x6[g].seen = x1)
        BY <1>1, <2>1 DEF RunReaders
    <2> QED
        BY <1>1, <1>2, <2>1, <2>2
<1> QED
    BY <1>2, <1>5, <1>6, RunInvNext

\* What is told stays told when what is committed is neither a run nor a report.
LEMMA OtherCommits ==
    ASSUME Run!IInv, NEW h \in Actors, NEW e \in Run!Entries, e.what \in {"message", "close"}, Run!Done(h, e),
           UNCHANGED <<x1, x4>>, ClosedOnce(x2'),
           x3' = x3 + IF e.what = "message" THEN 1 ELSE 0
    PROVE  Run!IInv'
<1> DEFINE k == Append(x7, e)
<1>1. /\ RowAsTold(x1, x7) /\ MessagesAsTold(x3, x7) /\ ArtifactsAsTold(x4, x7)
      /\ x1 \in Run!Rows /\ x3 \in Nat /\ x7 \in Seq(Run!Entries)
    BY RunInvIs DEF RunTypes
<1>2. /\ RunMade(k) = RunMade(x7) /\ Reported(k) = Reported(x7) /\ AnswerIn(k) = AnswerIn(x7)
      /\ EndIn(k) = EndIn(x7) /\ ArtifactIn(k, "table") = ArtifactIn(x7, "table")
      /\ MessageIn(k) = IF e.what = "message" THEN MessageIn(x7) \cup {Len(x7) + 1} ELSE MessageIn(x7)
    BY <1>1, SaidMore
<1>3. /\ AnswerIn(x7) \in SUBSET DOMAIN x7 /\ EndIn(x7) \in SUBSET DOMAIN x7
      /\ ArtifactIn(x7, "table") \in SUBSET DOMAIN x7 /\ MessageIn(x7) \in SUBSET DOMAIN x7
      /\ Reported(x7) \in SUBSET DOMAIN x7
    BY DEF AnswerIn, EndIn, ArtifactIn, MessageIn, Reported
<1>4. \A n \in Reported(x7) : k[n] = x7[n]
    BY <1>1, <1>3, LogGrows
<1>5. /\ \A S \in SUBSET DOMAIN x7 : LatestIn(k, S) = LatestIn(x7, S)
    BY <1>1, LatestKept
<1>6. IsFiniteSet(MessageIn(x7)) /\ Len(x7) + 1 \notin MessageIn(x7)
    <2>1. DOMAIN x7 = 1 .. Len(x7) /\ Len(x7) \in Nat
        BY <1>1
    <2>2. IsFiniteSet(DOMAIN x7)
        BY <2>1, FS_Interval
    <2> QED
        BY <1>3, <2>1, <2>2, FS_Subset
<1> HIDE DEF k
<1>7. RowAsTold(x1', k)
    BY <1>1, <1>2, <1>3, <1>4, <1>5 DEF RowAsTold
<1>8. MessagesAsTold(x3', k) /\ x3' \in Nat
    <2>1. x3 = Cardinality(MessageIn(x7)) /\ x3 \in Nat
        BY <1>1 DEF MessagesAsTold
    <2>2. CASE e.what = "message"
        <3>1. Cardinality(MessageIn(k)) = Cardinality(MessageIn(x7)) + 1
            BY <1>2, <1>6, <2>2, FS_AddElement
        <3> QED
            BY <2>1, <2>2, <3>1 DEF MessagesAsTold
    <2>3. CASE e.what # "message"
        BY <1>2, <2>1, <2>3 DEF MessagesAsTold
    <2> QED
        BY <2>2, <2>3
<1>9. ArtifactsAsTold(x4', k)
    BY <1>1, <1>2, <1>3, <1>5 DEF ArtifactsAsTold
<1> QED
    BY <1>1, <1>7, <1>8, <1>9, Commits DEF k

LEMMA OpenTouch ==
    ASSUME Run!IInv, NEW h \in Actors, NEW what \in {"message", "run"}, Run!Open(h, what) \/ Run!Touch(h)
    PROVE  Run!IInv'
<1>1. DOMAIN x5 = {"run", "session"} /\ x6 \in [Actors -> Run!Tasks]
    BY RunInvIs DEF RunTypes
<1>2. CASE Run!Open(h, what)
    <2> DEFINE t == [step |-> "insert", what |-> what]
    <2>1. x6' = [x6 EXCEPT ![h] = t] /\ UNCHANGED <<x1, x2, x3, x4, x5, x7>>
        BY <1>2 DEF Run!Open, Run!To
    <2>2. t \in Run!Tasks /\ t.step = "insert"
        BY DEF Run!Tasks
    <2> HIDE DEF t
    <2> QED
        BY <1>1, <2>1, <2>2, HandlerMoves
<1>3. CASE Run!Touch(h)
    <2> DEFINE t == [x6[h] EXCEPT !.step = "commit"]
    <2>1. /\ x6' = [x6 EXCEPT ![h] = t] /\ UNCHANGED <<x1, x2, x3, x4, x7>>
          /\ x5' = [x5 EXCEPT !["session"] = h] /\ x6[h].step = "insert"
        BY <1>3 DEF Run!Touch, Run!To, Run!Takes
    <2>2. x6[h] \in [step : {"insert", "commit"}, what : {"message", "run"}]
        BY <1>1, <2>1 DEF Run!Tasks, Run!Idle
    <2>3. t \in Run!Tasks /\ t.step = "commit"
        BY <2>2 DEF Run!Tasks
    <2> HIDE DEF t
    <2>4. DOMAIN x5' = {"run", "session"} /\ x5'.run = x5.run
        BY <1>1, <2>1
    <2> QED
        BY <1>1, <2>1, <2>3, <2>4, HandlerMoves
<1> QED
    BY <1>2, <1>3

\* A report that is received, that gets the row of the run, or that touches the session.
LEMMA ReportMoves ==
    ASSUME Run!IInv, NEW h \in Actors, NEW r \in ReportsOfDify,
           Run!Receive(h, r) \/ Run!UpdateRun(h) \/ Run!TouchSession(h)
    PROVE  Run!IInv'
<1>1. /\ DOMAIN x5 = {"run", "session"} /\ x6 \in [Actors -> Run!Tasks] /\ x1 \in Run!Rows
      /\ RowAsTold(x1, x7) /\ RunReaders(x1, x5, x6)
    BY RunInvIs DEF RunTypes
<1>2. CASE Run!Receive(h, r)
    <2> DEFINE t == [step |-> "update", report |-> r]
    <2>1. x6' = [x6 EXCEPT ![h] = t] /\ UNCHANGED <<x1, x2, x3, x4, x5, x7>>
        BY <1>2 DEF Run!Receive, Run!To
    <2>3. x1 # Run!NoRun
        BY <1>2 DEF Run!Receive
    <2>2. t \in Run!Tasks /\ t.step = "update"
        BY DEF Run!Tasks
    <2> HIDE DEF t
    <2> QED
        BY <1>1, <2>1, <2>2, <2>3, HandlerMoves
<1>3. CASE Run!UpdateRun(h)
    <2> DEFINE t == [step |-> "touch", report |-> x6[h].report, seen |-> x1]
    <2>1. /\ x6' = [x6 EXCEPT ![h] = t] /\ UNCHANGED <<x1, x2, x3, x4, x7>>
          /\ x5.run = Nobody /\ x5' = [x5 EXCEPT !["run"] = h] /\ x6[h].step = "update"
        BY <1>3 DEF Run!UpdateRun, Run!To, Run!Takes
    <2>2. x6[h] \in [step : {"update"}, report : ReportsOfDify]
        BY <1>1, <2>1 DEF Run!Tasks, Run!Idle
    <2>3. t \in Run!Tasks /\ t.step = "touch" /\ t.seen = x1
        BY <1>1, <2>2 DEF Run!Tasks
    <2> HIDE DEF t
    <2>4. DOMAIN x5' = {"run", "session"} /\ x5'.run = h /\ \A g \in Actors : g # Nobody
        BY <1>1, <2>1, InvitationsAssumption DEF Invite!NobodyApart
    <2>5. x1 # Run!NoRun
        BY <1>1, <2>1 DEF RunReaders
    <2> QED
        BY <1>1, <2>1, <2>3, <2>4, <2>5, HandlerMoves
<1>4. CASE Run!TouchSession(h)
    <2> DEFINE t == [x6[h] EXCEPT !.step = "report"]
    <2>1. /\ x6' = [x6 EXCEPT ![h] = t] /\ UNCHANGED <<x1, x2, x3, x4, x7>>
          /\ x5' = [x5 EXCEPT !["session"] = h] /\ x6[h].step = "touch"
        BY <1>4 DEF Run!TouchSession, Run!To, Run!Takes
    <2>2. x6[h] \in [step : {"touch", "report"}, report : ReportsOfDify, seen : Run!Rows]
        BY <1>1, <2>1 DEF Run!Tasks, Run!Idle
    <2>3. t \in Run!Tasks /\ t.step = "report" /\ t.seen = x6[h].seen
        BY <2>2 DEF Run!Tasks
    <2> HIDE DEF t
    <2>4. DOMAIN x5' = {"run", "session"} /\ x5'.run = x5.run
        BY <1>1, <2>1
    <2>5. x5.run = h /\ t.seen = x1 /\ x1 # Run!NoRun
        BY <1>1, <2>1, <2>3 DEF RunReaders
    <2> QED
        BY <1>1, <2>1, <2>3, <2>4, <2>5, HandlerMoves
<1> QED
    BY <1>2, <1>3, <1>4

LEMMA RunAborts == ASSUME Run!IInv, NEW h \in Actors, Run!Abort(h) PROVE Run!IInv'
<1>1. DOMAIN x5 = {"run", "session"}
    BY RunInvIs DEF RunTypes
<1>2. /\ x6' = [x6 EXCEPT ![h] = Run!Idle] /\ UNCHANGED <<x1, x2, x3, x4, x7>>
      /\ x5' = [row \in DOMAIN x5 |-> IF x5[row] = h THEN Nobody ELSE x5[row]]
    BY DEF Run!Abort, Run!To, Run!Released
<1>3. Run!Idle \in Run!Tasks /\ Run!Idle.step = "idle"
    BY DEF Run!Tasks, Run!Idle
<1> QED
    BY <1>1, <1>2, <1>3, HandlerMoves

LEMMA MessageCloses ==
    ASSUME Run!IInv, NEW h \in Actors, Run!CreateMessage(h) \/ Run!Close(h)
    PROVE  Run!IInv'
<1>1. x3 \in Nat /\ ClosedOnce(x2) /\ Len(x7) \in Nat
    BY RunInvIs DEF RunTypes
<1>2. CASE Run!CreateMessage(h)
    <2> DEFINE e == [what |-> "message"]
    <2>1. Run!Done(h, e) /\ UNCHANGED <<x1, x2, x4>> /\ x3' = x3 + 1
        BY <1>2 DEF Run!CreateMessage
    <2>2. e \in Run!Entries /\ e.what = "message"
        BY DEF Run!Entries
    <2> HIDE DEF e
    <2> QED
        BY <1>1, <2>1, <2>2, OtherCommits
<1>3. CASE Run!Close(h)
    <2> DEFINE e == [what |-> "close"]
    <2>1. /\ Run!Done(h, e) /\ UNCHANGED <<x1, x3, x4>>
          /\ x2' = [status |-> "closed", closed |-> IF x2.closed = 0 THEN Len(x7) + 1 ELSE x2.closed]
        BY <1>3 DEF Run!Close, Run!NoValue
    <2>2. e \in Run!Entries /\ e.what = "close"
        BY DEF Run!Entries
    <2>3. ClosedOnce(x2')
        BY <1>1, <2>1 DEF ClosedOnce
    <2> HIDE DEF e
    <2>4. x3' = x3 + IF e.what = "message" THEN 1 ELSE 0
        BY <1>1, <2>1, <2>2
    <2> QED
        BY <1>1, <2>1, <2>2, <2>3, <2>4, OtherCommits
<1> QED
    BY <1>2, <1>3

LEMMA RunMakes == ASSUME Run!IInv, NEW h \in Actors, Run!CreateRun(h) PROVE Run!IInv'
<1> DEFINE e == [what |-> "run"]
           k == Append(x7, e)
<1>1. /\ RowAsTold(x1, x7) /\ MessagesAsTold(x3, x7) /\ ArtifactsAsTold(x4, x7) /\ ClosedOnce(x2)
      /\ DOMAIN x5 = {"run", "session"}
      /\ x1 \in Run!Rows /\ x3 \in Nat /\ x7 \in Seq(Run!Entries)
    BY RunInvIs DEF RunTypes
<1>2. CASE x1 = Run!NoRun
    <2>1. Run!Done(h, e) /\ x1' = Run!NewRun /\ UNCHANGED <<x2, x3, x4>>
        BY <1>2 DEF Run!CreateRun
    <2>2. e \in Run!Entries /\ e.what = "run"
        BY DEF Run!Entries
    <2> HIDE DEF e
    <2>3. /\ RunMade(k) = RunMade(x7) \cup {Len(x7) + 1} /\ Reported(k) = Reported(x7)
          /\ AnswerIn(k) = AnswerIn(x7) /\ EndIn(k) = EndIn(x7)
          /\ ArtifactIn(k, "table") = ArtifactIn(x7, "table") /\ MessageIn(k) = MessageIn(x7)
        BY <1>1, <2>2, SaidMore
    <2>4. /\ AnswerIn(x7) \in SUBSET DOMAIN x7 /\ EndIn(x7) \in SUBSET DOMAIN x7
          /\ ArtifactIn(x7, "table") \in SUBSET DOMAIN x7 /\ Reported(x7) \in SUBSET DOMAIN x7
        BY DEF AnswerIn, EndIn, ArtifactIn, Reported
    <2>5. \A S \in SUBSET DOMAIN x7 : LatestIn(k, S) = LatestIn(x7, S)
        BY <1>1, <2>2, LatestKept
    <2>6. Reported(x7) = {}
        <3> SUFFICES ASSUME Reported(x7) # {} PROVE FALSE
            OBVIOUS
        <3>1. DOMAIN x7 = 1 .. Len(x7) /\ Len(x7) \in Nat
            BY <1>1
        <3>2. PICK n \in Reported(x7) : \A m \in Reported(x7) : m <= n
            BY <2>4, <3>1, MaxOf
        <3>3. x7[n] \in Run!Entries /\ x7[n].what = "report"
            BY <1>1 DEF Reported
        <3>4. x7[n].report \in ReportsOfDify
            BY <3>3 DEF Run!Entries
        <3>5. x1.status \in {"running", "completed", "failed"}
            BY <1>1, <3>2, <3>4, ReportIs DEF RowAsTold
        <3> QED
            BY <1>2, <3>5 DEF Run!NoRun, Run!NewRun
    <2> HIDE DEF k
    <2>7. RowAsTold(x1', k)
        BY <1>1, <1>2, <2>1, <2>3, <2>4, <2>5, <2>6, NoRunIs DEF RowAsTold, Run!NoRun, Run!NewRun
    <2>8. MessagesAsTold(x3', k) /\ ArtifactsAsTold(x4', k)
        BY <1>1, <2>1, <2>3, <2>4, <2>5 DEF MessagesAsTold, ArtifactsAsTold
    <2> QED
        BY <1>1, <1>2, <2>1, <2>2, <2>7, <2>8, NoRunIs, Commits DEF k
<1>3. CASE x1 # Run!NoRun
    <2>1. /\ x6' = [x6 EXCEPT ![h] = Run!Idle] /\ UNCHANGED <<x1, x2, x3, x4, x7>>
          /\ x5' = [row \in DOMAIN x5 |-> IF x5[row] = h THEN Nobody ELSE x5[row]]
        BY <1>3 DEF Run!CreateRun, Run!To, Run!Released
    <2>2. Run!Idle \in Run!Tasks /\ Run!Idle.step = "idle"
        BY DEF Run!Tasks, Run!Idle
    <2> QED
        BY <1>1, <2>1, <2>2, HandlerMoves
<1> QED
    BY <1>2, <1>3

\* The report that is committed is the last: it says the status, and what it brings.
LEMMA ReportApplies == ASSUME Run!IInv, NEW h \in Actors, Run!Apply(h) PROVE Run!IInv'
<1> DEFINE r == x6[h].report
           e == [what |-> "report", report |-> r]
           k == Append(x7, e)
<1>1. /\ RowAsTold(x1, x7) /\ MessagesAsTold(x3, x7) /\ ArtifactsAsTold(x4, x7) /\ ClosedOnce(x2)
      /\ RunReaders(x1, x5, x6) /\ x6 \in [Actors -> Run!Tasks]
      /\ x1 \in Run!Rows /\ x3 \in Nat /\ x7 \in Seq(Run!Entries)
    BY RunInvIs DEF RunTypes
<1>2. /\ x6[h].step = "report" /\ Run!Done(h, e) /\ x2' = x2
      /\ x1' = Run!Merged(x6[h].seen, r) /\ x3' = x3 + (IF r.message THEN 1 ELSE 0)
      /\ x4'["table"] = IF "table" \in r.artifacts THEN r.id ELSE x4["table"]
    BY DEF Run!Apply
<1>3. x6[h] \in [step : {"touch", "report"}, report : ReportsOfDify, seen : Run!Rows]
    BY <1>1, <1>2 DEF Run!Tasks, Run!Idle
<1>4. x5.run = h /\ x6[h].seen = x1 /\ x1 # Run!NoRun
    BY <1>1, <1>2 DEF RunReaders
<1>5. r \in ReportsOfDify
    BY <1>3
<1> HIDE DEF r
<1>6. e \in Run!Entries /\ e.what = "report" /\ e.report = r
    BY <1>5 DEF Run!Entries
<1> HIDE DEF e
<1>7. r.id \in Nat \ {0} /\ r.status \in {"running", "completed", "failed"}
    BY <1>5, ReportIs
<1>8. /\ x1'.status = r.status
      /\ x1'.answer = IF r.answer THEN r.id ELSE x1.answer
      /\ x1'.finished = IF r.status \in Run!Terminal THEN r.id ELSE x1.finished
      /\ x1' \in Run!Rows /\ x1' # Run!NoRun
    BY <1>1, <1>2, <1>4, <1>7 DEF Run!Merged, Run!Rows, Run!NoRun, Run!NewRun, Run!Terminal
<1>9. /\ RunMade(k) = RunMade(x7) /\ Reported(k) = Reported(x7) \cup {Len(x7) + 1}
      /\ AnswerIn(k) = IF r.answer THEN AnswerIn(x7) \cup {Len(x7) + 1} ELSE AnswerIn(x7)
      /\ EndIn(k) = IF r.status \in Run!Terminal THEN EndIn(x7) \cup {Len(x7) + 1} ELSE EndIn(x7)
      /\ ArtifactIn(k, "table") = IF "table" \in r.artifacts THEN ArtifactIn(x7, "table") \cup {Len(x7) + 1}
                                  ELSE ArtifactIn(x7, "table")
      /\ MessageIn(k) = IF r.message THEN MessageIn(x7) \cup {Len(x7) + 1} ELSE MessageIn(x7)
    BY <1>1, <1>6, SaidMore
<1>10. /\ AnswerIn(x7) \in SUBSET DOMAIN x7 /\ EndIn(x7) \in SUBSET DOMAIN x7
       /\ ArtifactIn(x7, "table") \in SUBSET DOMAIN x7 /\ MessageIn(x7) \in SUBSET DOMAIN x7
       /\ Reported(x7) \in SUBSET DOMAIN x7
    BY DEF AnswerIn, EndIn, ArtifactIn, MessageIn, Reported
<1>11. \A S \in SUBSET DOMAIN x7 : LatestIn(k, S) = LatestIn(x7, S) /\ LatestIn(k, S \cup {Len(x7) + 1}) = r.id
    BY <1>1, <1>6, LatestKept, LatestAdded
<1>12. /\ Len(x7) + 1 \in Nat /\ k[Len(x7) + 1] = e /\ \A i \in DOMAIN x7 : i < Len(x7) + 1
       /\ DOMAIN x7 = 1 .. Len(x7) /\ Len(x7) \in Nat
    BY <1>1, <1>6, LogGrows
<1>13. IsFiniteSet(MessageIn(x7)) /\ Len(x7) + 1 \notin MessageIn(x7)
    <2>1. IsFiniteSet(DOMAIN x7)
        BY <1>12, FS_Interval
    <2> QED
        BY <1>10, <1>12, <2>1, FS_Subset
<1> HIDE DEF k
<1>14. RowAsTold(x1', k)
    <2>1. ASSUME NEW n \in Reported(k), \A m \in Reported(k) : m <= n PROVE x1'.status = k[n].report.status
        <3>1. n = Len(x7) + 1
            <4>1. n \in Reported(x7) => n < Len(x7) + 1
                BY <1>10, <1>12
            <4>2. Len(x7) + 1 <= n
                BY <1>9, <2>1
            <4>3. n \in Reported(x7) => n \in Nat
                BY <1>10, <1>12
            <4> QED
                BY <1>9, <1>12, <4>1, <4>2, <4>3
        <3> QED
            BY <1>6, <1>8, <1>12, <3>1
    <2>2. RunMade(k) # {} /\ Reported(k) # {}
        BY <1>1, <1>4, <1>9 DEF RowAsTold
    <2>3. x1'.answer = LatestIn(k, AnswerIn(k))
        BY <1>1, <1>8, <1>9, <1>10, <1>11 DEF RowAsTold
    <2>4. x1'.finished = LatestIn(k, EndIn(k))
        BY <1>1, <1>8, <1>9, <1>10, <1>11 DEF RowAsTold
    <2> QED
        BY <1>8, <2>1, <2>2, <2>3, <2>4 DEF RowAsTold
<1>15. MessagesAsTold(x3', k) /\ x3' \in Nat
    <2>1. x3 = Cardinality(MessageIn(x7)) /\ x3 \in Nat
        BY <1>1 DEF MessagesAsTold
    <2>2. CASE r.message
        <3>1. Cardinality(MessageIn(k)) = Cardinality(MessageIn(x7)) + 1
            BY <1>9, <1>13, <2>2, FS_AddElement
        <3> QED
            BY <1>2, <2>1, <2>2, <3>1 DEF MessagesAsTold
    <2>3. CASE ~r.message
        BY <1>2, <1>9, <2>1, <2>3 DEF MessagesAsTold
    <2> QED
        BY <2>2, <2>3
<1>16. ArtifactsAsTold(x4', k)
    BY <1>1, <1>2, <1>9, <1>10, <1>11 DEF ArtifactsAsTold
<1> QED
    BY <1>1, <1>2, <1>4, <1>6, <1>8, <1>14, <1>15, <1>16, Commits DEF k

LEMMA RunNext == Run!IInv /\ [Run!Next]_(Run!vars) => Run!IInv'
<1> SUFFICES ASSUME Run!IInv, [Run!Next]_(Run!vars) PROVE Run!IInv'
    OBVIOUS
<1>1. CASE UNCHANGED Run!vars
    BY <1>1, RunInvIs, RunInvNext DEF Run!vars
<1>2. ASSUME NEW h \in Actors, Run!Touch(h) \/ \E what \in {"message", "run"} : Run!Open(h, what)
      PROVE  Run!IInv'
    BY <1>2, OpenTouch
<1>3. ASSUME NEW h \in Actors, Run!UpdateRun(h) \/ Run!TouchSession(h) \/ \E r \in ReportsOfDify : Run!Receive(h, r)
      PROVE  Run!IInv'
    <2>1. \E r : r \in ReportsOfDify
        BY DEF ReportsOfDify
    <2> QED
        BY <1>3, <2>1, ReportMoves
<1> QED
    BY <1>1, <1>2, <1>3, RunAborts, MessageCloses, RunMakes, ReportApplies DEF Run!Next

-----------------------------------------------------------------------------
(***************************************************************************)
(* The checkout page: x1 is the orders, x2 the requests, x3 the address,   *)
(* x4 the order of the page, x5 what is shown, x6 the dialogs, x7 whether  *)
(* the page polls, x10 whether an answer strayed.                          *)
(***************************************************************************)
OrderMade(orders, o) == o # Nobody => orders[o].status # "none"
AnswerTrue(orders, a) ==
    /\ OrderMade(orders, a.order)
    /\ a.status = "paid" => orders[a.order].status = "paid"
    /\ a.status = "closed" => orders[a.order].closed
RequestSound(orders, current, r) ==
    /\ OrderMade(orders, r.order) /\ AnswerTrue(orders, r.answer)
    /\ r.kind # "create" =>
          /\ r.order # Nobody /\ current # Nobody
          /\ r.answer \in Page!Replies => r.answer.order = r.order
          /\ r.answer \in Page!Replies /\ r.kind \in {"open", "refresh"} => r.answer.status = "pending"
AllSound(orders, requests, current) ==
    \A q \in Actors : requests[q] # Page!Idle => RequestSound(orders, current, requests[q])
PageTyped(orders, requests, url, current, shown, dialog) ==
    /\ orders \in [Owners -> Page!Rows] /\ requests \in [Actors -> {Page!Idle} \cup Page!Requests]
    /\ url \in Owners \cup {Nobody} /\ current \in Owners \cup {Nobody}
    /\ shown \in {Page!Nothing} \cup Page!Replies /\ dialog \in [code : BOOLEAN, success : BOOLEAN]
PageMade(orders, url, current, shown) ==
    /\ OrderMade(orders, url) /\ OrderMade(orders, current) /\ AnswerTrue(orders, shown)
    /\ current # Nobody => url # Nobody
SuccessTrue(orders, dialog) == dialog.success => \E o \in Owners : orders[o].status = "paid"
ShownIsOfPage(shown, current, strayed) == ~strayed /\ shown # Page!Nothing => shown.order = current
AsksAfter(requests, o) ==
    \E q \in Actors : requests[q] # Page!Idle /\ requests[q].kind \in {"open", "poll"} /\ requests[q].order = o
PageAsks(orders, requests, current, polling, strayed) ==
    ~strayed /\ current # Nobody /\ orders[current].status = "pending" => polling \/ AsksAfter(requests, current)

LEMMA PageInvIs ==
    Page!IInv <=>
        /\ PageTyped(x1, x2, x3, x4, x5, x6) /\ PageMade(x1, x3, x4, x5) /\ SuccessTrue(x1, x6)
        /\ AllSound(x1, x2, x4) /\ ShownIsOfPage(x5, x4, x10) /\ PageAsks(x1, x2, x4, x7, x10)
<1>1. /\ \A o : Page!Made(o) <=> OrderMade(x1, o)
      /\ \A a : Page!True(a) <=> AnswerTrue(x1, a)
    BY DEF Page!Made, OrderMade, Page!True, AnswerTrue
<1>2. \A r : Page!Sound(r) <=> RequestSound(x1, x4, r)
    BY <1>1 DEF Page!Sound, RequestSound
<1>3. Page!Typed <=> PageTyped(x1, x2, x3, x4, x5, x6)
    BY DEF Page!Typed, PageTyped
<1>4. AnswerTrue(x1, x5) => (Page!PageIsTrue <=> SuccessTrue(x1, x6))
    BY DEF AnswerTrue, Page!PageIsTrue, SuccessTrue
<1>5. Page!CurrentIsShown <=> ShownIsOfPage(x5, x4, x10)
    BY DEF Page!CurrentIsShown, ShownIsOfPage
<1>6. Page!CurrentIsAsked <=> PageAsks(x1, x2, x4, x7, x10)
    BY DEF Page!CurrentIsAsked, PageAsks, AsksAfter
<1> QED
    BY <1>1, <1>2, <1>3, <1>4, <1>5, <1>6 DEF Page!IInv, PageMade, AllSound

LEMMA PageInvNext ==
    ASSUME PageTyped(x1', x2', x3', x4', x5', x6'), PageMade(x1', x3', x4', x5'), SuccessTrue(x1', x6'),
           AllSound(x1', x2', x4'), ShownIsOfPage(x5', x4', x10'), PageAsks(x1', x2', x4', x7', x10')
    PROVE  Page!IInv'
<1>1. Page!IInv' <=>
        (/\ PageTyped(x1, x2, x3, x4, x5, x6) /\ PageMade(x1, x3, x4, x5) /\ SuccessTrue(x1, x6)
         /\ AllSound(x1, x2, x4) /\ ShownIsOfPage(x5, x4, x10) /\ PageAsks(x1, x2, x4, x7, x10))'
    BY PageInvIs, PTL
<1> QED
    BY <1>1

LEMMA RepliesAre ==
    /\ \A a \in Page!Replies : /\ a.order \in Owners /\ a.status \in {"pending", "paid", "closed"}
                               /\ a # Page!Nothing /\ a # Page!Refused
    /\ Page!Nothing \notin Page!Replies /\ Page!Refused \notin Page!Replies /\ Page!Refused # Page!Nothing
    /\ Page!Nothing.order = Nobody /\ Page!Nothing.status = "none"
    /\ Page!Refused.order = Nobody /\ Page!Refused.status = "error"
    /\ Nobody \notin Owners
BY InvitationsAssumption DEF Page!Replies, Page!Nothing, Page!Refused, Invite!NobodyApart

LEMMA RequestsAre ==
    ASSUME NEW r \in Page!Requests
    PROVE  /\ r.order \in Owners \cup {Nobody} /\ r # Page!Idle
           /\ r.answer \in {Page!Nothing, Page!Refused} \cup Page!Replies
           /\ \A a \in {Page!Nothing, Page!Refused} \cup Page!Replies :
                 LET s == [r EXCEPT !.answer = a] IN
                 s \in Page!Requests /\ s.kind = r.kind /\ s.order = r.order /\ s.answer = a
BY DEF Page!Requests, Page!Idle

LEMMA RequestMade ==
    ASSUME NEW kind \in {"create", "open", "refresh", "poll", "cancel", "beacon"}, NEW o \in Owners \cup {Nobody}
    PROVE  LET r == Page!Request(kind, o) IN
           r \in Page!Requests /\ r # Page!Idle /\ r.kind = kind /\ r.order = o /\ r.answer = Page!Nothing
BY DEF Page!Requests, Page!Request, Page!Idle

\* An order that was made stays made, one that is paid stays paid, and what was closed was closed.
Onward(orders, later) ==
    \A o \in Owners : /\ orders[o].status # "none" => later[o].status # "none"
                      /\ orders[o].status = "paid" => later[o].status = "paid"
                      /\ orders[o].closed => later[o].closed

LEMMA OnwardKeeps ==
    ASSUME NEW orders, NEW later, Onward(orders, later)
    PROVE  /\ \A o \in Owners \cup {Nobody} : OrderMade(orders, o) => OrderMade(later, o)
           /\ \A a : a.order \in Owners \cup {Nobody} /\ (a.status \in {"paid", "closed"} => a.order \in Owners)
                     /\ AnswerTrue(orders, a) => AnswerTrue(later, a)
           /\ \A d : SuccessTrue(orders, d) => SuccessTrue(later, d)
<1>1. \A o \in Owners \cup {Nobody} : OrderMade(orders, o) => OrderMade(later, o)
    BY DEF Onward, OrderMade
<1> QED
    BY <1>1 DEF Onward, AnswerTrue, SuccessTrue
LEMMA AnswersKept ==
    ASSUME NEW orders, NEW later, Onward(orders, later),
           NEW a \in {Page!Nothing, Page!Refused} \cup Page!Replies, AnswerTrue(orders, a)
    PROVE  AnswerTrue(later, a)
BY OnwardKeeps, RepliesAre

\* The server answers a request, and may have changed the order.
LEMMA ServerAnswers ==
    ASSUME Page!IInv, NEW q \in Actors, NEW o \in Owners, NEW row \in Page!Rows, Page!Answer(q, o, row),
           x2[q] # Page!Idle, row.status # "none", Onward(x1, x1'),
           x2[q].kind # "create" => x2[q].order = o,
           x2[q].kind \in {"open", "refresh"} => row.status = "pending",
           row.status = "pending" => x1[o].status = "pending" \/ o # x4
    PROVE  Page!IInv'
<1> DEFINE a == [order |-> o, status |-> row.status, session |-> row.session]
<1>1. /\ PageTyped(x1, x2, x3, x4, x5, x6) /\ PageMade(x1, x3, x4, x5) /\ SuccessTrue(x1, x6)
      /\ AllSound(x1, x2, x4) /\ ShownIsOfPage(x5, x4, x10) /\ PageAsks(x1, x2, x4, x7, x10)
    BY PageInvIs
<1>2. /\ x1' = [x1 EXCEPT ![o] = row] /\ x2' = [x2 EXCEPT ![q].answer = a]
      /\ UNCHANGED <<x3, x4, x5, x6, x7, x10>>
    BY DEF Page!Answer, Page!page
<1>3. a \in Page!Replies /\ a.order = o /\ a.status = row.status
    BY DEF Page!Replies, Page!Rows
<1> HIDE DEF a
<1>4. x2[q] \in Page!Requests /\ x2 \in [Actors -> {Page!Idle} \cup Page!Requests] /\ x1 \in [Owners -> Page!Rows]
    BY <1>1 DEF PageTyped
<1>5. /\ x2' = [x2 EXCEPT ![q] = [x2[q] EXCEPT !.answer = a]]
      /\ [x2[q] EXCEPT !.answer = a] \in Page!Requests
    BY <1>2, <1>3, <1>4, RequestsAre
<1>6. /\ x2'[q] \in Page!Requests /\ x2'[q] # Page!Idle
      /\ x2'[q].kind = x2[q].kind /\ x2'[q].order = x2[q].order /\ x2'[q].answer = a
      /\ \A p \in Actors \ {q} : x2'[p] = x2[p]
      /\ x2' \in [Actors -> {Page!Idle} \cup Page!Requests]
    BY <1>3, <1>4, <1>5, RequestsAre
<1>7. PageTyped(x1', x2', x3', x4', x5', x6')
    BY <1>1, <1>2, <1>6 DEF PageTyped
<1>8. PageMade(x1', x3', x4', x5')
    BY <1>1, <1>2, OnwardKeeps, AnswersKept DEF PageMade, PageTyped
<1>9. AllSound(x1', x2', x4')
    <2> SUFFICES ASSUME NEW p \in Actors, x2'[p] # Page!Idle PROVE RequestSound(x1', x4', x2'[p])
        BY DEF AllSound
    <2>1. CASE p # q
        <3>1. x2[p] = x2'[p] /\ x2[p] # Page!Idle /\ x2[p] \in Page!Requests /\ RequestSound(x1, x4, x2[p])
            BY <1>1, <1>4, <1>6, <2>1 DEF AllSound
        <3> QED
            BY <1>2, <3>1, OnwardKeeps, AnswersKept, RequestsAre DEF RequestSound
    <2>2. CASE p = q
        <3>1. RequestSound(x1, x4, x2[q])
            BY <1>1 DEF AllSound
        <3>2. AnswerTrue(x1', a)
            <4>1. x1'[o] = row /\ a.order = o /\ a.status = row.status
                BY <1>2, <1>3, <1>4
            <4>2. row.status = "closed" => row.closed
                BY DEF Page!Rows
            <4> QED
                BY <4>1, <4>2 DEF AnswerTrue, OrderMade
        <3>3. OrderMade(x1', x2[q].order)
            BY <1>4, <3>1, OnwardKeeps, RequestsAre DEF RequestSound
        <3> QED
            BY <1>2, <1>3, <1>6, <2>2, <3>1, <3>2, <3>3 DEF RequestSound
    <2> QED
        BY <2>1, <2>2
<1>10. PageAsks(x1', x2', x4', x7', x10')
    <2> SUFFICES ASSUME ~x10, x4 # Nobody, x1'[x4].status = "pending" PROVE x7 \/ AsksAfter(x2', x4)
        BY <1>2 DEF PageAsks
    <2>1. x4 \in Owners /\ x1[x4].status = "pending"
        BY <1>1, <1>2, <1>4 DEF PageTyped
    <2>2. x7 \/ AsksAfter(x2, x4)
        BY <1>1, <2>1 DEF PageAsks
    <2>3. AsksAfter(x2, x4) => AsksAfter(x2', x4)
        BY <1>6 DEF AsksAfter
    <2> QED
        BY <2>2, <2>3
<1> QED
    BY <1>1, <1>2, <1>7, <1>8, <1>9, <1>10, OnwardKeeps, PageInvNext

\* A request is made, refused or forgotten, or a dialog is closed or opened: the rest is as it was.
LEMMA QuietMoves ==
    ASSUME Page!IInv, UNCHANGED <<x1, x3, x4, x5, x7, x10>>,
           x6' \in [code : BOOLEAN, success : BOOLEAN], x6'.success => x6.success,
           NEW q \in Actors, NEW r \in {Page!Idle} \cup Page!Requests, x2' = [x2 EXCEPT ![q] = r],
           r # Page!Idle => RequestSound(x1, x4, r),
           x2[q] # Page!Idle /\ x2[q].kind \in {"open", "poll"} /\ ~x10 =>
               r # Page!Idle /\ r.kind = x2[q].kind /\ r.order = x2[q].order
    PROVE  Page!IInv'
<1>1. /\ PageTyped(x1, x2, x3, x4, x5, x6) /\ PageMade(x1, x3, x4, x5) /\ SuccessTrue(x1, x6)
      /\ AllSound(x1, x2, x4) /\ ShownIsOfPage(x5, x4, x10) /\ PageAsks(x1, x2, x4, x7, x10)
    BY PageInvIs
<1>2. /\ x2' \in [Actors -> {Page!Idle} \cup Page!Requests] /\ x2'[q] = r
      /\ \A p \in Actors \ {q} : x2'[p] = x2[p]
    BY <1>1 DEF PageTyped
<1>3. PageTyped(x1', x2', x3', x4', x5', x6') /\ SuccessTrue(x1', x6')
    BY <1>1, <1>2 DEF PageTyped, SuccessTrue
<1>4. AllSound(x1', x2', x4')
    BY <1>1, <1>2 DEF AllSound
<1>5. PageAsks(x1', x2', x4', x7', x10')
    <2>1. ~x10 /\ AsksAfter(x2, x4) => AsksAfter(x2', x4)
        BY <1>2 DEF AsksAfter
    <2> QED
        BY <1>1, <2>1 DEF PageAsks
<1> QED
    BY <1>1, <1>3, <1>4, <1>5, PageInvNext

LEMMA OrderEnds ==
    ASSUME Page!IInv, NEW o \in Owners, Page!Pays(o) \/ Page!Lapses(o)
    PROVE  Page!IInv'
<1> DEFINE row == IF Page!Pays(o) THEN [x1[o] EXCEPT !.status = "paid"]
                                  ELSE [x1[o] EXCEPT !.status = "closed", !.closed = TRUE]
<1>1. /\ PageTyped(x1, x2, x3, x4, x5, x6) /\ PageMade(x1, x3, x4, x5) /\ SuccessTrue(x1, x6)
      /\ AllSound(x1, x2, x4) /\ ShownIsOfPage(x5, x4, x10) /\ PageAsks(x1, x2, x4, x7, x10)
    BY PageInvIs
<1>2. /\ x1[o].status \in {"pending", "closed"} /\ UNCHANGED <<x2, x3, x4, x5, x6, x7, x10>>
      /\ x1' = [x1 EXCEPT ![o] = row] /\ x1 \in [Owners -> Page!Rows] /\ x1[o] \in Page!Rows
    BY <1>1 DEF Page!Pays, Page!Lapses, Page!page, PageTyped
<1>3. /\ row \in Page!Rows /\ row.status \in {"paid", "closed"}
      /\ x1[o].status = "closed" => row.status = "paid"
      /\ x1[o].closed => row.closed
    BY <1>2 DEF Page!Rows, Page!Pays, Page!Lapses
<1> HIDE DEF row
<1>4. Onward(x1, x1')
    BY <1>2, <1>3 DEF Onward
<1>5. PageTyped(x1', x2', x3', x4', x5', x6') /\ PageMade(x1', x3', x4', x5') /\ SuccessTrue(x1', x6')
    BY <1>1, <1>2, <1>3, <1>4, OnwardKeeps, AnswersKept DEF PageTyped, PageMade
<1>6. AllSound(x1', x2', x4')
    <2> SUFFICES ASSUME NEW p \in Actors, x2[p] # Page!Idle PROVE RequestSound(x1', x4, x2[p])
        BY <1>2 DEF AllSound
    <2>1. x2[p] \in Page!Requests /\ RequestSound(x1, x4, x2[p])
        BY <1>1 DEF AllSound, PageTyped
    <2> QED
        BY <1>4, <2>1, OnwardKeeps, AnswersKept, RequestsAre DEF RequestSound
<1>7. PageAsks(x1', x2', x4', x7', x10')
    BY <1>1, <1>2, <1>3 DEF PageAsks, PageTyped
<1> QED
    BY <1>1, <1>2, <1>5, <1>6, <1>7, PageInvNext

LEMMA RefuseInv == ASSUME Page!IInv, NEW q \in Actors, x2[q] # Page!Idle, Page!Refuse(q) PROVE Page!IInv'
<1>1. /\ x2[q] \in Page!Requests /\ x6 \in [code : BOOLEAN, success : BOOLEAN] /\ RequestSound(x1, x4, x2[q])
      /\ x2 \in [Actors -> {Page!Idle} \cup Page!Requests]
    BY PageInvIs DEF PageTyped, AllSound
<1> DEFINE r == [x2[q] EXCEPT !.answer = Page!Refused]
<1>2. x2' = [x2 EXCEPT ![q] = r] /\ UNCHANGED <<x1, x3, x4, x5, x6, x7, x10>>
    BY <1>1 DEF Page!Refuse, Page!page
<1>3. /\ r \in Page!Requests /\ r # Page!Idle /\ r.kind = x2[q].kind /\ r.order = x2[q].order
      /\ r.answer = Page!Refused
    BY <1>1, RequestsAre
<1> HIDE DEF r
<1>4. RequestSound(x1, x4, r)
    BY <1>1, <1>3, RepliesAre DEF RequestSound, AnswerTrue, OrderMade
<1> QED
    BY <1>1, <1>2, <1>3, <1>4, QuietMoves

LEMMA ServeInv ==
    ASSUME Page!IInv, NEW q \in Actors, NEW o \in Owners, NEW closes \in BOOLEAN,
           \/ Page!ServeCreate(q, o) \/ Page!ServeSession(q) \/ Page!ServePoll(q)
           \/ Page!ServeCancel(q, closes) \/ Page!Lose(q)
    PROVE  Page!IInv'
<1>1. /\ x2[q] # Page!Idle /\ x2[q] \in Page!Requests /\ RequestSound(x1, x4, x2[q])
      /\ x1 \in [Owners -> Page!Rows] /\ OrderMade(x1, x4)
    BY PageInvIs DEF PageTyped, AllSound, PageMade, Page!ServeCreate, Page!ServeSession, Page!ServePoll,
                     Page!ServeCancel, Page!Lose, Page!UnderWay
<1>2. x2[q].kind # "create" => x2[q].order \in Owners /\ x1[x2[q].order].status # "none"
    BY <1>1, RequestsAre DEF RequestSound, OrderMade
<1>3. CASE Page!ServeCreate(q, o)
    <2> DEFINE row == [Page!Unused EXCEPT !.status = "pending"]
    <2>1. Page!Answer(q, o, row) /\ x2[q].kind = "create" /\ x1[o].status = "none" /\ ~x1[o].closed
        BY <1>3 DEF Page!ServeCreate, Page!Unused
    <2>2. row \in Page!Rows /\ row.status = "pending"
        BY DEF Page!Rows, Page!Unused
    <2> HIDE DEF row
    <2>3. Onward(x1, x1') /\ o # x4
        BY <1>1, <2>1, RepliesAre DEF Onward, Page!Answer, OrderMade
    <2> QED
        BY <1>1, <2>1, <2>2, <2>3, ServerAnswers
<1>4. CASE Page!ServeSession(q)
    <2> DEFINE p == x2[q].order
               row == [x1[p] EXCEPT !.session = TRUE]
    <2>1. x2[q].kind \in {"open", "refresh"} /\ p \in Owners
        BY <1>2, <1>4 DEF Page!ServeSession
    <2>2. CASE x1[p].status # "pending"
        BY <1>1, <1>4, <2>2, RefuseInv DEF Page!ServeSession
    <2>3. CASE x1[p].status = "pending"
        <3>1. Page!Answer(q, p, row)
            BY <1>4, <2>3 DEF Page!ServeSession
        <3>2. row \in Page!Rows /\ row.status = "pending" /\ row.closed = x1[p].closed
            BY <1>1, <2>1, <2>3 DEF Page!Rows
        <3> HIDE DEF row, p
        <3>3. Onward(x1, x1')
            BY <1>1, <2>1, <2>3, <3>1, <3>2 DEF Onward, Page!Answer
        <3> QED
            BY <1>1, <2>1, <2>3, <3>1, <3>2, <3>3, ServerAnswers DEF p
    <2> QED
        BY <2>2, <2>3
<1>5. CASE Page!ServePoll(q)
    <2> DEFINE p == x2[q].order
    <2>1. x2[q].kind = "poll" /\ p \in Owners /\ Page!Answer(q, p, x1[p]) /\ x1[p] \in Page!Rows
        BY <1>1, <1>2, <1>5 DEF Page!ServePoll
    <2>2. Onward(x1, x1')
        BY <1>1, <2>1 DEF Onward, Page!Answer
    <2> QED
        BY <1>1, <1>2, <2>1, <2>2, ServerAnswers
<1>6. CASE Page!ServeCancel(q, closes)
    <2> DEFINE p == x2[q].order
               row == IF closes /\ x1[p].status = "pending"
                        THEN [x1[p] EXCEPT !.status = "closed", !.closed = TRUE] ELSE x1[p]
    <2>1. x2[q].kind \in {"cancel", "beacon"} /\ p \in Owners /\ Page!Answer(q, p, row)
        BY <1>2, <1>6 DEF Page!ServeCancel
    <2>2. /\ row \in Page!Rows /\ row.status # "none"
          /\ row.status = x1[p].status \/ (x1[p].status = "pending" /\ row.status = "closed")
          /\ x1[p].closed => row.closed
        BY <1>1, <1>2, <2>1 DEF Page!Rows
    <2> HIDE DEF row, p
    <2>3. Onward(x1, x1')
        BY <1>1, <2>1, <2>2 DEF Onward, Page!Answer
    <2> QED
        BY <1>1, <2>1, <2>2, <2>3, ServerAnswers DEF p
<1>7. CASE Page!Lose(q)
    BY <1>1, <1>7, RefuseInv DEF Page!Lose
<1> QED
    BY <1>3, <1>4, <1>5, <1>6, <1>7

\* What the user does sends a request, or opens and closes a dialog.
LEMMA UserActs ==
    ASSUME Page!IInv, NEW q \in Actors,
           Page!Create(q) \/ Page!Poll(q) \/ Page!Close(q) \/ Page!Refresh(q)
    PROVE  Page!IInv'
<1>1. /\ x6 \in [code : BOOLEAN, success : BOOLEAN] /\ x4 \in Owners \cup {Nobody} /\ OrderMade(x1, x4)
      /\ x2 \in [Actors -> {Page!Idle} \cup Page!Requests] /\ AllSound(x1, x2, x4)
      /\ UNCHANGED <<x1, x3, x4, x5, x7, x10>>
    BY PageInvIs DEF PageTyped, PageMade, Page!Create, Page!Poll, Page!Close, Page!Refresh, Page!page
<1>2. ASSUME NEW kind \in {"create", "open", "refresh", "poll", "cancel", "beacon"},
             NEW o \in {x4, Nobody}, Page!Send(q, kind, o), kind # "create" => o # Nobody, x6' = x6
      PROVE  Page!IInv'
    <2> DEFINE r == Page!Request(kind, o)
    <2>1. x2[q] = Page!Idle /\ x2' = [x2 EXCEPT ![q] = r]
        BY <1>2 DEF Page!Send
    <2>2. r \in Page!Requests /\ r.kind = kind /\ r.order = o /\ r.answer = Page!Nothing
        BY <1>1, <1>2, RequestMade
    <2> HIDE DEF r
    <2>3. RequestSound(x1, x4, r)
        BY <1>1, <1>2, <2>2, RepliesAre DEF RequestSound, AnswerTrue, OrderMade
    <2> QED
        BY <1>1, <1>2, <2>1, <2>2, <2>3, QuietMoves
<1>3. ASSUME x2' = x2, x6' \in [code : BOOLEAN, success : BOOLEAN], x6'.success => x6.success
      PROVE  Page!IInv'
    <2>1. x2' = [x2 EXCEPT ![q] = x2[q]] /\ x2[q] \in {Page!Idle} \cup Page!Requests
        BY <1>1, <1>3
    <2>2. x2[q] # Page!Idle => RequestSound(x1, x4, x2[q])
        BY <1>1 DEF AllSound
    <2> QED
        BY <1>1, <1>3, <2>1, <2>2, QuietMoves
<1>4. CASE Page!Create(q)
    BY <1>2, <1>4 DEF Page!Create
<1>5. CASE Page!Poll(q) \/ Page!Refresh(q)
    BY <1>2, <1>5 DEF Page!Poll, Page!Refresh, Page!page
<1>6. CASE Page!Close(q)
    <2>1. CASE Page!MayCancel
        BY <1>2, <1>6, <2>1 DEF Page!Close, Page!MayCancel
    <2>2. CASE ~Page!MayCancel
        BY <1>1, <1>3, <1>6, <2>2 DEF Page!Close
    <2> QED
        BY <2>1, <2>2
<1> QED
    BY <1>4, <1>5, <1>6

LEMMA DialogMoves == ASSUME Page!IInv, Page!Open \/ Page!HideSuccess PROVE Page!IInv'
<1>1. /\ PageTyped(x1, x2, x3, x4, x5, x6) /\ PageMade(x1, x3, x4, x5) /\ SuccessTrue(x1, x6)
      /\ AllSound(x1, x2, x4) /\ ShownIsOfPage(x5, x4, x10) /\ PageAsks(x1, x2, x4, x7, x10)
      /\ x6 \in [code : BOOLEAN, success : BOOLEAN]
    BY PageInvIs DEF PageTyped
<1>2. UNCHANGED <<x1, x2, x3, x4, x5, x7, x10>>
    BY DEF Page!Open, Page!HideSuccess
<1>3. x6' \in [code : BOOLEAN, success : BOOLEAN] /\ (x6'.success => x6.success)
    BY <1>1 DEF Page!Open, Page!HideSuccess
<1>4. PageTyped(x1', x2', x3', x4', x5', x6') /\ SuccessTrue(x1', x6')
    BY <1>1, <1>2, <1>3 DEF PageTyped, SuccessTrue
<1> QED
    BY <1>1, <1>2, <1>4, PageInvNext

\* The page is loaded anew and asks for the order of its address.
LEMMA ReloadInv == ASSUME Page!IInv, NEW q \in Actors, NEW p \in Actors, Page!Reload(q, p) PROVE Page!IInv'
<1> DEFINE left(r) == x2[r] # Page!Idle /\ x2[r].answer = Page!Nothing /\ x2[r].kind = "cancel"
           gone(r) == [x2[r] EXCEPT !.kind = "beacon"]
<1>1. /\ PageTyped(x1, x2, x3, x4, x5, x6) /\ PageMade(x1, x3, x4, x5) /\ AllSound(x1, x2, x4)
      /\ x2 \in [Actors -> {Page!Idle} \cup Page!Requests]
      /\ x3 \in Owners \cup {Nobody} /\ x4 \in Owners \cup {Nobody}
      /\ OrderMade(x1, x3) /\ OrderMade(x1, x4) /\ (x4 # Nobody => x3 # Nobody)
    BY PageInvIs DEF PageTyped, PageMade
<1>2. /\ p # q /\ UNCHANGED <<x1, x3>> /\ x4' = x3 /\ x5' = Page!Nothing /\ x10' = FALSE
      /\ x6' = [code |-> FALSE, success |-> FALSE]
      /\ x2' \in [Actors -> {x2'[r] : r \in Actors}]
      /\ x2'[q] = IF Page!MayCancel THEN Page!Request("beacon", x4) ELSE Page!Idle
      /\ x2'[p] = IF x3 # Nobody THEN Page!Request("poll", x3) ELSE Page!Idle
      /\ \A r \in Actors \ {p, q} : x2'[r] = IF left(r) THEN gone(r) ELSE Page!Idle
    BY DEF Page!Reload, Page!NoDialog, Page!UnderWay
<1>3. ASSUME NEW r \in Actors
      PROVE  x2'[r] \in {Page!Idle} \cup Page!Requests /\ (x2'[r] # Page!Idle => RequestSound(x1, x3, x2'[r]))
    <2>1. ASSUME NEW kind \in {"beacon", "poll"}, NEW o \in Owners, OrderMade(x1, o), x3 # Nobody,
                 x2'[r] = Page!Request(kind, o)
          PROVE  x2'[r] \in Page!Requests /\ RequestSound(x1, x3, x2'[r])
        <3>1. /\ x2'[r] \in Page!Requests /\ x2'[r].kind = kind /\ x2'[r].order = o
              /\ x2'[r].answer = Page!Nothing
            BY <2>1, RequestMade
        <3> QED
            BY <2>1, <3>1, RepliesAre DEF RequestSound, AnswerTrue, OrderMade
    <2>2. CASE r = q
        BY <1>1, <1>2, <2>1, <2>2 DEF Page!MayCancel
    <2>3. CASE r = p
        BY <1>1, <1>2, <2>1, <2>3
    <2>4. CASE r \notin {p, q} /\ left(r)
        <3>1. x2[r] \in Page!Requests /\ RequestSound(x1, x4, x2[r]) /\ x2'[r] = gone(r)
            BY <1>1, <1>2, <2>4 DEF AllSound
        <3>2. /\ gone(r) \in Page!Requests /\ gone(r).kind = "beacon" /\ gone(r).order = x2[r].order
              /\ gone(r).answer = x2[r].answer
            BY <3>1 DEF Page!Requests
        <3> HIDE DEF gone
        <3> QED
            BY <1>1, <2>4, <3>1, <3>2 DEF RequestSound
    <2>5. CASE r \notin {p, q} /\ ~left(r)
        BY <1>2, <2>5
    <2> QED
        BY <2>2, <2>3, <2>4, <2>5
<1> HIDE DEF left, gone
<1>4. AllSound(x1', x2', x4')
    BY <1>2, <1>3 DEF AllSound
<1>5. PageTyped(x1', x2', x3', x4', x5', x6')
    BY <1>1, <1>2, <1>3 DEF PageTyped
<1>6. PageMade(x1', x3', x4', x5') /\ SuccessTrue(x1', x6') /\ ShownIsOfPage(x5', x4', x10')
    BY <1>1, <1>2, RepliesAre DEF PageMade, AnswerTrue, OrderMade, SuccessTrue, ShownIsOfPage
<1>7. PageAsks(x1', x2', x4', x7', x10')
    <2>1. ASSUME x3 # Nobody PROVE AsksAfter(x2', x3)
        <3>1. x2'[p] # Page!Idle /\ x2'[p].kind = "poll" /\ x2'[p].order = x3
            BY <1>1, <1>2, <2>1, RequestMade
        <3> QED
            BY <3>1 DEF AsksAfter
    <2> QED
        BY <1>2, <2>1 DEF PageAsks
<1> QED
    BY <1>4, <1>5, <1>6, <1>7, PageInvNext

\* An answer comes that is not an error, and is shown.
LEMMA AnswerIs ==
    ASSUME Page!IInv, NEW q \in Actors, Page!Answered(q), x2[q].answer # Page!Refused
    PROVE  LET a == x2[q].answer IN
           /\ x2[q] \in Page!Requests /\ x2[q] # Page!Idle /\ RequestSound(x1, x4, x2[q])
           /\ a \in Page!Replies /\ AnswerTrue(x1, a) /\ a.order \in Owners /\ x1[a.order].status # "none"
           /\ x1[a.order].status = "pending" => a.status = "pending"
           /\ a.status = "paid" => x1[a.order].status = "paid"
<1>1. x2[q] # Page!Idle /\ x2[q] \in Page!Requests /\ x2[q].answer # Page!Nothing /\ RequestSound(x1, x4, x2[q])
    BY PageInvIs DEF PageTyped, AllSound, Page!Answered
<1>2. x2[q].answer \in Page!Replies
    BY <1>1, RequestsAre
<1>3. /\ x2[q].answer.order \in Owners /\ x2[q].answer.status \in {"pending", "paid", "closed"}
      /\ AnswerTrue(x1, x2[q].answer)
    BY <1>1, <1>2, RepliesAre DEF RequestSound
<1>4. x1[x2[q].answer.order].closed => x1[x2[q].answer.order].status # "pending"
    BY <1>3, PageInvIs DEF PageTyped, Page!Rows
<1> QED
    BY <1>1, <1>2, <1>3, <1>4, RepliesAre DEF AnswerTrue, OrderMade

LEMMA AnswerComes ==
    ASSUME Page!IInv, NEW q \in Actors, Page!Answered(q), x2[q].answer # Page!Refused,
           x1' = x1, x5' = x2[q].answer,
           x6' \in [code : BOOLEAN, success : BOOLEAN], x6'.success => x6.success \/ x5'.status = "paid",
           x3' \in {x3, x5'.order}, x4' \in {x4, x5'.order},
           x4' # x4 => x3' = x5'.order \/ x4 # Nobody,
           NEW r \in {Page!Idle} \cup Page!Requests, x2' = [x2 EXCEPT ![q] = r],
           r # Page!Idle => RequestSound(x1, x4', r),
           ~x10' => x5'.order = x4',
           PageAsks(x1', x2', x4', x7', x10')
    PROVE  Page!IInv'
<1>1. /\ PageTyped(x1, x2, x3, x4, x5, x6) /\ PageMade(x1, x3, x4, x5) /\ SuccessTrue(x1, x6)
      /\ AllSound(x1, x2, x4)
      /\ x3 \in Owners \cup {Nobody} /\ x4 \in Owners \cup {Nobody}
      /\ OrderMade(x1, x3) /\ OrderMade(x1, x4) /\ (x4 # Nobody => x3 # Nobody)
    BY PageInvIs DEF PageTyped, PageMade
<1>2. /\ x5' \in Page!Replies /\ AnswerTrue(x1, x5') /\ x5'.order \in Owners /\ x5'.order # Nobody
      /\ x1[x5'.order].status # "none" /\ (x5'.status = "paid" => x1[x5'.order].status = "paid")
    BY AnswerIs, RepliesAre
<1>3. PageTyped(x1', x2', x3', x4', x5', x6')
    BY <1>1, <1>2 DEF PageTyped
<1>4. /\ OrderMade(x1, x3') /\ OrderMade(x1, x4') /\ (x4' # Nobody => x3' # Nobody)
      /\ x4 # Nobody => x4' # Nobody
    BY <1>1, <1>2 DEF OrderMade
<1>5. PageMade(x1', x3', x4', x5') /\ SuccessTrue(x1', x6')
    BY <1>1, <1>2, <1>4 DEF PageMade, SuccessTrue
<1>6. AllSound(x1', x2', x4')
    <2> SUFFICES ASSUME NEW p \in Actors, x2'[p] # Page!Idle PROVE RequestSound(x1', x4', x2'[p])
        BY DEF AllSound
    <2>1. CASE p = q
        BY <1>1, <2>1 DEF PageTyped
    <2>2. CASE p # q
        <3>1. x2'[p] = x2[p] /\ RequestSound(x1, x4, x2[p])
            BY <1>1, <2>2 DEF PageTyped, AllSound
        <3> QED
            BY <1>4, <3>1 DEF RequestSound
    <2> QED
        BY <2>1, <2>2
<1>7. ShownIsOfPage(x5', x4', x10')
    BY DEF ShownIsOfPage
<1> QED
    BY <1>3, <1>5, <1>6, <1>7, PageInvNext

LEMMA RenderIs ==
    ASSUME Page!IInv, NEW a, NEW open \in BOOLEAN, Page!Render(a, open)
    PROVE  x5' = a /\ x6' \in [code : BOOLEAN, success : BOOLEAN] /\ (x6'.success => x6.success \/ a.status = "paid")
<1>1. x6 \in [code : BOOLEAN, success : BOOLEAN]
    BY PageInvIs DEF PageTyped
<1> QED
    BY <1>1 DEF Page!Render

LEMMA CreatedInv == ASSUME Page!IInv, NEW q \in Actors, Page!Created(q) PROVE Page!IInv'
<1> DEFINE a == x2[q].answer
           r == IF a.status = "pending" THEN Page!Request("open", a.order) ELSE Page!Idle
<1>1. /\ Page!Answered(q) /\ a # Page!Refused /\ x4' = a.order /\ x3' = a.order /\ Page!Render(a, FALSE)
      /\ x2' = [x2 EXCEPT ![q] = r] /\ UNCHANGED <<x1, x7, x10>>
    BY DEF Page!Created
<1>2. a.order \in Owners /\ OrderMade(x1, a.order) /\ a.order # Nobody
    BY <1>1, AnswerIs, RepliesAre DEF AnswerTrue
<1>3. a.status = "pending" => /\ r \in Page!Requests /\ r.kind = "open" /\ r.order = a.order
                              /\ r.answer = Page!Nothing /\ r # Page!Idle
    BY <1>2, RequestMade
<1>4. r \in {Page!Idle} \cup Page!Requests /\ (r # Page!Idle => RequestSound(x1, x4', r))
    BY <1>1, <1>2, <1>3, RepliesAre DEF RequestSound, AnswerTrue, OrderMade
<1>5. PageAsks(x1', x2', x4', x7', x10')
    <2>1. ASSUME x1[a.order].status = "pending" PROVE AsksAfter(x2', a.order)
        <3>1. a.status = "pending" /\ x2'[q] = r
            BY <1>1, <2>1, AnswerIs, PageInvIs DEF PageTyped
        <3> HIDE DEF r
        <3> QED
            BY <1>3, <3>1 DEF AsksAfter
    <2> QED
        BY <1>1, <2>1 DEF PageAsks
<1>6. x5' = a /\ x6' \in [code : BOOLEAN, success : BOOLEAN] /\ (x6'.success => x6.success \/ a.status = "paid")
    BY <1>1, RenderIs
<1> HIDE DEF r
<1> QED
    BY <1>1, <1>4, <1>5, <1>6, AnswerComes

\* The answer to a request that is over, and of which nothing is left.
LEMMA SessionMadeInv == ASSUME Page!IInv, NEW q \in Actors, Page!SessionMade(q) PROVE Page!IInv'
<1> DEFINE a == x2[q].answer
<1>1. /\ Page!Answered(q) /\ a # Page!Refused /\ x2[q].kind \in {"open", "refresh"} /\ Page!Render(a, TRUE)
      /\ x7' = (x7 \/ (a.status = "pending" /\ x4 # Nobody)) /\ x10' = (x10 \/ a.order # x4)
      /\ x2' = [x2 EXCEPT ![q] = Page!Idle] /\ UNCHANGED <<x1, x3, x4>>
    BY DEF Page!SessionMade, Page!Stray, Page!Over, Page!Watches
<1>2. a.status = "pending" /\ x4 # Nobody
    BY <1>1, AnswerIs DEF RequestSound
<1>3. PageAsks(x1', x2', x4', x7', x10')
    BY <1>1, <1>2 DEF PageAsks
<1>4. x5' = a /\ x6' \in [code : BOOLEAN, success : BOOLEAN] /\ (x6'.success => x6.success \/ a.status = "paid")
    BY <1>1, RenderIs
<1> QED
    BY <1>1, <1>3, <1>4, AnswerComes

LEMMA LoadedInv == ASSUME Page!IInv, NEW q \in Actors, Page!Loaded(q) PROVE Page!IInv'
<1> DEFINE a == x2[q].answer
<1>1. /\ Page!Answered(q) /\ a # Page!Refused /\ x2[q].kind = "poll" /\ Page!Render(a, FALSE)
      /\ x7' = (a.status = "pending") /\ x4' = a.order
      /\ x2' = [x2 EXCEPT ![q] = Page!Idle] /\ UNCHANGED <<x1, x3, x10>>
    BY DEF Page!Loaded, Page!Over, Page!Watches
<1>2. x4 # Nobody /\ (x1[a.order].status = "pending" => a.status = "pending")
    BY <1>1, AnswerIs DEF RequestSound
<1>3. PageAsks(x1', x2', x4', x7', x10')
    BY <1>1, <1>2 DEF PageAsks
<1>4. x5' = a /\ x6' \in [code : BOOLEAN, success : BOOLEAN] /\ (x6'.success => x6.success \/ a.status = "paid")
    BY <1>1, RenderIs
<1> QED
    BY <1>1, <1>2, <1>3, <1>4, AnswerComes

LEMMA CancelledInv == ASSUME Page!IInv, NEW q \in Actors, Page!Cancelled(q) PROVE Page!IInv'
<1> DEFINE a == x2[q].answer
<1>1. /\ Page!Answered(q) /\ a # Page!Refused /\ x2[q].kind = "cancel" /\ x5' = a
      /\ x6' = [code |-> FALSE, success |-> x6.success \/ a.status = "paid"] /\ x10' = (x10 \/ a.order # x4)
      /\ x2' = [x2 EXCEPT ![q] = Page!Idle] /\ UNCHANGED <<x1, x3, x4, x7>>
    BY DEF Page!Cancelled, Page!Stray, Page!Over
<1>2. PageAsks(x1', x2', x4', x7', x10')
    <2>1. PageAsks(x1, x2, x4, x7, x10) /\ x2 \in [Actors -> {Page!Idle} \cup Page!Requests]
        BY PageInvIs DEF PageTyped
    <2>2. AsksAfter(x2, x4) => AsksAfter(x2', x4)
        BY <1>1, <2>1 DEF AsksAfter
    <2> QED
        BY <1>1, <2>1, <2>2 DEF PageAsks
<1>3. x6' \in [code : BOOLEAN, success : BOOLEAN] /\ (x6'.success => x6.success \/ a.status = "paid")
    BY <1>1
<1> QED
    BY <1>1, <1>2, <1>3, AnswerComes

\* An error is shown and strays; what a page that is gone had asked is not heard.
LEMMA EndsInv == ASSUME Page!IInv, NEW q \in Actors, Page!Failed(q) \/ Page!Unheard(q) PROVE Page!IInv'
<1>1. /\ PageTyped(x1, x2, x3, x4, x5, x6) /\ PageMade(x1, x3, x4, x5) /\ SuccessTrue(x1, x6)
      /\ AllSound(x1, x2, x4) /\ x6 \in [code : BOOLEAN, success : BOOLEAN]
    BY PageInvIs DEF PageTyped
<1>2. x2' = [x2 EXCEPT ![q] = Page!Idle] /\ UNCHANGED <<x1, x3, x4, x5, x6>>
    BY DEF Page!Failed, Page!Unheard, Page!Over, Page!page
<1>3. CASE Page!Failed(q)
    <2>1. PageTyped(x1', x2', x3', x4', x5', x6') /\ AllSound(x1', x2', x4')
        BY <1>1, <1>2 DEF PageTyped, AllSound
    <2>2. x10' = TRUE
        BY <1>3 DEF Page!Failed
    <2> QED
        BY <1>1, <1>2, <2>1, <2>2, PageInvNext DEF ShownIsOfPage, PageAsks
<1>4. CASE Page!Unheard(q)
    <2>1. x2[q].kind = "beacon" /\ UNCHANGED <<x7, x10>>
        BY <1>4 DEF Page!Unheard, Page!page
    <2> QED
        BY <1>1, <1>2, <2>1, QuietMoves
<1> QED
    BY <1>3, <1>4

LEMMA PageInit == Page!Init => Page!IInv
<1> SUFFICES ASSUME Page!Init PROVE Page!IInv
    OBVIOUS
<1>1. /\ x1 = [o \in Owners |-> Page!Unused] /\ x2 = [q \in Actors |-> Page!Idle]
      /\ x3 = Nobody /\ x4 = Nobody /\ x5 = Page!Nothing /\ x6 = [code |-> FALSE, success |-> FALSE]
    BY DEF Page!Init, Page!NoDialog
<1>2. PageTyped(x1, x2, x3, x4, x5, x6)
    BY <1>1 DEF PageTyped, Page!Unused, Page!Rows
<1>3. PageMade(x1, x3, x4, x5) /\ SuccessTrue(x1, x6) /\ AllSound(x1, x2, x4)
    BY <1>1, RepliesAre DEF PageMade, OrderMade, AnswerTrue, SuccessTrue, AllSound
<1> QED
    BY <1>1, <1>2, <1>3, PageInvIs DEF ShownIsOfPage, PageAsks

LEMMA PageNext == Page!IInv /\ [Page!Next]_(Page!vars) => Page!IInv'
<1> SUFFICES ASSUME Page!IInv, [Page!Next]_(Page!vars) PROVE Page!IInv'
    OBVIOUS
<1>1. CASE UNCHANGED Page!vars
    BY <1>1, PageInvIs, PageInvNext DEF Page!vars, Page!page
<1>2. ASSUME NEW q \in Actors, \/ Page!ServeSession(q) \/ Page!ServePoll(q) \/ Page!Lose(q)
                               \/ \E closes \in BOOLEAN : Page!ServeCancel(q, closes)
      PROVE  Page!IInv'
    <2>1. x2[q] # Page!Idle
        BY <1>2 DEF Page!ServeSession, Page!ServePoll, Page!ServeCancel, Page!Lose, Page!UnderWay
    <2>2. CASE Page!Lose(q)
        BY <2>1, <2>2, RefuseInv DEF Page!Lose
    <2>3. CASE ~Page!Lose(q)
        <3>1. x2[q] \in Page!Requests /\ RequestSound(x1, x4, x2[q]) /\ x2[q].kind # "create"
            BY <1>2, <2>1, <2>3, PageInvIs DEF PageTyped, AllSound, Page!ServeSession, Page!ServePoll, Page!ServeCancel
        <3>2. PICK o \in Owners : o = x2[q].order
            BY <3>1, RequestsAre DEF RequestSound
        <3> QED
            BY <1>2, <3>2, ServeInv
    <2> QED
        BY <2>2, <2>3
<1>3. ASSUME NEW q \in Actors, NEW o \in Owners, Page!ServeCreate(q, o) PROVE Page!IInv'
    BY <1>3, ServeInv
<1>4. CASE Page!Open \/ Page!HideSuccess
    BY <1>4, DialogMoves
<1> QED
    BY <1>1, <1>2, <1>3, <1>4, OrderEnds, ReloadInv, UserActs, CreatedInv, SessionMadeInv, LoadedInv,
       CancelledInv, EndsInv DEF Page!Next

\* While nothing strayed, the page shows its own order, so that it asks after what it shows.
LEMMA PageSafe == Page!IInv => Page!PageIsTrue /\ Page!PendingIsWatched
<1> SUFFICES ASSUME Page!IInv PROVE Page!PendingIsWatched
    BY DEF Page!IInv
<1>1. /\ PageTyped(x1, x2, x3, x4, x5, x6) /\ AllSound(x1, x2, x4)
      /\ ShownIsOfPage(x5, x4, x10) /\ PageAsks(x1, x2, x4, x7, x10)
    BY PageInvIs
<1>2. ASSUME x5.status = "pending", x1[x5.order].status = "pending", ~x10
      PROVE  x7 \/ \E q \in Actors : x2[q] # Page!Idle /\ x2[q].kind # "beacon"
    <2>1. x5.order = x4 /\ x4 \in Owners /\ x4 # Nobody
        BY <1>1, <1>2, RepliesAre DEF PageTyped, ShownIsOfPage
    <2> QED
        BY <1>1, <1>2, <2>1 DEF PageAsks, AsksAfter
<1> QED
    BY <1>2 DEF Page!PendingIsWatched

-----------------------------------------------------------------------------
(*****************************************************************************)
(* Notifications.  x1 are the active users, x2 their facts, x3 whose balance *)
(* is low, x4 the notes, x5 how many a broadcast reached, x6 the requests,   *)
(* x7 the locks of notes.                                                    *)
(*                                                                           *)
(* A broadcast counts whom it goes to before it writes their notes; until    *)
(* then nobody has its note, and no other request sends it (SendingIsNew,    *)
(* NoneBefore), so its count is that of the notes it writes.                 *)
(*****************************************************************************)
\* The instance counts as the library does.
LEMMA NoteCounts == \A S : Note!Cardinality(S) = Cardinality(S) /\ (Note!IsFiniteSet(S) <=> IsFiniteSet(S))
BY DEF Note!Cardinality, Cardinality, Note!IsFiniteSet, IsFiniteSet

LEMMA NoteRequest ==
    ASSUME Note!IInv, NEW h \in Actors
    PROVE  /\ x6[h].step = "read" => x6[h] \in [step : {"read"}, user : Readers, low : BOOLEAN]
           /\ x6[h].step = "synced" =>
                 x6[h] \in [step : {"synced"}, user : Readers, written : SUBSET (Facts \cup {Note!Low}), deleted : SUBSET {Note!Low}]
           /\ x6[h].step = "sending" =>
                 x6[h] \in [step : {"sending"}, broadcast : Broadcasts, to : SUBSET Members, count : 0..Cardinality(Members)]
BY NoteCounts DEF Note!IInv, Note!Requests, Note!Idle

LEMMA NoteInit == Note!Bounds /\ Note!Init => Note!IInv
<1> SUFFICES ASSUME Note!Bounds, Note!Init PROVE Note!IInv
    OBVIOUS
<1>1. /\ x1 = Members /\ x2 = [u \in Members |-> <<>>] /\ x3 = [u \in Members |-> TRUE]
      /\ x4 = [u \in Members |-> [k \in Note!Keys |-> "none"]] /\ x5 = [b \in Broadcasts |-> Note!NotYet]
      /\ x6 = [h \in Actors |-> Note!Idle] /\ x7 = [n \in Members \X Note!Keys |-> Nobody]
    BY DEF Note!Init
<1>2. Note!TypeOK
    BY <1>1 DEF Note!TypeOK, Note!Idle
<1>3. Note!NoneBefore /\ Note!SendingIsNew
    BY <1>1 DEF Note!NoneBefore, Note!SendingIsNew, Note!Idle, Note!Keys
<1>4. Note!DeliveredIsCounted
    <2> SUFFICES ASSUME NEW b \in Broadcasts PROVE Cardinality({u \in Members : x4[u][b] # "none"}) = 0
        BY NoteCounts, <1>1 DEF Note!DeliveredIsCounted
    <2>1. {u \in Members : x4[u][b] # "none"} = {}
        BY <1>1 DEF Note!Keys
    <2> QED
        BY <2>1, FS_EmptySet
<1> QED
    BY <1>1, <1>2, <1>3, <1>4 DEF Note!IInv

\* The account changes, or a request that has written nothing moves on, ends or broadcasts.
LEMMA NoteFrame ==
    ASSUME Note!Bounds, Note!IInv, x1' \subseteq Members, x3' \in [Members -> BOOLEAN], x2' \in [Members -> Seq(Facts)],
           UNCHANGED <<x4, x5, x6, x7>>
    PROVE  Note!IInv'
<1>1. Note!TypeOK'
    BY DEF Note!IInv, Note!TypeOK
<1> QED
    BY <1>1 DEF Note!IInv, Note!DeliveredIsCounted, Note!SendingIsNew, Note!NoneBefore

LEMMA NoteMoves ==
    ASSUME Note!Bounds, Note!IInv, NEW h \in Actors, NEW new \in Note!Requests \cup {Note!Idle},
           x6' = [x6 EXCEPT ![h] = new], UNCHANGED <<x1, x2, x3, x4, x5>>,
           x7' \in [Members \X Note!Keys -> Actors \cup {Nobody}],
           \A g \in Actors \ {h}, n \in Members \X Note!Keys : x7[n] = g => x7'[n] = g,
           new.step = "synced" => \A k \in new.written \cup new.deleted : x7'[<<new.user, k>>] = h,
           new.step = "sending" =>
              /\ x5[new.broadcast] = Note!NotYet /\ new.count = Cardinality(new.to)
              /\ \A g \in Actors \ {h} : x6[g].step = "sending" => x6[g].broadcast # new.broadcast
    PROVE  Note!IInv'
<1>1. /\ \A g \in Actors : x6'[g] = IF g = h THEN new ELSE x6[g]
      /\ x6' \in [Actors -> Note!Requests \cup {Note!Idle}]
    BY DEF Note!IInv
<1>2. Note!TypeOK'
    <2>1. ASSUME NEW g \in Actors, x6'[g].step = "synced", NEW k \in x6'[g].written \cup x6'[g].deleted
          PROVE  x7'[<<x6'[g].user, k>>] = g
        <3>1. CASE g = h
            BY <1>1, <2>1, <3>1
        <3>2. CASE g # h
            <4>1. x6'[g] = x6[g] /\ x7[<<x6[g].user, k>>] = g
                BY <1>1, <2>1, <3>2 DEF Note!IInv, Note!TypeOK
            <4>2. x6[g].user \in Members /\ k \in Note!Keys
                BY <2>1, <4>1, NoteRequest DEF Note!Bounds, Note!Keys
            <4> QED
                BY <3>2, <4>1, <4>2
        <3> QED
            BY <3>1, <3>2
    <2> QED
        BY <2>1 DEF Note!IInv, Note!TypeOK
<1>3. Note!SendingIsNew'
    <2>1. /\ \A g \in Actors \ {h} : x6'[g] = x6[g]
          /\ x6'[h] = new /\ x5' = x5
        BY <1>1
    <2>2. ASSUME NEW g \in Actors, x6'[g].step = "sending"
          PROVE  /\ x5'[x6'[g].broadcast] = Note!NotYet
                 /\ x6'[g].count = Note!Cardinality(x6'[g].to)
        BY <2>1, <2>2, NoteCounts DEF Note!IInv, Note!SendingIsNew
    <2>3. ASSUME NEW g \in Actors, x6'[g].step = "sending",
                 NEW f \in Actors \ {g}, x6'[f].step = "sending"
          PROVE  x6'[f].broadcast # x6'[g].broadcast
        BY <2>1, <2>3 DEF Note!IInv, Note!SendingIsNew
    <2> QED
        BY <2>2, <2>3 DEF Note!SendingIsNew
<1>4. Note!DeliveredIsCounted' /\ Note!NoneBefore'
    BY DEF Note!IInv, Note!DeliveredIsCounted, Note!NoneBefore
<1> QED
    BY <1>1, <1>2, <1>3, <1>4 DEF Note!IInv

\* A transaction that ends gives back its rows and leaves the others theirs.
LEMMA NoteReleases ==
    ASSUME Note!Bounds, Note!IInv, NEW h \in Actors, Note!Over(h)
    PROVE  /\ x6' = [x6 EXCEPT ![h] = Note!Idle] /\ Note!Idle \in Note!Requests \cup {Note!Idle} /\ Note!Idle.step = "idle"
           /\ x7' \in [Members \X Note!Keys -> Actors \cup {Nobody}]
           /\ \A g \in Actors \ {h}, n \in Members \X Note!Keys : x7[n] = g => x7'[n] = g
BY DEF Note!IInv, Note!Over, Note!Idle

\* Notes are written while no other state moves, and a note stays or not as it was for a broadcast.
LEMMA NoteWrites ==
    ASSUME Note!Bounds, Note!IInv, UNCHANGED <<x1, x2, x3, x5, x6, x7>>,
           x4' \in [Members -> [Note!Keys -> {"none", "unread", "read"}]],
           \A u \in Members, b \in Broadcasts : x4'[u][b] # "none" <=> x4[u][b] # "none"
    PROVE  Note!IInv'
<1>1. Note!TypeOK'
    BY DEF Note!IInv, Note!TypeOK
<1>2. Note!NoneBefore' /\ Note!SendingIsNew'
    BY DEF Note!IInv, Note!NoneBefore, Note!SendingIsNew
<1>3. ASSUME NEW b \in Broadcasts
      PROVE  {u \in Members : x4'[u][b] # "none"} = {u \in Members : x4[u][b] # "none"}
    OBVIOUS
<1>4. Note!DeliveredIsCounted'
    BY <1>3 DEF Note!IInv, Note!DeliveredIsCounted
<1> QED
    BY <1>1, <1>2, <1>4 DEF Note!IInv

LEMMA NoteOverview ==
    ASSUME Note!Bounds, Note!IInv, NEW h \in Actors, NEW u \in Readers, Note!Overview(h, u)
    PROVE  Note!IInv'
<1> DEFINE new == [step |-> "read", user |-> u, low |-> x3[u]]
<1>1. x6' = [x6 EXCEPT ![h] = new] /\ UNCHANGED <<x1, x2, x3, x4, x5, x7>>
    BY DEF Note!Overview
<1>2. new \in Note!Requests /\ new.step = "read"
    BY DEF Note!Requests, Note!IInv, Note!TypeOK, Note!Bounds
<1>3. x7' \in [Members \X Note!Keys -> Actors \cup {Nobody}]
    BY <1>1 DEF Note!IInv
<1> HIDE DEF new
<1> QED
    BY <1>1, <1>2, <1>3, NoteMoves

LEMMA RecentFacts == ASSUME Note!Bounds, Note!IInv, NEW u \in Members PROVE Note!Recent(u) \subseteq Facts
<1>1. x2[u] \in Seq(Facts)
    BY DEF Note!IInv
<1> DEFINE m == IF Len(x2[u]) > RecentLimit THEN Len(x2[u]) - RecentLimit + 1 ELSE 1
<1>2. Note!Recent(u) = Note!ToSet(SubSeq(x2[u], m, Len(x2[u]))) /\ m \in Nat \ {0}
    BY <1>1 DEF Note!Recent, Note!Bounds
<1> HIDE DEF m
<1>3. SubSeq(x2[u], m, Len(x2[u])) \in Seq(Facts)
    BY <1>1, <1>2
<1> QED
    BY <1>2, <1>3 DEF Note!ToSet

LEMMA NoteSync == ASSUME Note!Bounds, Note!IInv, NEW h \in Actors, Note!Sync(h) PROVE Note!IInv'
<1> DEFINE u == x6[h].user
           written == Note!Recent(u) \cup (IF x6[h].low THEN {Note!Low} ELSE {})
           deleted == IF ~x6[h].low /\ x4[u][Note!Low] # "none" THEN {Note!Low} ELSE {}
           rows == {u} \X (written \cup deleted)
           new == [step |-> "synced", user |-> u, written |-> written, deleted |-> deleted]
<1>1. /\ x6[h].step = "read" /\ Note!Free(h, rows) /\ Note!Lock(h, rows) /\ x6' = [x6 EXCEPT ![h] = new]
      /\ UNCHANGED <<x1, x2, x3, x4, x5>>
    BY DEF Note!Sync
<1>2. u \in Readers /\ u \in Members
    BY <1>1, NoteRequest DEF Note!Bounds
<1>3. written \subseteq Facts \cup {Note!Low} /\ deleted \subseteq {Note!Low}
    BY <1>2, RecentFacts
<1> HIDE DEF written, deleted
<1>4. /\ new \in Note!Requests /\ new.step = "synced" /\ new.written = written
      /\ new.deleted = deleted /\ new.user = u
    BY <1>2, <1>3 DEF Note!Requests
<1>5. x7' \in [Members \X Note!Keys -> Actors \cup {Nobody}]
    BY <1>1 DEF Note!IInv, Note!Lock
<1>6. \A k \in written \cup deleted : <<u, k>> \in Members \X Note!Keys /\ <<u, k>> \in rows
    BY <1>2, <1>3 DEF Note!Keys
<1> HIDE DEF rows
<1>7. \A g \in Actors \ {h}, n \in Members \X Note!Keys : x7[n] = g => x7'[n] = g
    BY <1>1 DEF Note!Lock, Note!Free, Note!Bounds
<1>8. \A k \in written \cup deleted : x7'[<<u, k>>] = h
    BY <1>1, <1>6 DEF Note!Lock
<1> HIDE DEF new, u
<1> QED
    BY <1>1, <1>4, <1>5, <1>7, <1>8, NoteMoves

LEMMA NoteCommits ==
    ASSUME Note!Bounds, Note!IInv, NEW h \in Actors, Note!Commit(h)
    PROVE  Note!IInv' /\ Note!KeepsRead
<1> DEFINE w == x6[h].user
           Stand(k) == CASE k \in x6[h].written -> Note!Upserted(x4[w][k])
                         [] k \in x6[h].deleted -> "none"
                         [] OTHER -> x4[w][k]
<1>1. /\ x6[h].step = "synced" /\ Note!Over(h) /\ UNCHANGED <<x1, x2, x3, x5>>
      /\ x4' = [x4 EXCEPT ![w] = [k \in Note!Keys |-> Stand(k)]]
    BY DEF Note!Commit
<1>2. w \in Members /\ x6[h].written \subseteq Facts \cup {Note!Low} /\ x6[h].deleted \subseteq {Note!Low}
    BY <1>1, NoteRequest DEF Note!Bounds
<1>3. x4 \in [Members -> [Note!Keys -> {"none", "unread", "read"}]]
    BY DEF Note!IInv, Note!TypeOK
<1>4. \A k \in Note!Keys : /\ Stand(k) \in {"none", "unread", "read"}
                           /\ k \in Broadcasts => Stand(k) = x4[w][k]
                           /\ x4[w][k] = "read" => Stand(k) = "read" \/ (k = Note!Low /\ Stand(k) = "none")
    <2> TAKE k \in Note!Keys
    <2>1. x4[w][k] \in {"none", "unread", "read"}
        BY <1>2, <1>3
    <2>2. CASE k \in x6[h].written
        BY <1>2, <2>1, <2>2 DEF Note!Upserted, Note!Bounds
    <2>3. CASE k \notin x6[h].written /\ k \in x6[h].deleted
        BY <1>2, <2>3 DEF Note!Bounds
    <2>4. CASE k \notin x6[h].written /\ k \notin x6[h].deleted
        BY <2>1, <2>4
    <2> QED
        BY <2>2, <2>3, <2>4
<1> HIDE DEF Stand
<1>5. /\ x4' \in [Members -> [Note!Keys -> {"none", "unread", "read"}]]
      /\ \A u \in Members, k \in Note!Keys : x4'[u][k] = IF u = w THEN Stand(k) ELSE x4[u][k]
    BY <1>1, <1>2, <1>3, <1>4
<1> HIDE DEF w
<1>6. Note!KeepsRead
    BY <1>4, <1>5 DEF Note!KeepsRead, w
<1>7. \A u \in Members, b \in Broadcasts : x4'[u][b] = x4[u][b]
    BY <1>4, <1>5 DEF Note!Keys, w
<1>8. \A b \in Broadcasts : {u \in Members : x4'[u][b] # "none"} = {u \in Members : x4[u][b] # "none"}
    BY <1>7
<1>9. /\ x6' = [x6 EXCEPT ![h] = Note!Idle] /\ Note!Idle.step = "idle"
      /\ x7' \in [Members \X Note!Keys -> Actors \cup {Nobody}]
      /\ \A g \in Actors \ {h}, n \in Members \X Note!Keys : x7[n] = g => x7'[n] = g
    BY <1>1, NoteReleases
<1>10. /\ \A g \in Actors : x6'[g] = IF g = h THEN Note!Idle ELSE x6[g]
       /\ x6' \in [Actors -> Note!Requests \cup {Note!Idle}]
    BY <1>9 DEF Note!IInv
<1>11. Note!TypeOK'
    <2>1. ASSUME NEW g \in Actors, x6'[g].step = "synced", NEW k \in x6'[g].written \cup x6'[g].deleted
          PROVE  x7'[<<x6'[g].user, k>>] = g
        <3>1. g # h /\ x6'[g] = x6[g] /\ x7[<<x6[g].user, k>>] = g
            BY <1>9, <1>10, <2>1 DEF Note!IInv, Note!TypeOK
        <3>2. x6[g].user \in Members /\ k \in Note!Keys
            BY <2>1, <3>1, NoteRequest DEF Note!Bounds, Note!Keys
        <3> QED
            BY <1>9, <3>1, <3>2
    <2> QED
        BY <1>1, <1>5, <2>1 DEF Note!IInv, Note!TypeOK
<1>12. Note!SendingIsNew'
    <2>1. \A g \in Actors : x6'[g].step = "sending" => x6'[g] = x6[g]
        BY <1>9, <1>10
    <2>2. x5' = x5
        BY <1>1
    <2> QED
        BY <2>1, <2>2 DEF Note!IInv, Note!SendingIsNew
<1>13. Note!DeliveredIsCounted' /\ Note!NoneBefore'
    BY <1>1, <1>7, <1>8 DEF Note!IInv, Note!DeliveredIsCounted, Note!NoneBefore
<1> QED
    BY <1>1, <1>6, <1>9, <1>10, <1>11, <1>12, <1>13 DEF Note!IInv

LEMMA NoteSetRead ==
    ASSUME Note!Bounds, Note!IInv, NEW h \in Actors, NEW u \in Readers, NEW read \in BOOLEAN, NEW chosen \in SUBSET Note!Keys,
           Note!SetRead(h, u, read, chosen)
    PROVE  Note!IInv' /\ (read => Note!KeepsRead)
<1> DEFINE changed == {k \in chosen : x4[u][k] # "none"}
           new == IF read THEN "read" ELSE "unread"
<1>1. /\ x4' = [x4 EXCEPT ![u] = [k \in Note!Keys |-> IF k \in changed THEN new ELSE x4[u][k]]]
      /\ UNCHANGED <<x1, x2, x3, x5, x6, x7>>
    BY DEF Note!SetRead
<1>2. u \in Members /\ new \in {"unread", "read"} /\ (read => new = "read")
    BY DEF Note!Bounds
<1>3. \A k \in changed : x4[u][k] # "none"
    OBVIOUS
<1> HIDE DEF changed, new
<1>4. /\ x4' \in [Members -> [Note!Keys -> {"none", "unread", "read"}]]
      /\ \A v \in Members, k \in Note!Keys : x4'[v][k] = IF v = u /\ k \in changed THEN new ELSE x4[v][k]
    BY <1>1, <1>2 DEF Note!IInv, Note!TypeOK
<1>5. read => Note!KeepsRead
    BY <1>2, <1>4 DEF Note!KeepsRead
<1>6. \A v \in Members, b \in Broadcasts : x4'[v][b] # "none" <=> x4[v][b] # "none"
    BY <1>2, <1>3, <1>4 DEF Note!Keys
<1> QED
    BY <1>1, <1>4, <1>5, <1>6, NoteWrites

LEMMA NoteBroadcasts ==
    ASSUME Note!Bounds, Note!IInv, NEW h \in Actors, NEW b \in Broadcasts, Note!Broadcast(h, b)
    PROVE  Note!IInv'
<1> DEFINE new == [step |-> "sending", broadcast |-> b, to |-> x1, count |-> Cardinality(x1)]
<1>1. /\ x6[h] = Note!Idle /\ x5[b] = Note!NotYet
      /\ \A g \in Actors : x6[g].step = "sending" => x6[g].broadcast # b
      /\ x6' = [x6 EXCEPT ![h] = new]
      /\ UNCHANGED <<x1, x2, x3, x4, x5, x7>>
    BY NoteCounts DEF Note!Broadcast, Note!Receivers
<1>2. Cardinality(x1) \in 0..Cardinality(Members) /\ x1 \subseteq Members
    <2>1. x1 \subseteq Members
        BY DEF Note!IInv, Note!TypeOK
    <2>2. /\ Cardinality(x1) \in Nat /\ Cardinality(Members) \in Nat
          /\ Cardinality(x1) <= Cardinality(Members)
        BY NoteCounts, <2>1, FS_Subset, FS_CardinalityType DEF Note!Bounds
    <2> QED
        BY <2>1, <2>2
<1>3. /\ new \in Note!Requests /\ new.step = "sending" /\ new.broadcast = b /\ new.to = x1
      /\ new.count = Cardinality(x1)
    BY NoteCounts, <1>2 DEF Note!Requests
<1>4. x7' \in [Members \X Note!Keys -> Actors \cup {Nobody}]
    BY <1>1 DEF Note!IInv
<1> HIDE DEF new
<1> QED
    BY <1>1, <1>3, <1>4, NoteMoves

LEMMA NoteDelivers ==
    ASSUME Note!Bounds, Note!IInv, NEW h \in Actors, Note!Deliver(h)
    PROVE  Note!IInv' /\ Note!KeepsRead
<1> DEFINE b == x6[h].broadcast
           to == x6[h].to
           count == x6[h].count
<1>1. /\ x6[h].step = "sending" /\ Note!Over(h) /\ UNCHANGED <<x1, x2, x3>>
      /\ x4' = [u \in Members |-> IF u \in to THEN [x4[u] EXCEPT ![b] = Note!Upserted(x4[u][b])] ELSE x4[u]]
      /\ x5' = [x5 EXCEPT ![b] = count]
    BY DEF Note!Deliver
<1>2. b \in Broadcasts /\ to \subseteq Members /\ count \in 0..Cardinality(Members) /\ b \in Note!Keys
    BY <1>1, NoteRequest DEF Note!Keys
<1>3. /\ x5[b] = Note!NotYet /\ count = Cardinality(to) /\ \A u \in Members : x4[u][b] = "none"
      /\ \A g \in Actors \ {h} : x6[g].step = "sending" => x6[g].broadcast # b
    BY NoteCounts, <1>1, <1>2 DEF Note!IInv, Note!SendingIsNew, Note!NoneBefore
<1>4. count # Note!NotYet
    <2>1. Cardinality(Members) \in Nat
        BY NoteCounts, FS_CardinalityType DEF Note!Bounds
    <2> QED
        BY <1>2, <2>1 DEF Note!NotYet
<1> HIDE DEF b, to, count
<1>5. /\ x4' \in [Members -> [Note!Keys -> {"none", "unread", "read"}]]
      /\ \A u \in Members, k \in Note!Keys : x4'[u][k] = IF k = b /\ u \in to THEN "unread" ELSE x4[u][k]
    <2>1. x4 \in [Members -> [Note!Keys -> {"none", "unread", "read"}]]
        BY DEF Note!IInv, Note!TypeOK
    <2>2. x4' = [u \in Members |-> IF u \in to THEN [x4[u] EXCEPT ![b] = "unread"] ELSE x4[u]]
        BY <1>1, <1>3 DEF Note!Upserted
    <2> QED
        BY <1>2, <2>1, <2>2
<1>6. Note!KeepsRead
    BY <1>3, <1>5 DEF Note!KeepsRead
<1>7. \A c \in Broadcasts : {u \in Members : x4'[u][c] # "none"}
                            = IF c = b THEN to ELSE {u \in Members : x4[u][c] # "none"}
    BY <1>2, <1>3, <1>5 DEF Note!Keys
<1>8. /\ x5' \in [Broadcasts -> 0..Cardinality(Members) \cup {Note!NotYet}]
      /\ \A c \in Broadcasts : x5'[c] = IF c = b THEN count ELSE x5[c]
    BY NoteCounts, <1>1, <1>2 DEF Note!IInv, Note!TypeOK
<1>9. /\ x6' = [x6 EXCEPT ![h] = Note!Idle] /\ Note!Idle.step = "idle"
      /\ x7' \in [Members \X Note!Keys -> Actors \cup {Nobody}]
      /\ \A g \in Actors \ {h}, n \in Members \X Note!Keys : x7[n] = g => x7'[n] = g
    BY <1>1, NoteReleases
<1>10. /\ \A g \in Actors : x6'[g] = IF g = h THEN Note!Idle ELSE x6[g]
       /\ x6' \in [Actors -> Note!Requests \cup {Note!Idle}]
    BY <1>9 DEF Note!IInv
<1>11. Note!TypeOK'
    <2>1. ASSUME NEW g \in Actors, x6'[g].step = "synced", NEW k \in x6'[g].written \cup x6'[g].deleted
          PROVE  x7'[<<x6'[g].user, k>>] = g
        <3>1. g # h /\ x6'[g] = x6[g] /\ x7[<<x6[g].user, k>>] = g
            BY <1>9, <1>10, <2>1 DEF Note!IInv, Note!TypeOK
        <3>2. x6[g].user \in Members /\ k \in Note!Keys
            BY <2>1, <3>1, NoteRequest DEF Note!Bounds, Note!Keys
        <3> QED
            BY <1>9, <3>1, <3>2
    <2> QED
        BY NoteCounts, <1>1, <1>5, <1>8, <2>1 DEF Note!IInv, Note!TypeOK
<1>12. Note!SendingIsNew'
    <2> SUFFICES ASSUME NEW g \in Actors, x6'[g].step = "sending"
                 PROVE  /\ x5'[x6'[g].broadcast] = Note!NotYet
                        /\ x6'[g].count = Cardinality(x6'[g].to)
                        /\ \A k \in Actors \ {g} : x6'[k].step = "sending" =>
                              x6'[k].broadcast # x6'[g].broadcast
        BY NoteCounts DEF Note!SendingIsNew
    <2>1. g # h /\ x6'[g] = x6[g] /\ x6[g].broadcast \in Broadcasts /\ x6[g].broadcast # b
        BY <1>3, <1>9, <1>10, NoteRequest
    <2> QED
        BY NoteCounts, <1>8, <1>9, <1>10, <2>1 DEF Note!IInv, Note!SendingIsNew
<1>13. Note!NoneBefore'
    BY <1>4, <1>5, <1>8 DEF Note!IInv, Note!NoneBefore, Note!Keys
<1>14. Note!DeliveredIsCounted'
    BY NoteCounts, <1>3, <1>4, <1>7, <1>8 DEF Note!IInv, Note!DeliveredIsCounted
<1> QED
    BY <1>1, <1>6, <1>9, <1>10, <1>11, <1>12, <1>13, <1>14 DEF Note!IInv

LEMMA NoteNext == Note!Bounds /\ Note!IInv /\ [Note!Next]_(Note!vars) => Note!IInv' /\ Note!KeepsRead
<1> SUFFICES ASSUME Note!Bounds, Note!IInv, [Note!Next]_(Note!vars) PROVE Note!IInv' /\ Note!KeepsRead
    OBVIOUS
<1>1. ASSUME UNCHANGED x4 PROVE Note!KeepsRead
    BY <1>1 DEF Note!KeepsRead
<1>2. x1 \subseteq Members /\ x3 \in [Members -> BOOLEAN] /\ x2 \in [Members -> Seq(Facts)]
      /\ x7 \in [Members \X Note!Keys -> Actors \cup {Nobody}]
    BY DEF Note!IInv, Note!TypeOK
<1>3. ASSUME NEW u \in Readers, NEW f \in Facts, Note!Happen(u, f) PROVE Note!IInv' /\ Note!KeepsRead
    <2>1. x2' \in [Members -> Seq(Facts)] /\ UNCHANGED <<x1, x3, x4, x5, x6, x7>>
        BY <1>2, <1>3 DEF Note!Happen, Note!Bounds
    <2> QED
        BY <1>1, <1>2, <2>1, NoteFrame
<1>4. ASSUME NEW u \in Readers, Note!Balance(u) PROVE Note!IInv' /\ Note!KeepsRead
    <2>1. x3' \in [Members -> BOOLEAN] /\ UNCHANGED <<x1, x2, x4, x5, x6, x7>>
        BY <1>2, <1>4 DEF Note!Balance, Note!Bounds
    <2> QED
        BY <1>1, <1>2, <2>1, NoteFrame
<1>5. ASSUME NEW u \in Members, Note!Deactivate(u) PROVE Note!IInv' /\ Note!KeepsRead
    <2>1. x1' \subseteq Members /\ UNCHANGED <<x2, x3, x4, x5, x6, x7>>
        BY <1>2, <1>5 DEF Note!Deactivate
    <2> QED
        BY <1>1, <1>2, <2>1, NoteFrame
<1>6. ASSUME NEW h \in Actors, NEW u \in Readers, Note!Overview(h, u) PROVE Note!IInv' /\ Note!KeepsRead
    BY <1>1, <1>6, NoteOverview DEF Note!Overview
<1>7. ASSUME NEW h \in Actors, Note!Sync(h) PROVE Note!IInv' /\ Note!KeepsRead
    BY <1>1, <1>7, NoteSync DEF Note!Sync
<1>8. ASSUME NEW h \in Actors, Note!Abort(h) PROVE Note!IInv' /\ Note!KeepsRead
    <2>1. Note!Over(h) /\ UNCHANGED <<x1, x2, x3, x4, x5>>
        BY <1>8 DEF Note!Abort
    <2> QED
        BY <1>1, <2>1, NoteReleases, NoteMoves
<1>9. ASSUME NEW h \in Actors, Note!Commit(h) \/ Note!Deliver(h) PROVE Note!IInv' /\ Note!KeepsRead
    BY <1>9, NoteCommits, NoteDelivers
<1>10. ASSUME NEW h \in Actors, NEW b \in Broadcasts, Note!Broadcast(h, b)
       PROVE Note!IInv' /\ Note!KeepsRead
    BY <1>1, <1>10, NoteBroadcasts DEF Note!Broadcast
<1>11. CASE Note!MarkRead
    <2>1. PICK h \in Actors, u \in Readers, chosen \in SUBSET Note!Keys : Note!SetRead(h, u, TRUE, chosen)
        BY <1>11 DEF Note!MarkRead
    <2> QED
        BY <2>1, NoteSetRead
<1>12. CASE Note!MarkUnread
    <2>1. PICK h \in Actors, u \in Readers, chosen \in SUBSET Note!Keys : Note!SetRead(h, u, FALSE, chosen)
        BY <1>12 DEF Note!MarkUnread
    <2> QED
        BY <1>12, <2>1, NoteSetRead DEF Note!KeepsRead
<1>13. CASE UNCHANGED Note!vars
    <2>1. UNCHANGED <<x1, x2, x3, x4, x5, x6, x7>>
        BY <1>13 DEF Note!vars
    <2> QED
        BY <1>1, <1>2, <2>1, NoteFrame
<1> QED
    BY <1>3, <1>4, <1>5, <1>6, <1>7, <1>8, <1>9, <1>10, <1>11, <1>12, <1>13 DEF Note!Next

-----------------------------------------------------------------------------
(*****************************************************************************)
(* Email campaigns.  x1 are the addresses of the users, x2 those chosen, x3  *)
(* the campaign, x4 its rows, x5 the sendings, x6 and x7 the locks of rows   *)
(* and campaign, x8 how often an address was mailed, x9 how many of those    *)
(* mails the records do not know of, x10 the addresses a user has left, x11  *)
(* how many sendings began.                                                  *)
(*                                                                           *)
(* Until its user leaves an address, whoever has read its row holds it       *)
(* (RowsAreHeld), so one sending runs at a time (OneByOne), and a mail that  *)
(* the server took is in the rows or about to be (MailsAreKnown), or is one  *)
(* of those that were forgotten or recorded as failed: no second sending     *)
(* finds it unsent.  What a sending counts is what it did to its rows        *)
(* (Progress, CountsAreReal).                                                *)
(*****************************************************************************)
\* The instance counts as the library does.
LEMMA CampCounts ==
    \A S : Mailing!Cardinality(S) = Cardinality(S) /\ (Mailing!IsFiniteSet(S) <=> IsFiniteSet(S))
BY DEF Mailing!Cardinality, Cardinality, Mailing!IsFiniteSet, IsFiniteSet

LEMMA CampTypes ==
    ASSUME Mailing!IInv, NEW o \in Actors
    PROVE  /\ x5[o] \in Mailing!Sendings
           /\ x5[o].step \in {"idle", "written", "mailing", "recording"}
           /\ x5[o].read \in [Mailboxes -> Mailing!Statuses]
           /\ x5[o].wrote \in [Mailboxes -> Mailing!Statuses]
           /\ x5[o].left \subseteq Mailboxes /\ x5[o].out \subseteq Mailboxes
           /\ x5[o].now \in Mailboxes \cup {Nobody} /\ x5[o].sent \in Nat /\ x5[o].failed \in Nat
<1>1. x5[o] \in Mailing!Sendings
    BY DEF Mailing!IInv
<1> QED
    BY <1>1 DEF Mailing!Sendings

LEMMA CampIdle ==
    /\ Mailing!Idle.step = "idle" /\ Mailing!Idle.read = Mailing!NoRows
    /\ Mailing!Idle.wrote = Mailing!NoRows /\ Mailing!Idle.left = {} /\ Mailing!Idle.now = Nobody
    /\ Mailing!Idle.out = {} /\ Mailing!Idle.sent = 0 /\ Mailing!Idle.failed = 0
    /\ Mailing!Idle \in Mailing!Sendings
    /\ Mailing!NoRows \in [Mailboxes -> Mailing!Statuses] /\ \A a \in Mailboxes : Mailing!NoRows[a] = "none"
<1>1. Mailing!NoRows \in [Mailboxes -> Mailing!Statuses] /\ \A a \in Mailboxes : Mailing!NoRows[a] = "none"
    BY DEF Mailing!NoRows, Mailing!Statuses
<1> QED
    BY <1>1 DEF Mailing!Idle, Mailing!Sendings

\* What counting needs: who is to mail an address, and how often it was mailed.
LEMMA MailersShrink ==
    ASSUME NEW S, IsFiniteSet(S), NEW T \in SUBSET S, NEW m \in Nat, NEW n \in Nat, m + Cardinality(S) <= n
    PROVE  IsFiniteSet(T) /\ m + Cardinality(T) <= n
<1>1. /\ IsFiniteSet(T) /\ Cardinality(T) <= Cardinality(S) /\ Cardinality(S) \in Nat
      /\ Cardinality(T) \in Nat
    BY FS_Subset, FS_CardinalityType
<1> QED
    BY <1>1

LEMMA MailersGrow ==
    ASSUME NEW S, NEW o, IsFiniteSet(S), NEW T \in SUBSET (S \cup {o}), NEW m \in Nat, NEW n \in Nat,
           m + Cardinality(S) <= n
    PROVE  IsFiniteSet(T) /\ m + Cardinality(T) <= n + 1
<1> DEFINE U == S \cup {o}
<1>1. IsFiniteSet(U) /\ Cardinality(U) \in {Cardinality(S), Cardinality(S) + 1} /\ Cardinality(S) \in Nat
    BY FS_AddElement, FS_CardinalityType
<1>2. m + Cardinality(U) <= n + 1
    BY <1>1
<1>3. T \in SUBSET U /\ n + 1 \in Nat
    OBVIOUS
<1> HIDE DEF U
<1> QED
    BY <1>1, <1>2, <1>3, MailersShrink

LEMMA MailerMails ==
    ASSUME NEW S, NEW o \in S, IsFiniteSet(S), NEW m \in Nat, NEW n \in Nat, m + Cardinality(S) <= n
    PROVE  IsFiniteSet(S \ {o}) /\ m + 1 + Cardinality(S \ {o}) <= n
<1>1. IsFiniteSet(S \ {o}) /\ Cardinality(S \ {o}) = Cardinality(S) - 1 /\ Cardinality(S) \in Nat
    BY FS_RemoveElement, FS_CardinalityType
<1> QED
    BY <1>1

\* What a sending has got to stays true when only others move.
LEMMA OthersProgress ==
    ASSUME Mailing!IInv, NEW p \in Actors, x5'[p] = x5[p],
           \A a \in Mailboxes : x8[a] > 0 => x8'[a] > 0
    PROVE  Mailing!Progress(p)' /\ Mailing!CountsAreReal(p)'
<1>1. Mailing!Progress(p) /\ Mailing!CountsAreReal(p)
    BY DEF Mailing!IInv
<1>2. Mailing!Progress(p)'
    BY <1>1, CampTypes DEF Mailing!Progress, Mailing!Unsent, Mailing!Live, Mailing!Underway
<1>3. Mailing!CountsAreReal(p)'
    BY <1>1 DEF Mailing!CountsAreReal, Mailing!Underway
<1> QED
    BY <1>2, <1>3

LEMMA CampLost == Mailing!IInv => \A a \in Mailboxes : x8[a] \in Nat /\ x9[a] \in Nat
BY DEF Mailing!IInv, Mailing!TypeOK

LEMMA CampInit == Mailing!Bounds /\ Mailing!Init => Mailing!IInv
<1> SUFFICES ASSUME Mailing!Bounds, Mailing!Init PROVE Mailing!IInv
    OBVIOUS
<1>1. /\ x1 \in [Owners -> Mailboxes \cup {Nobody}] /\ x2 = {} /\ x3 = Mailing!NoCampaign
      /\ x4 = Mailing!NoRows
      /\ x5 = [o \in Actors |-> Mailing!Idle] /\ x6 = [a \in Mailboxes |-> Nobody] /\ x7 = Nobody
      /\ x8 = [a \in Mailboxes |-> 0] /\ x9 = [a \in Mailboxes |-> 0] /\ x10 = {} /\ x11 = 0
    BY DEF Mailing!Init
<1>2. x3.status = "none" /\ \A a \in Mailboxes : x4[a] = "none"
    BY <1>1, CampIdle DEF Mailing!NoCampaign
<1>3. Mailing!TypeOK
    BY <1>1, <1>2, CampIdle DEF Mailing!TypeOK, Mailing!Bounds, Mailing!NoRows
<1>4. \A o \in Actors : Mailing!Progress(o) /\ Mailing!CountsAreReal(o) /\ Mailing!ToMail(o) = {} /\ ~Mailing!Live(o)
    BY <1>1, CampIdle
       DEF Mailing!Progress, Mailing!CountsAreReal, Mailing!ToMail, Mailing!Live, Mailing!Underway,
           Mailing!Unsent
<1>5. Mailing!MailsAreCounted
    <2>1. \A a \in Mailboxes : Mailing!Mailers(a) = {}
        BY <1>4 DEF Mailing!Mailers
    <2> QED
        BY CampCounts, <1>1, <2>1, FS_EmptySet DEF Mailing!MailsAreCounted
<1>6. /\ Mailing!RowsAreHeld /\ Mailing!MailsAreKnown /\ Mailing!OneByOne /\ Mailing!NothingBefore
      /\ Mailing!MailedOnce /\ Mailing!CampaignIsTrue
    BY <1>1, <1>2, <1>4, CampIdle
       DEF Mailing!RowsAreHeld, Mailing!MailsAreKnown, Mailing!OneByOne, Mailing!NothingBefore,
           Mailing!MailedOnce, Mailing!CampaignIsTrue
<1> QED
    BY <1>1, <1>3, <1>4, <1>5, <1>6, CampIdle DEF Mailing!IInv, Mailing!Bounds

LEMMA CampCreates ==
    ASSUME Mailing!Bounds, Mailing!IInv, NEW chosen \in SUBSET Owners, Mailing!Create(chosen)
    PROVE  Mailing!IInv'
<1>1. /\ x3 = Mailing!NoCampaign /\ x2' = chosen /\ x3' = [Mailing!NoCampaign EXCEPT !.status = "draft"]
      /\ UNCHANGED <<x1, x4, x5, x6, x7, x8, x9, x10, x11>>
    BY DEF Mailing!Create
<1>2. x3.status = "none" /\ x3'.status = "draft"
    BY <1>1 DEF Mailing!NoCampaign
<1>3. (\A a \in Mailboxes : x4[a] = "none") /\ \A o \in Actors : ~Mailing!Live(o)
    BY <1>2 DEF Mailing!IInv, Mailing!NothingBefore
<1>4. \A o \in Actors : x5[o] = Mailing!Idle
    BY <1>3, CampTypes DEF Mailing!IInv, Mailing!Progress, Mailing!Live
<1>5. Mailing!TypeOK' /\ Mailing!MailedOnce' /\ Mailing!CampaignIsTrue'
    BY <1>1, <1>2, <1>3 DEF Mailing!IInv, Mailing!TypeOK, Mailing!MailedOnce, Mailing!CampaignIsTrue
<1>6. \A o \in Actors : Mailing!Progress(o)' /\ Mailing!CountsAreReal(o)'
    BY <1>1, OthersProgress
<1>7. Mailing!RowsAreHeld' /\ Mailing!NothingBefore'
    BY <1>1, <1>2, <1>3, <1>4, CampIdle DEF Mailing!RowsAreHeld, Mailing!NothingBefore
<1>8. Mailing!MailsAreKnown' /\ Mailing!OneByOne'
    BY <1>1
       DEF Mailing!IInv, Mailing!MailsAreKnown, Mailing!OneByOne, Mailing!ToMail, Mailing!Unsent,
           Mailing!Live
<1>9. Mailing!MailsAreCounted'
    BY <1>1 DEF Mailing!IInv, Mailing!MailsAreCounted, Mailing!Mailers, Mailing!ToMail, Mailing!Unsent
<1> QED
    BY <1>1, <1>5, <1>6, <1>7, <1>8, <1>9 DEF Mailing!IInv

LEMMA CampMoves ==
    ASSUME Mailing!Bounds, Mailing!IInv, NEW u \in Owners, NEW a \in Mailboxes \cup {Nobody}, Mailing!Move(u, a)
    PROVE  Mailing!IInv'
<1>1. /\ x10' = x10 \cup ({x1[u]} \ {Nobody}) /\ x1' = [x1 EXCEPT ![u] = a]
      /\ UNCHANGED <<x2, x3, x4, x5, x6, x7, x8, x9, x11>>
    BY DEF Mailing!Move
<1>2. x1 \in [Owners -> Mailboxes \cup {Nobody}] /\ x2 \subseteq Owners
    BY DEF Mailing!IInv, Mailing!TypeOK
<1>3. \A b \in Mailboxes \ x10' : b \notin x10 /\ (b \in Mailing!Reachable => b \in Mailing!Reachable')
    <2> SUFFICES ASSUME NEW b \in Mailboxes \ x10', b \in Mailing!Reachable PROVE b \in Mailing!Reachable'
        BY <1>1
    <2>1. PICK v \in x2 : x1[v] = b /\ b # Nobody
        BY DEF Mailing!Reachable
    <2>2. v # u
        BY <1>1, <2>1
    <2>3. x1'[v] = b
        BY <1>1, <1>2, <2>1, <2>2
    <2> QED
        BY <1>1, <2>1, <2>3 DEF Mailing!Reachable
<1>4. Mailing!TypeOK' /\ Mailing!MailedOnce'
    BY <1>1, <1>2 DEF Mailing!IInv, Mailing!TypeOK, Mailing!MailedOnce
<1>5. Mailing!CampaignIsTrue'
    BY <1>1 DEF Mailing!IInv, Mailing!CampaignIsTrue, Mailing!Counts, Mailing!CountOf
<1>6. \A o \in Actors : Mailing!Progress(o)' /\ Mailing!CountsAreReal(o)'
    BY <1>1, OthersProgress
<1>7. Mailing!RowsAreHeld'
    BY <1>1, <1>3 DEF Mailing!IInv, Mailing!RowsAreHeld
<1>8. Mailing!MailsAreKnown' /\ Mailing!OneByOne' /\ Mailing!NothingBefore'
    BY <1>1
       DEF Mailing!IInv, Mailing!MailsAreKnown, Mailing!OneByOne, Mailing!NothingBefore,
           Mailing!ToMail, Mailing!Unsent, Mailing!Live
<1>9. Mailing!MailsAreCounted'
    BY <1>1 DEF Mailing!IInv, Mailing!MailsAreCounted, Mailing!Mailers, Mailing!ToMail, Mailing!Unsent
<1> QED
    BY <1>1, <1>4, <1>5, <1>6, <1>7, <1>8, <1>9 DEF Mailing!IInv

LEMMA CampMaterializes ==
    ASSUME Mailing!Bounds, Mailing!IInv, NEW o \in Actors, Mailing!Materialize(o)
    PROVE  Mailing!IInv'
<1> DEFINE new == [a \in Mailboxes |-> IF a \in Mailing!Locks(o) /\ x4[a] = "none" THEN "pending" ELSE "none"]
           all == [a \in Mailboxes |-> IF new[a] # "none" THEN new[a] ELSE x4[a]]
<1>1. /\ x5[o].step = "idle" /\ x3.status # "none" /\ x11 < MaxSendings /\ x11' = x11 + 1
      /\ \A a \in Mailing!Reachable : x6[a] = Nobody
      /\ UNCHANGED <<x1, x2, x3, x4, x7, x8, x9, x10>>
      /\ Mailing!Locks(o) = Mailing!Reachable /\ Mailing!Reachable' = Mailing!Reachable
    BY DEF Mailing!Materialize, Mailing!Locks, Mailing!Reachable
<1>2. x11 \in 0..MaxSendings /\ x11' \in 0..MaxSendings /\ x11 \in Nat
    BY <1>1 DEF Mailing!IInv, Mailing!Bounds
<1>3. \A a \in Mailboxes : x8[a] \in Nat /\ x4[a] \in Mailing!Statuses
    BY DEF Mailing!IInv, Mailing!TypeOK, Mailing!Statuses
<1>4. CASE UNCHANGED <<x5, x6>>
    <2>1. Mailing!TypeOK' /\ Mailing!MailedOnce'
        BY <1>1, <1>4 DEF Mailing!IInv, Mailing!TypeOK, Mailing!MailedOnce
    <2>2. /\ Mailing!CampaignIsTrue' /\ Mailing!RowsAreHeld' /\ Mailing!MailsAreKnown'
          /\ Mailing!OneByOne' /\ Mailing!NothingBefore'
        BY <1>1, <1>4
           DEF Mailing!IInv, Mailing!CampaignIsTrue, Mailing!Counts, Mailing!CountOf,
               Mailing!RowsAreHeld, Mailing!MailsAreKnown, Mailing!OneByOne, Mailing!NothingBefore,
                          Mailing!ToMail, Mailing!Unsent, Mailing!Live
    <2>3. \A p \in Actors : Mailing!Progress(p)' /\ Mailing!CountsAreReal(p)'
        BY <1>1, <1>4, OthersProgress
    <2>4. \A a \in Mailboxes : Mailing!Mailers(a)' = Mailing!Mailers(a)
        BY <1>4 DEF Mailing!Mailers, Mailing!ToMail, Mailing!Unsent
    <2>5. Mailing!MailsAreCounted'
        <3> SUFFICES ASSUME NEW a \in Mailboxes
                     PROVE  IsFiniteSet(Mailing!Mailers(a)) /\ x8[a] + Cardinality(Mailing!Mailers(a)) <= x11'
            BY CampCounts, <1>1, <2>4 DEF Mailing!MailsAreCounted
        <3>1. IsFiniteSet(Mailing!Mailers(a)) /\ x8[a] + Cardinality(Mailing!Mailers(a)) <= x11
            BY CampCounts DEF Mailing!IInv, Mailing!MailsAreCounted
        <3>2. Mailing!Mailers(a) \in SUBSET (Mailing!Mailers(a) \cup {o})
            OBVIOUS
        <3> QED
            BY <1>1, <1>2, <1>3, <3>1, <3>2, MailersGrow
    <2> QED
        BY <1>2, <1>4, <2>1, <2>2, <2>3, <2>5 DEF Mailing!IInv
<1>5. CASE /\ x2 # {} /\ all # Mailing!NoRows
           /\ x5' = [x5 EXCEPT ![o] = [Mailing!Idle EXCEPT !.step = "written", !.read = all, !.wrote = new]]
           /\ x6' = [a \in Mailboxes |-> IF a \in Mailing!Locks(o) THEN o ELSE x6[a]]
    <2>1. /\ new \in [Mailboxes -> Mailing!Statuses] /\ all \in [Mailboxes -> Mailing!Statuses]
          /\ \A a \in Mailboxes :
                /\ new[a] = IF a \in Mailing!Reachable /\ x4[a] = "none" THEN "pending" ELSE "none"
                /\ all[a] = IF a \in Mailing!Reachable /\ x4[a] = "none" THEN "pending" ELSE x4[a]
        BY <1>1, <1>3 DEF Mailing!Statuses
    <2>2. \E a \in Mailboxes : all[a] # "none"
        BY <1>5 DEF Mailing!NoRows
    <2> HIDE DEF new, all
    <2>3. /\ x5'[o].step = "written" /\ x5'[o].read = all /\ x5'[o].wrote = new
          /\ x5'[o].left = {} /\ x5'[o].out = {} /\ x5'[o].now = Nobody
          /\ x5'[o] \in Mailing!Sendings
          /\ \A p \in Actors \ {o} : x5'[p] = x5[p]
          /\ x5' \in [Actors -> Mailing!Sendings]
        <3> DEFINE s == [Mailing!Idle EXCEPT !.step = "written", !.read = all, !.wrote = new]
        <3>1. /\ s.step = "written" /\ s.read = all /\ s.wrote = new
              /\ s.left = {} /\ s.out = {} /\ s.now = Nobody /\ s \in Mailing!Sendings
            BY <2>1 DEF Mailing!Idle, Mailing!Sendings
        <3> HIDE DEF s
        <3>2. x5' = [x5 EXCEPT ![o] = s]
            BY <1>5 DEF s
        <3> QED
            BY <3>1, <3>2 DEF Mailing!IInv
    <2>4. /\ x6' \in [Mailboxes -> Actors \cup {Nobody}]
          /\ \A a \in Mailboxes : x6'[a] = IF a \in Mailing!Reachable THEN o ELSE x6[a]
        BY <1>1, <1>5 DEF Mailing!IInv
    <2>5. x5[o] = Mailing!Idle
        BY <1>1 DEF Mailing!IInv, Mailing!Progress
    <2>6. Mailing!TypeOK'
        <3>1. ASSUME NEW p \in Actors
              PROVE  /\ x5'[p].step \in {"mailing", "recording"} <=> x7 = p
                     /\ \A a \in Mailboxes : x5'[p].wrote[a] # "none" => x6'[a] = p
            <4>1. CASE p = o
                BY <1>1, <2>1, <2>3, <2>4, <4>1 DEF Mailing!IInv, Mailing!TypeOK
            <4>2. CASE p # o
                BY <1>1, <2>3, <2>4, <4>2 DEF Mailing!IInv, Mailing!TypeOK, Mailing!Bounds
            <4> QED
                BY <4>1, <4>2
        <3> QED
            BY <1>1, <3>1 DEF Mailing!IInv, Mailing!TypeOK
    <2>7. Mailing!MailedOnce' /\ Mailing!CampaignIsTrue'
        BY <1>1
           DEF Mailing!IInv, Mailing!MailedOnce, Mailing!CampaignIsTrue, Mailing!Counts,
               Mailing!CountOf
    <2>8. ASSUME NEW p \in Actors PROVE Mailing!Progress(p)' /\ Mailing!CountsAreReal(p)'
        <3>1. CASE p = o
            BY <2>1, <2>2, <2>3, <3>1
               DEF Mailing!Progress, Mailing!CountsAreReal, Mailing!Live, Mailing!Underway,
                   Mailing!Unsent
        <3>2. CASE p # o
            BY <1>1, <2>3, <3>2, OthersProgress
        <3> QED
            BY <3>1, <3>2
    <2>9. ASSUME NEW p \in Actors, NEW a \in Mailboxes \ x10, x5[p].read[a] # "none"
          PROVE  a \in Mailing!Reachable /\ x6[a] = p /\ FALSE
        BY <1>1, <2>9 DEF Mailing!IInv, Mailing!RowsAreHeld, Mailing!Bounds
    <2>10. \A a \in Mailboxes \ x10 : all[a] # "none" => a \in Mailing!Reachable
        BY <2>1 DEF Mailing!IInv, Mailing!RowsAreHeld
    <2>11. Mailing!RowsAreHeld'
        <3> SUFFICES ASSUME NEW a \in Mailboxes \ x10
                     PROVE  /\ x4[a] # "none" => a \in Mailing!Reachable
                            /\ \A p \in Actors : x5'[p].read[a] # "none" =>
                                  a \in Mailing!Reachable /\ x6'[a] = p /\ x4[a] \in {x5'[p].read[a], "none"}
            BY <1>1 DEF Mailing!RowsAreHeld
        <3>1. x4[a] # "none" => a \in Mailing!Reachable
            BY DEF Mailing!IInv, Mailing!RowsAreHeld
        <3>2. ASSUME NEW p \in Actors, x5'[p].read[a] # "none"
              PROVE  a \in Mailing!Reachable /\ x6'[a] = p /\ x4[a] \in {x5'[p].read[a], "none"}
            <4>1. CASE p = o
                BY <2>1, <2>3, <2>4, <2>10, <3>2, <4>1
            <4>2. CASE p # o
                BY <2>3, <2>9, <3>2, <4>2
            <4> QED
                BY <4>1, <4>2
        <3> QED
            BY <3>1, <3>2
    <2>12. \A p \in Actors : Mailing!ToMail(p)' = IF p = o THEN {a \in Mailboxes : all[a] \notin {"none", "sent"}} ELSE Mailing!ToMail(p)
        BY <2>3 DEF Mailing!ToMail, Mailing!Unsent
    <2>13. Mailing!MailsAreKnown'
        <3> SUFFICES ASSUME NEW a \in Mailboxes \ x10
                     PROVE  /\ x8[a] > x9[a] => x4[a] = "sent" \/ \E p \in Actors : a \in x5'[p].out
                            /\ \A p \in Actors : a \in Mailing!ToMail(p)' => x8[a] <= x9[a]
            BY <1>1 DEF Mailing!MailsAreKnown
        <3>1. ASSUME NEW p \in Actors, a \in x5[p].out PROVE FALSE
            <4>1. x5[p].read[a] # "none"
                BY <3>1 DEF Mailing!IInv, Mailing!Progress, Mailing!Unsent
            <4> QED
                BY <2>9, <4>1
        <3>2. x8[a] > x9[a] => x4[a] = "sent"
            BY <3>1 DEF Mailing!IInv, Mailing!MailsAreKnown
        <3>3. x8[a] \in Nat /\ x9[a] \in Nat
            BY CampLost
        <3>4. all[a] \notin {"none", "sent"} => x8[a] <= x9[a]
            BY <1>3, <2>1, <3>2, <3>3
        <3> QED
            BY <2>12, <3>2, <3>4 DEF Mailing!IInv, Mailing!MailsAreKnown
    <2>14. Mailing!OneByOne'
        <3>1. ASSUME x10 = {}, NEW p \in Actors \ {o} PROVE ~Mailing!Live(p)
            <4>1. \A a \in Mailboxes : x5[p].read[a] = "none"
                BY <2>9, <3>1
            <4> QED
                BY <4>1 DEF Mailing!IInv, Mailing!Progress
        <3>2. \A p \in Actors \ {o} : Mailing!Live(p)' <=> Mailing!Live(p)
            BY <2>3 DEF Mailing!Live
        <3>3. \A a \in Mailboxes : x4[a] # "none" => all[a] = x4[a]
            BY <2>1
        <3> QED
            BY <1>1, <2>3, <3>1, <3>2, <3>3 DEF Mailing!OneByOne
    <2>15. Mailing!NothingBefore'
        BY <1>1 DEF Mailing!NothingBefore
    <2>16. Mailing!MailsAreCounted'
        <3> SUFFICES ASSUME NEW a \in Mailboxes
                     PROVE  IsFiniteSet(Mailing!Mailers(a)') /\ x8[a] + Cardinality(Mailing!Mailers(a)') <= x11 + 1
            BY CampCounts, <1>1 DEF Mailing!MailsAreCounted
        <3>1. IsFiniteSet(Mailing!Mailers(a)) /\ x8[a] + Cardinality(Mailing!Mailers(a)) <= x11
            BY CampCounts DEF Mailing!IInv, Mailing!MailsAreCounted
        <3>2. Mailing!Mailers(a)' \in SUBSET (Mailing!Mailers(a) \cup {o})
            BY <2>12 DEF Mailing!Mailers
        <3> QED
            BY <1>2, <1>3, <3>1, <3>2, MailersGrow
    <2> QED
        BY <1>2, <2>3, <2>4, <2>6, <2>7, <2>8, <2>11, <2>13, <2>14, <2>15, <2>16 DEF Mailing!IInv
<1> QED
    BY <1>4, <1>5 DEF Mailing!Materialize

LEMMA CampAnnounces ==
    ASSUME Mailing!Bounds, Mailing!IInv, NEW o \in Actors, Mailing!Announce(o)
    PROVE  Mailing!IInv'
<1> DEFINE before == Mailing!CountOf(x5[o].read, "sent")
<1>1. /\ x5[o].step = "written" /\ x7 = Nobody /\ x7' = o
      /\ UNCHANGED <<x1, x2, x3, x4, x6, x8, x9, x10, x11>>
    BY DEF Mailing!Announce
<1>2. before \in Nat /\ ((\E a \in Mailboxes : x5[o].read[a] = "sent") => before > 0)
    <2> DEFINE S == {a \in Mailboxes : x5[o].read[a] = "sent"}
    <2>1. IsFiniteSet(S)
        BY CampCounts, FS_Subset DEF Mailing!Bounds
    <2>2. Cardinality(S) \in Nat /\ (S # {} => Cardinality(S) > 0)
        BY <2>1, FS_CardinalityType, FS_EmptySet
    <2>3. before = Cardinality(S)
        BY CampCounts DEF Mailing!CountOf
    <2> QED
        BY <2>2, <2>3
<1> HIDE DEF before
<1>3. /\ x5'[o].step = "mailing" /\ x5'[o].read = x5[o].read /\ x5'[o].wrote = x5[o].wrote
      /\ x5'[o].left = Mailing!Unsent(o) /\ x5'[o].out = x5[o].out /\ x5'[o].now = x5[o].now
      /\ x5'[o].sent = before /\ x5'[o].failed = x5[o].failed
      /\ \A p \in Actors \ {o} : x5'[p] = x5[p]
      /\ x5' \in [Actors -> Mailing!Sendings]
    <2> DEFINE s == [x5[o] EXCEPT !.step = "mailing", !.left = Mailing!Unsent(o), !.sent = before]
    <2>1. /\ s.step = "mailing" /\ s.read = x5[o].read /\ s.wrote = x5[o].wrote
          /\ s.left = Mailing!Unsent(o) /\ s.out = x5[o].out /\ s.now = x5[o].now
          /\ s.sent = before /\ s.failed = x5[o].failed /\ s \in Mailing!Sendings
        <3>1. Mailing!Unsent(o) \in SUBSET Mailboxes /\ x5[o] \in Mailing!Sendings
            BY CampTypes DEF Mailing!Unsent
        <3> QED
            BY <1>2, <3>1 DEF Mailing!Sendings
    <2> HIDE DEF s
    <2>2. x5' = [x5 EXCEPT ![o] = s]
        BY DEF Mailing!Announce, s, before, Mailing!Unsent, Mailing!IInv
    <2> QED
        BY <2>1, <2>2 DEF Mailing!IInv
<1>4. x5[o].left = {} /\ x5[o].out = {} /\ \A a \in Mailboxes : x5[o].wrote[a] \in {"none", "pending"}
    BY <1>1 DEF Mailing!IInv, Mailing!Progress
<1>5. Mailing!TypeOK'
    <2>1. ASSUME NEW p \in Actors
          PROVE  /\ x5'[p].step \in {"mailing", "recording"} <=> x7' = p
                 /\ \A a \in Mailboxes : x5'[p].wrote[a] # "none" => x6[a] = p
        <3>1. CASE p = o
            BY <1>1, <1>3, <3>1 DEF Mailing!IInv, Mailing!TypeOK
        <3>2. CASE p # o
            BY <1>1, <1>3, <3>2 DEF Mailing!IInv, Mailing!TypeOK, Mailing!Bounds
        <3> QED
            BY <3>1, <3>2
    <2> QED
        BY <1>1, <2>1 DEF Mailing!IInv, Mailing!TypeOK
<1>6. Mailing!MailedOnce' /\ Mailing!CampaignIsTrue'
    BY <1>1 DEF Mailing!IInv, Mailing!MailedOnce, Mailing!CampaignIsTrue, Mailing!Counts, Mailing!CountOf
<1>7. ASSUME NEW p \in Actors PROVE Mailing!Progress(p)' /\ Mailing!CountsAreReal(p)'
    <2>1. CASE p = o
        <3>1. Mailing!Unsent(o)' = Mailing!Unsent(o)
            BY <1>3 DEF Mailing!Unsent
        <3>2. Mailing!Progress(o)'
            BY <1>1, <1>3, <1>4, <3>1 DEF Mailing!IInv, Mailing!Progress, Mailing!Live, Mailing!Underway
        <3>3. Mailing!CountsAreReal(o)'
            BY <1>2, <1>3, <1>4 DEF Mailing!CountsAreReal, Mailing!Underway
        <3> QED
            BY <2>1, <3>2, <3>3
    <2>2. CASE p # o
        BY <1>1, <1>3, <2>2, OthersProgress
    <2> QED
        BY <2>1, <2>2
<1>8. \A p \in Actors : /\ Mailing!ToMail(p)' = Mailing!ToMail(p) /\ (Mailing!Live(p)' <=> Mailing!Live(p))
                        /\ x5'[p].read = x5[p].read /\ x5'[p].out = x5[p].out
    BY <1>1, <1>3 DEF Mailing!ToMail, Mailing!Unsent, Mailing!Live
<1>9. Mailing!RowsAreHeld'
    BY <1>1, <1>8 DEF Mailing!IInv, Mailing!RowsAreHeld, Mailing!Reachable
<1>10. Mailing!MailsAreKnown' /\ Mailing!OneByOne' /\ Mailing!NothingBefore'
    BY <1>1, <1>8 DEF Mailing!IInv, Mailing!MailsAreKnown, Mailing!OneByOne, Mailing!NothingBefore
<1>11. Mailing!MailsAreCounted'
    <2>1. \A a \in Mailboxes : Mailing!Mailers(a)' = Mailing!Mailers(a)
        BY <1>8 DEF Mailing!Mailers
    <2> QED
        BY <1>1, <2>1 DEF Mailing!IInv, Mailing!MailsAreCounted
<1> QED
    BY <1>1, <1>3, <1>5, <1>6, <1>7, <1>9, <1>10, <1>11 DEF Mailing!IInv

LEMMA CampMails ==
    ASSUME Mailing!Bounds, Mailing!IInv, NEW o \in Actors, NEW a \in Mailboxes,
           NEW outcome \in {"taken", "unheard", "refused"}, Mailing!Mail(o, a, outcome)
    PROVE  Mailing!IInv'
<1> DEFINE taken == outcome = "taken"
           reached == outcome # "refused"
           unheard == outcome = "unheard"
<1>1. /\ x5[o].step = "mailing" /\ a \in x5[o].left
      /\ x8' = IF reached THEN [x8 EXCEPT ![a] = @ + 1] ELSE x8
      /\ x9' = IF unheard THEN [x9 EXCEPT ![a] = @ + 1] ELSE x9
      /\ UNCHANGED <<x1, x2, x3, x4, x6, x7, x10, x11>>
    BY DEF Mailing!Mail
<1>2. \A b \in Mailboxes : x8[b] \in Nat /\ x9[b] \in Nat
    BY CampLost
<1>3. /\ x5'[o].step = "recording" /\ x5'[o].read = x5[o].read /\ x5'[o].wrote = x5[o].wrote
      /\ x5'[o].left = x5[o].left \ {a} /\ x5'[o].now = a
      /\ x5'[o].out = (IF taken THEN x5[o].out \cup {a} ELSE x5[o].out)
      /\ x5'[o].sent = (IF taken THEN x5[o].sent + 1 ELSE x5[o].sent)
      /\ x5'[o].failed = (IF taken THEN x5[o].failed ELSE x5[o].failed + 1)
      /\ \A p \in Actors \ {o} : x5'[p] = x5[p]
      /\ x5' \in [Actors -> Mailing!Sendings]
    <2> DEFINE s == [x5[o] EXCEPT !.step = "recording", !.left = @ \ {a}, !.now = a,
                         !.sent = IF taken THEN @ + 1 ELSE @,
                         !.failed = IF taken THEN @ ELSE @ + 1,
                         !.out = IF taken THEN @ \cup {a} ELSE @]
    <2>1. /\ s.step = "recording" /\ s.read = x5[o].read /\ s.wrote = x5[o].wrote
          /\ s.left = x5[o].left \ {a} /\ s.now = a
          /\ s.out = (IF taken THEN x5[o].out \cup {a} ELSE x5[o].out)
          /\ s.sent = (IF taken THEN x5[o].sent + 1 ELSE x5[o].sent)
          /\ s.failed = (IF taken THEN x5[o].failed ELSE x5[o].failed + 1)
        BY CampTypes DEF Mailing!Sendings
    <2>2. s \in Mailing!Sendings
        <3>1. /\ x5[o].left \ {a} \subseteq Mailboxes /\ x5[o].out \cup {a} \subseteq Mailboxes
              /\ x5[o].sent + 1 \in Nat /\ x5[o].failed + 1 \in Nat
              /\ x5[o].sent \in Nat /\ x5[o].failed \in Nat /\ x5[o].out \subseteq Mailboxes
              /\ x5[o] \in Mailing!Sendings
            BY CampTypes
        <3>2. \A r \in Mailing!Sendings, unsent, out \in SUBSET Mailboxes, sent, failed \in Nat :
                 [r EXCEPT !.step = "recording", !.left = unsent, !.now = a, !.sent = sent,
                           !.failed = failed, !.out = out] \in Mailing!Sendings
            BY DEF Mailing!Sendings
        <3> QED
            BY <3>1, <3>2
    <2> HIDE DEF s
    <2>3. x5' = [x5 EXCEPT ![o] = s]
        BY DEF Mailing!Mail, s, Mailing!IInv
    <2> QED
        BY <2>1, <2>2, <2>3 DEF Mailing!IInv
<1>4. /\ \A b \in Mailboxes : x8'[b] = IF reached /\ b = a THEN x8[b] + 1 ELSE x8[b]
      /\ \A b \in Mailboxes : x9'[b] = IF unheard /\ b = a THEN x9[b] + 1 ELSE x9[b]
      /\ x8' \in [Mailboxes -> Nat] /\ x9' \in [Mailboxes -> Nat]
    BY <1>1 DEF Mailing!IInv, Mailing!TypeOK
<1>5. /\ a \in Mailing!Unsent(o) /\ a \notin x5[o].out /\ x5[o].sent \in Nat /\ x5[o].failed \in Nat
      /\ Mailing!Unsent(o)' = Mailing!Unsent(o)
    BY <1>1, <1>3, CampTypes DEF Mailing!IInv, Mailing!Progress, Mailing!Unsent
<1>6. /\ \A p \in Actors : Mailing!ToMail(p)' = IF p = o THEN Mailing!ToMail(p) \ {a} ELSE Mailing!ToMail(p)
      /\ a \in Mailing!ToMail(o)
    BY <1>1, <1>3 DEF Mailing!ToMail, Mailing!Unsent
<1>7. Mailing!MailsAreCounted'
    <2> SUFFICES ASSUME NEW b \in Mailboxes
                 PROVE  IsFiniteSet(Mailing!Mailers(b)') /\ x8'[b] + Cardinality(Mailing!Mailers(b)') <= x11
        BY CampCounts, <1>1 DEF Mailing!MailsAreCounted
    <2>1. IsFiniteSet(Mailing!Mailers(b)) /\ x8[b] + Cardinality(Mailing!Mailers(b)) <= x11 /\ x11 \in Nat
        BY CampCounts DEF Mailing!IInv, Mailing!MailsAreCounted, Mailing!Bounds
    <2>2. Mailing!Mailers(b)' = IF b = a THEN Mailing!Mailers(b) \ {o} ELSE Mailing!Mailers(b)
        BY <1>6 DEF Mailing!Mailers
    <2>3. CASE b = a /\ reached
        <3>1. o \in Mailing!Mailers(b)
            BY <1>6, <2>3 DEF Mailing!Mailers
        <3> QED
            BY <1>2, <1>4, <2>1, <2>2, <2>3, <3>1, MailerMails
    <2>4. CASE ~(b = a /\ reached)
        <3>1. Mailing!Mailers(b)' \in SUBSET Mailing!Mailers(b) /\ x8'[b] = x8[b]
            BY <1>4, <2>2, <2>4
        <3> QED
            BY <1>2, <2>1, <3>1, MailersShrink
    <2> QED
        BY <2>3, <2>4
<1>8. Mailing!TypeOK'
    <2>1. x11' \in 0..MaxSendings /\ \A b \in Mailboxes : x8'[b] \in Nat
        BY <1>1, <1>4 DEF Mailing!IInv
    <2>2. \A b \in Mailboxes : x8'[b] \in 0..MaxSendings
        <3> TAKE b \in Mailboxes
        <3>1. IsFiniteSet(Mailing!Mailers(b)') /\ x8'[b] + Cardinality(Mailing!Mailers(b)') <= x11'
            BY CampCounts, <1>7 DEF Mailing!MailsAreCounted
        <3>2. Cardinality(Mailing!Mailers(b)') \in Nat
            BY <3>1, FS_CardinalityType
        <3> QED
            BY <2>1, <3>1, <3>2 DEF Mailing!Bounds
    <2>3. ASSUME NEW p \in Actors
          PROVE  /\ x5'[p].step \in {"mailing", "recording"} <=> x7 = p
                 /\ \A b \in Mailboxes : x5'[p].wrote[b] # "none" => x6[b] = p
        <3>1. (x5'[p].step \in {"mailing", "recording"} <=> x5[p].step \in {"mailing", "recording"})
              /\ x5'[p].wrote = x5[p].wrote
            BY <1>1, <1>3
        <3> QED
            BY <3>1 DEF Mailing!IInv, Mailing!TypeOK
    <2>4. x8' \in [Mailboxes -> 0..MaxSendings]
        BY <1>4, <2>2
    <2> QED
        BY <1>1, <1>4, <2>3, <2>4 DEF Mailing!IInv, Mailing!TypeOK
<1>9. \A b \in Mailboxes \ x10 : b \in Mailing!ToMail(o) => x8[b] <= x9[b]
    BY DEF Mailing!IInv, Mailing!MailsAreKnown
<1>10. Mailing!MailedOnce'
    <2> SUFFICES ASSUME NEW b \in Mailboxes \ x10 PROVE x8'[b] <= x9'[b] + 1
        BY <1>1 DEF Mailing!MailedOnce
    <2>1. x8[b] <= x9[b] + 1
        BY DEF Mailing!IInv, Mailing!MailedOnce
    <2> QED
        BY <1>2, <1>4, <1>6, <1>9, <2>1
<1>11. Mailing!CampaignIsTrue'
    <2>1. \A b \in Mailboxes : x8[b] > 0 => x8'[b] > 0
        BY <1>2, <1>4
    <2> QED
        BY <1>1, <2>1 DEF Mailing!IInv, Mailing!CampaignIsTrue, Mailing!Counts, Mailing!CountOf
<1>12. ASSUME NEW p \in Actors PROVE Mailing!Progress(p)' /\ Mailing!CountsAreReal(p)'
    <2>1. \A b \in Mailboxes : x8[b] > 0 => x8'[b] > 0
        BY <1>2, <1>4
    <2>2. CASE p = o
        <3>1. Mailing!Progress(o) /\ Mailing!CountsAreReal(o)
            BY DEF Mailing!IInv
        <3>2. taken => x8'[a] > 0
            BY <1>2, <1>4
        <3>3. Mailing!Progress(o)'
            <4>1. /\ x5'[o].step = "recording" => x5'[o].now \in Mailing!Unsent(o) \ x5'[o].left
                  /\ \E b \in Mailboxes : x5'[o].read[b] # "none"
                  /\ x5'[o].left \subseteq Mailing!Unsent(o) \ x5'[o].out
                BY <1>1, <1>3, <1>5, <3>1 DEF Mailing!Progress, Mailing!Live
            <4>2. \A b \in x5'[o].out :
                     b \in Mailing!Unsent(o) /\ x8'[b] > 0 /\ (x5'[o].wrote[b] = "sent" \/ b = a)
                <5>1. \A b \in x5[o].out : b \in Mailing!Unsent(o) /\ x8[b] > 0 /\ b \in Mailboxes
                                                 /\ x5[o].wrote[b] = "sent"
                    BY <1>1, <3>1, CampTypes DEF Mailing!Progress
                <5> QED
                    BY <1>3, <1>5, <2>1, <3>2, <5>1
            <4>3. \A b \in Mailboxes :
                     /\ x5'[o].wrote[b] # "none" => b \in Mailing!Unsent(o)
                     /\ x5'[o].wrote[b] = "sent" => b \in x5'[o].out
                     /\ b \in Mailing!Unsent(o) => b \in x5'[o].left \/ b = a \/ x5'[o].wrote[b] \in {"sent", "failed"}
                BY <1>1, <1>3, <3>1 DEF Mailing!Progress, Mailing!Underway
            <4> QED
                BY <1>3, <1>5, <4>1, <4>2, <4>3 DEF Mailing!Progress, Mailing!Live, Mailing!Underway
        <3>4. Mailing!CountsAreReal(o)'
            BY <1>1, <1>3, <1>5, <3>1 DEF Mailing!CountsAreReal, Mailing!Underway
        <3> QED
            BY <2>2, <3>3, <3>4
    <2>3. CASE p # o
        BY <1>3, <2>1, <2>3, OthersProgress
    <2> QED
        BY <2>2, <2>3
<1>13. \A p \in Actors : (Mailing!Live(p)' <=> Mailing!Live(p)) /\ x5'[p].read = x5[p].read
    BY <1>1, <1>3 DEF Mailing!Live
<1>14. Mailing!RowsAreHeld'
    BY <1>1, <1>13 DEF Mailing!IInv, Mailing!RowsAreHeld, Mailing!Reachable
<1>15. Mailing!MailsAreKnown'
    <2> SUFFICES ASSUME NEW b \in Mailboxes \ x10
                 PROVE  /\ x8'[b] > x9'[b] => x4[b] = "sent" \/ \E p \in Actors : b \in x5'[p].out
                        /\ \A p \in Actors : b \in Mailing!ToMail(p)' => x8'[b] <= x9'[b]
        BY <1>1 DEF Mailing!MailsAreKnown
    <2>1. \A p \in Actors : x5[p].out \subseteq x5'[p].out
        BY <1>3
    <2>2. CASE taken /\ b = a
        <3>1. \A p \in Actors \ {o} : b \notin Mailing!ToMail(p)
            <4> SUFFICES ASSUME NEW p \in Actors \ {o}, b \in Mailing!ToMail(p) PROVE FALSE
                OBVIOUS
            <4>1. x5[p].read[b] # "none"
                BY DEF Mailing!IInv, Mailing!Progress, Mailing!ToMail, Mailing!Unsent
            <4>2. x5[o].read[b] # "none"
                BY <1>5, <2>2 DEF Mailing!Unsent
            <4> QED
                BY <4>1, <4>2 DEF Mailing!IInv, Mailing!RowsAreHeld
        <3> QED
            BY <1>3, <1>6, <2>2, <3>1
    <2>3. CASE ~(taken /\ b = a)
        <3>1. (x8'[b] > x9'[b]) <=> (x8[b] > x9[b])
            BY <1>2, <1>4, <2>3
        <3>2. x8'[b] <= x9'[b] <=> ~(x8'[b] > x9'[b])
            BY <1>2, <1>4
        <3>3. \A p \in Actors : b \in Mailing!ToMail(p) => ~(x8[b] > x9[b])
            BY <1>2 DEF Mailing!IInv, Mailing!MailsAreKnown
        <3>4. x8[b] > x9[b] => x4[b] = "sent" \/ \E p \in Actors : b \in x5[p].out
            BY DEF Mailing!IInv, Mailing!MailsAreKnown
        <3> QED
            BY <1>6, <2>1, <3>1, <3>2, <3>3, <3>4
    <2> QED
        BY <2>2, <2>3
<1>16. Mailing!OneByOne' /\ Mailing!NothingBefore'
    BY <1>1, <1>13 DEF Mailing!IInv, Mailing!OneByOne, Mailing!NothingBefore
<1> QED
    BY <1>1, <1>3, <1>7, <1>8, <1>10, <1>11, <1>12, <1>14, <1>15, <1>16 DEF Mailing!IInv

LEMMA CampRecords ==
    ASSUME Mailing!Bounds, Mailing!IInv, NEW o \in Actors, Mailing!Record(o)
    PROVE  Mailing!IInv'
<1> DEFINE a == x5[o].now
           mark == IF a \in x5[o].out THEN "sent" ELSE "failed"
<1>1. /\ x5[o].step = "recording" /\ x6[a] \in {Nobody, o} /\ x6' = [x6 EXCEPT ![a] = o]
      /\ UNCHANGED <<x1, x2, x3, x4, x7, x8, x9, x10, x11>>
    BY DEF Mailing!Record
<1>2. /\ a \in Mailboxes /\ a \in Mailing!Unsent(o) \ x5[o].left
      /\ mark \in Mailing!Statuses \ {"none", "pending"}
    BY <1>1 DEF Mailing!IInv, Mailing!Progress, Mailing!Unsent, Mailing!Statuses
<1>3. /\ x5'[o].step = "mailing" /\ x5'[o].read = x5[o].read
      /\ x5'[o].wrote = [x5[o].wrote EXCEPT ![a] = mark]
      /\ x5'[o].left = x5[o].left /\ x5'[o].now = Nobody /\ x5'[o].out = x5[o].out
      /\ x5'[o].sent = x5[o].sent /\ x5'[o].failed = x5[o].failed
      /\ \A p \in Actors \ {o} : x5'[p] = x5[p]
      /\ x5' \in [Actors -> Mailing!Sendings]
    <2> DEFINE s == [x5[o] EXCEPT !.step = "mailing", !.now = Nobody, !.wrote[a] = mark]
    <2>1. /\ s.step = "mailing" /\ s.read = x5[o].read
          /\ s.wrote = [x5[o].wrote EXCEPT ![a] = mark]
          /\ s.left = x5[o].left /\ s.now = Nobody /\ s.out = x5[o].out
          /\ s.sent = x5[o].sent /\ s.failed = x5[o].failed /\ s \in Mailing!Sendings
        BY <1>2, CampTypes DEF Mailing!Sendings
    <2> HIDE DEF s
    <2>2. x5' = [x5 EXCEPT ![o] = s]
        BY DEF Mailing!Record, s, Mailing!IInv
    <2> QED
        BY <2>1, <2>2 DEF Mailing!IInv
<1> HIDE DEF a
<1>4. \A b \in Mailboxes : x5'[o].wrote[b] = IF b = a THEN mark ELSE x5[o].wrote[b]
    BY <1>2, <1>3, CampTypes
<1>5. /\ x6' \in [Mailboxes -> Actors \cup {Nobody}]
      /\ \A b \in Mailboxes : x6'[b] = IF b = a THEN o ELSE x6[b]
    BY <1>1, <1>2 DEF Mailing!IInv
<1>6. Mailing!TypeOK'
    <2>1. ASSUME NEW p \in Actors
          PROVE  /\ x5'[p].step \in {"mailing", "recording"} <=> x7 = p
                 /\ \A b \in Mailboxes : x5'[p].wrote[b] # "none" => x6'[b] = p
        <3>1. x5'[p].step \in {"mailing", "recording"} <=> x5[p].step \in {"mailing", "recording"}
            BY <1>1, <1>3
        <3>2. ASSUME NEW b \in Mailboxes, x5'[p].wrote[b] # "none" PROVE x6'[b] = p
            <4>1. CASE p = o
                BY <1>4, <1>5, <3>2, <4>1 DEF Mailing!IInv, Mailing!TypeOK
            <4>2. CASE p # o
                <5>1. x6[b] = p
                    BY <1>3, <3>2, <4>2 DEF Mailing!IInv, Mailing!TypeOK
                <5> QED
                    BY <1>1, <1>5, <4>2, <5>1 DEF Mailing!Bounds
            <4> QED
                BY <4>1, <4>2
        <3> QED
            BY <3>1, <3>2 DEF Mailing!IInv, Mailing!TypeOK
    <2> QED
        BY <1>1, <2>1 DEF Mailing!IInv, Mailing!TypeOK
<1>7. Mailing!MailedOnce' /\ Mailing!CampaignIsTrue'
    BY <1>1 DEF Mailing!IInv, Mailing!MailedOnce, Mailing!CampaignIsTrue, Mailing!Counts, Mailing!CountOf
<1>8. Mailing!Unsent(o)' = Mailing!Unsent(o)
    BY <1>3 DEF Mailing!Unsent
<1>9. ASSUME NEW p \in Actors PROVE Mailing!Progress(p)' /\ Mailing!CountsAreReal(p)'
    <2>1. CASE p = o
        <3>1. Mailing!Progress(o) /\ Mailing!CountsAreReal(o)
            BY DEF Mailing!IInv
        <3>2. Mailing!Progress(o)'
            <4>1. /\ \E b \in Mailboxes : x5'[o].read[b] # "none"
                  /\ x5'[o].left \subseteq Mailing!Unsent(o) \ x5'[o].out
                BY <1>1, <1>3, <3>1 DEF Mailing!Progress, Mailing!Live
            <4>2. \A b \in x5'[o].out : b \in Mailing!Unsent(o) /\ x8[b] > 0 /\ x5'[o].wrote[b] = "sent"
                BY <1>1, <1>3, <1>4, <3>1, CampTypes DEF Mailing!Progress, a
            <4>3. ASSUME NEW b \in Mailboxes
                  PROVE  /\ x5'[o].wrote[b] # "none" => b \in Mailing!Unsent(o)
                         /\ x5'[o].wrote[b] = "sent" => b \in x5'[o].out
                         /\ b \in Mailing!Unsent(o) => b \in x5'[o].left \/ x5'[o].wrote[b] \in {"sent", "failed"}
                <5>1. CASE b = a
                    BY <1>2, <1>3, <1>4, <5>1
                <5>2. CASE b # a
                    BY <1>1, <1>3, <1>4, <3>1, <5>2 DEF Mailing!Progress, Mailing!Underway, a
                <5> QED
                    BY <5>1, <5>2
            <4> QED
                BY <1>1, <1>3, <1>8, <4>1, <4>2, <4>3 DEF Mailing!Progress, Mailing!Live, Mailing!Underway
        <3>3. Mailing!CountsAreReal(o)'
            BY <1>1, <1>3, <1>4, <3>1 DEF Mailing!CountsAreReal, Mailing!Underway, a
        <3> QED
            BY <2>1, <3>2, <3>3
    <2>2. CASE p # o
        BY <1>1, <1>3, <2>2, OthersProgress
    <2> QED
        BY <2>1, <2>2
<1>10. \A p \in Actors : /\ Mailing!ToMail(p)' = Mailing!ToMail(p) /\ (Mailing!Live(p)' <=> Mailing!Live(p))
                         /\ x5'[p].read = x5[p].read /\ x5'[p].out = x5[p].out
    BY <1>1, <1>3 DEF Mailing!ToMail, Mailing!Unsent, Mailing!Live
<1>11. Mailing!RowsAreHeld'
    <2> SUFFICES ASSUME NEW b \in Mailboxes \ x10
                 PROVE  /\ x4[b] # "none" => b \in Mailing!Reachable
                        /\ \A p \in Actors : x5[p].read[b] # "none" =>
                              b \in Mailing!Reachable /\ x6'[b] = p /\ x4[b] \in {x5[p].read[b], "none"}
        BY <1>1, <1>10 DEF Mailing!RowsAreHeld, Mailing!Reachable
    <2>1. /\ x4[b] # "none" => b \in Mailing!Reachable
          /\ \A p \in Actors : x5[p].read[b] # "none" =>
                              b \in Mailing!Reachable /\ x6[b] = p /\ x4[b] \in {x5[p].read[b], "none"}
        BY DEF Mailing!IInv, Mailing!RowsAreHeld
    <2>2. b = a => x5[o].read[b] # "none"
        BY <1>2 DEF Mailing!Unsent
    <2> QED
        BY <1>5, <2>1, <2>2
<1>12. Mailing!MailsAreKnown' /\ Mailing!OneByOne' /\ Mailing!NothingBefore'
    BY <1>1, <1>10 DEF Mailing!IInv, Mailing!MailsAreKnown, Mailing!OneByOne, Mailing!NothingBefore
<1>13. Mailing!MailsAreCounted'
    <2>1. \A b \in Mailboxes : Mailing!Mailers(b)' = Mailing!Mailers(b)
        BY <1>10 DEF Mailing!Mailers
    <2> QED
        BY <1>1, <2>1 DEF Mailing!IInv, Mailing!MailsAreCounted
<1> QED
    BY <1>1, <1>3, <1>5, <1>6, <1>7, <1>9, <1>11, <1>12, <1>13 DEF Mailing!IInv

\* The end of a transaction, committed or not: it is idle, and the others have what they had.
LEMMA CampOver ==
    ASSUME Mailing!Bounds, Mailing!IInv, NEW o \in Actors, Mailing!Live(o), Mailing!Over(o), UNCHANGED <<x1, x2, x8, x10, x11>>
    PROVE  /\ x5' \in [Actors -> Mailing!Sendings] /\ x6' \in [Mailboxes -> Actors \cup {Nobody}]
           /\ x5'[o] = Mailing!Idle /\ \A p \in Actors \ {o} : x5'[p] = x5[p]
           /\ \A a \in Mailboxes : x6'[a] = IF x6[a] = o THEN Nobody ELSE x6[a]
           /\ x7' \in Actors \cup {Nobody}
           /\ \A p \in Actors :
                 /\ x5'[p].step \in {"mailing", "recording"} <=> x7' = p
                 /\ \A a \in Mailboxes : x5'[p].wrote[a] # "none" => x6'[a] = p
                 /\ Mailing!Progress(p)' /\ Mailing!CountsAreReal(p)'
           /\ Mailing!MailsAreCounted'
<1>1. /\ x5' \in [Actors -> Mailing!Sendings] /\ x6' \in [Mailboxes -> Actors \cup {Nobody}]
      /\ x5'[o] = Mailing!Idle /\ \A p \in Actors \ {o} : x5'[p] = x5[p]
      /\ \A a \in Mailboxes : x6'[a] = IF x6[a] = o THEN Nobody ELSE x6[a]
      /\ x7' = (IF x7 = o THEN Nobody ELSE x7)
    BY CampIdle DEF Mailing!IInv, Mailing!Over
<1>2. x7' \in Actors \cup {Nobody}
    BY <1>1 DEF Mailing!IInv, Mailing!TypeOK
<1>3. ASSUME NEW p \in Actors
      PROVE  /\ x5'[p].step \in {"mailing", "recording"} <=> x7' = p
             /\ \A a \in Mailboxes : x5'[p].wrote[a] # "none" => x6'[a] = p
             /\ Mailing!Progress(p)' /\ Mailing!CountsAreReal(p)'
    <2>1. CASE p = o
        <3>1. x7' # o
            BY <1>1 DEF Mailing!Bounds
        <3>2. Mailing!Progress(o)' /\ Mailing!CountsAreReal(o)'
            BY <1>1, CampIdle
               DEF Mailing!Progress, Mailing!CountsAreReal, Mailing!Live, Mailing!Underway,
                   Mailing!Unsent
        <3> QED
            BY <1>1, <2>1, <3>1, <3>2, CampIdle
    <2>2. CASE p # o
        <3>1. Mailing!Progress(p)' /\ Mailing!CountsAreReal(p)'
            BY <1>1, <2>2, OthersProgress
        <3>2. x5[p].step \in {"mailing", "recording"} <=> x7 = p
            BY DEF Mailing!IInv, Mailing!TypeOK
        <3>3. \A a \in Mailboxes : x5[p].wrote[a] # "none" => x6[a] = p
            BY DEF Mailing!IInv, Mailing!TypeOK
        <3> QED
            BY <1>1, <2>2, <3>1, <3>2, <3>3 DEF Mailing!Bounds
    <2> QED
        BY <2>1, <2>2
<1>4. Mailing!MailsAreCounted'
    <2> SUFFICES ASSUME NEW a \in Mailboxes
                 PROVE  IsFiniteSet(Mailing!Mailers(a)') /\ x8[a] + Cardinality(Mailing!Mailers(a)') <= x11
        BY CampCounts DEF Mailing!MailsAreCounted
    <2>1. /\ IsFiniteSet(Mailing!Mailers(a)) /\ x8[a] + Cardinality(Mailing!Mailers(a)) <= x11
          /\ x11 \in Nat /\ x8[a] \in Nat
        BY CampCounts DEF Mailing!IInv, Mailing!MailsAreCounted, Mailing!Bounds, Mailing!TypeOK
    <2>2. \A p \in Actors : a \in Mailing!ToMail(p)' => a \in Mailing!ToMail(p)
        BY <1>1, CampIdle DEF Mailing!ToMail, Mailing!Unsent
    <2>3. Mailing!Mailers(a)' \in SUBSET Mailing!Mailers(a)
        BY <2>2 DEF Mailing!Mailers
    <2> QED
        BY <2>1, <2>3, MailersShrink
<1> QED
    BY <1>1, <1>2, <1>3, <1>4

LEMMA CampCrashes ==
    ASSUME Mailing!Bounds, Mailing!IInv, NEW o \in Actors, Mailing!Crash(o)
    PROVE  Mailing!IInv'
<1>1. /\ Mailing!Live(o) /\ Mailing!Over(o)
      /\ x9' = [a \in Mailboxes |-> IF a \in x5[o].out THEN x9[a] + 1 ELSE x9[a]]
      /\ UNCHANGED <<x1, x2, x3, x4, x8, x10, x11>>
    BY DEF Mailing!Crash, Mailing!Live
<1>2. /\ x5' \in [Actors -> Mailing!Sendings] /\ x6' \in [Mailboxes -> Actors \cup {Nobody}]
      /\ x5'[o] = Mailing!Idle /\ \A p \in Actors \ {o} : x5'[p] = x5[p]
      /\ \A a \in Mailboxes : x6'[a] = IF x6[a] = o THEN Nobody ELSE x6[a]
      /\ x7' \in Actors \cup {Nobody}
    BY <1>1, CampOver
<1>3. /\ \A p \in Actors :
            /\ x5'[p].step \in {"mailing", "recording"} <=> x7' = p
            /\ \A a \in Mailboxes : x5'[p].wrote[a] # "none" => x6'[a] = p
            /\ Mailing!Progress(p)' /\ Mailing!CountsAreReal(p)'
      /\ Mailing!MailsAreCounted'
    BY <1>1, CampOver
<1>4. /\ x9' \in [Mailboxes -> Nat]
      /\ \A a \in Mailboxes : /\ x8[a] \in Nat /\ x9[a] \in Nat /\ x9'[a] \in Nat /\ x9[a] <= x9'[a]
                              /\ a \in x5[o].out => x9'[a] = x9[a] + 1
                              /\ a \notin x5[o].out => x9'[a] = x9[a]
    BY <1>1, CampLost
<1>5. Mailing!TypeOK'
    BY <1>1, <1>2, <1>3, <1>4 DEF Mailing!IInv, Mailing!TypeOK
<1>6. Mailing!MailedOnce' /\ Mailing!CampaignIsTrue'
    <2>1. Mailing!MailedOnce'
        BY <1>1, <1>4 DEF Mailing!IInv, Mailing!MailedOnce
    <2>2. Mailing!CampaignIsTrue'
        BY <1>1 DEF Mailing!IInv, Mailing!CampaignIsTrue, Mailing!Counts, Mailing!CountOf
    <2> QED
        BY <2>1, <2>2
<1>7. Mailing!RowsAreHeld'
    <2> SUFFICES ASSUME NEW a \in Mailboxes \ x10
                 PROVE  /\ x4[a] # "none" => a \in Mailing!Reachable
                        /\ \A p \in Actors : x5'[p].read[a] # "none" =>
                              a \in Mailing!Reachable /\ x6'[a] = p /\ x4[a] \in {x5'[p].read[a], "none"}
        BY <1>1 DEF Mailing!RowsAreHeld, Mailing!Reachable
    <2>1. x4[a] # "none" => a \in Mailing!Reachable
        BY DEF Mailing!IInv, Mailing!RowsAreHeld
    <2>2. ASSUME NEW p \in Actors, x5'[p].read[a] # "none"
          PROVE  a \in Mailing!Reachable /\ x6'[a] = p /\ x4[a] \in {x5'[p].read[a], "none"}
        <3>1. p # o /\ x5'[p] = x5[p]
            BY <1>2, <2>2, CampIdle
        <3> QED
            BY <1>2, <2>2, <3>1 DEF Mailing!IInv, Mailing!RowsAreHeld
    <2> QED
        BY <2>1, <2>2
<1>8. \A p \in Actors : \A a \in Mailboxes : a \in Mailing!ToMail(p)' => a \in Mailing!ToMail(p)
    BY <1>2, CampIdle DEF Mailing!ToMail, Mailing!Unsent
<1>9. Mailing!MailsAreKnown'
    <2> SUFFICES ASSUME NEW a \in Mailboxes \ x10
                 PROVE  /\ x8[a] > x9'[a] => x4[a] = "sent" \/ \E p \in Actors : a \in x5'[p].out
                        /\ \A p \in Actors : a \in Mailing!ToMail(p)' => x8[a] <= x9'[a]
        BY <1>1 DEF Mailing!MailsAreKnown
    <2>1. /\ x8[a] <= x9[a] + 1
          /\ x8[a] > x9[a] => x4[a] = "sent" \/ \E p \in Actors : a \in x5[p].out
          /\ \A p \in Actors : a \in Mailing!ToMail(p) => x8[a] <= x9[a]
        BY DEF Mailing!IInv, Mailing!MailedOnce, Mailing!MailsAreKnown
    <2>2. x8[a] > x9'[a] => a \notin x5[o].out /\ x8[a] > x9[a]
        BY <1>4, <2>1
    <2>3. x8[a] <= x9[a] => x8[a] <= x9'[a]
        BY <1>4
    <2> QED
        BY <1>2, <1>8, <2>1, <2>2, <2>3
<1>10. \A p \in Actors : Mailing!Live(p)' => p # o /\ Mailing!Live(p) /\ x5'[p] = x5[p]
    BY <1>2, CampIdle DEF Mailing!Live
<1>11. Mailing!OneByOne' /\ Mailing!NothingBefore'
    BY <1>1, <1>10 DEF Mailing!IInv, Mailing!OneByOne, Mailing!NothingBefore
<1> QED
    BY <1>1, <1>2, <1>3, <1>5, <1>6, <1>7, <1>9, <1>11 DEF Mailing!IInv

LEMMA CampFinishes ==
    ASSUME Mailing!Bounds, Mailing!IInv, NEW o \in Actors, Mailing!Finish(o)
    PROVE  Mailing!IInv'
<1> DEFINE status == IF x5[o].failed = 0 THEN "sent" ELSE IF x5[o].sent = 0 THEN "failed" ELSE "partial_failed"
           wrote == x5[o].wrote
<1>1. /\ x5[o].step = "mailing" /\ x5[o].left = {} /\ Mailing!Live(o) /\ Mailing!Over(o)
      /\ x3' = Mailing!Counts(status, x4') /\ x4' = Mailing!Seen(o, x4)
      /\ UNCHANGED <<x1, x2, x8, x9, x10, x11>>
    BY DEF Mailing!Finish, Mailing!Live
<1>2. x3'.status = status /\ status \in {"sent", "failed", "partial_failed"}
    BY <1>1 DEF Mailing!Counts
<1>3. /\ x5' \in [Actors -> Mailing!Sendings] /\ x6' \in [Mailboxes -> Actors \cup {Nobody}]
      /\ x5'[o] = Mailing!Idle /\ \A p \in Actors \ {o} : x5'[p] = x5[p]
      /\ \A a \in Mailboxes : x6'[a] = IF x6[a] = o THEN Nobody ELSE x6[a]
      /\ x7' \in Actors \cup {Nobody}
    BY <1>1, CampOver
<1>4. /\ \A p \in Actors :
            /\ x5'[p].step \in {"mailing", "recording"} <=> x7' = p
            /\ \A a \in Mailboxes : x5'[p].wrote[a] # "none" => x6'[a] = p
            /\ Mailing!Progress(p)' /\ Mailing!CountsAreReal(p)'
      /\ Mailing!MailsAreCounted'
    BY <1>1, CampOver
<1>5. /\ x4' \in [Mailboxes -> Mailing!Statuses]
      /\ \A a \in Mailboxes : x4'[a] = IF wrote[a] # "none" THEN wrote[a] ELSE x4[a]
    <2>1. x4 \in [Mailboxes -> Mailing!Statuses] /\ wrote \in [Mailboxes -> Mailing!Statuses]
        BY CampTypes DEF Mailing!IInv, Mailing!TypeOK, Mailing!Statuses
    <2> QED
        BY <1>1, <2>1 DEF Mailing!Seen
<1>6. /\ \A a \in Mailboxes : /\ wrote[a] # "none" => a \in Mailing!Unsent(o)
                              /\ wrote[a] = "sent" => a \in x5[o].out
                              /\ a \in Mailing!Unsent(o) => wrote[a] \in {"sent", "failed"}
      /\ \A a \in x5[o].out : wrote[a] = "sent" /\ x8[a] > 0
    BY <1>1 DEF Mailing!IInv, Mailing!Progress, Mailing!Underway
<1>7. /\ \A a \in Mailboxes : wrote[a] = "failed" => x5[o].failed > 0
      /\ \A a \in Mailboxes : a \in x5[o].out \/ x5[o].read[a] = "sent" => x5[o].sent > 0
    BY <1>1 DEF Mailing!IInv, Mailing!CountsAreReal, Mailing!Underway
<1> HIDE DEF wrote
<1>8. Mailing!TypeOK'
    BY <1>1, <1>2, <1>3, <1>4, <1>5 DEF Mailing!IInv, Mailing!TypeOK, Mailing!Statuses
<1>9. Mailing!MailedOnce'
    BY <1>1 DEF Mailing!IInv, Mailing!MailedOnce
<1>10. ASSUME x10 = {}, NEW a \in Mailboxes, wrote[a] = "none", x4[a] # "none"
       PROVE x4[a] = "sent" /\ x5[o].read[a] = "sent"
    <2>1. x5[o].read[a] = x4[a]
        BY <1>1, <1>10 DEF Mailing!IInv, Mailing!OneByOne
    <2>2. a \notin Mailing!Unsent(o)
        BY <1>6, <1>10
    <2> QED
        BY <1>10, <2>1, <2>2 DEF Mailing!Unsent
<1>11. Mailing!CampaignIsTrue'
    <2>1. \A a \in Mailboxes : x4'[a] = "sent" => x8[a] > 0
        BY <1>5, <1>6 DEF Mailing!IInv, Mailing!CampaignIsTrue
    <2>2. ASSUME x10 = {}, status = "sent" PROVE Mailing!CountOf(x4', "failed") = 0
        <3>1. x5[o].failed = 0
            BY <2>2
        <3>2. \A a \in Mailboxes : x4'[a] # "failed"
            BY <1>5, <1>7, <1>10, <2>2, <3>1
        <3>3. {a \in Mailboxes : x4'[a] = "failed"} = {}
            BY <3>2
        <3> QED
            BY CampCounts, <3>3, FS_EmptySet DEF Mailing!CountOf
    <2>3. ASSUME x10 = {}, status = "failed" PROVE Mailing!CountOf(x4', "sent") = 0
        <3>1. x5[o].sent = 0
            BY <2>3
        <3>2. \A a \in Mailboxes : x4'[a] # "sent"
            BY <1>5, <1>6, <1>7, <1>10, <2>3, <3>1
        <3>3. {a \in Mailboxes : x4'[a] = "sent"} = {}
            BY <3>2
        <3> QED
            BY CampCounts, <3>3, FS_EmptySet DEF Mailing!CountOf
    <2>4. x3' = Mailing!Counts(x3'.status, x4')
        BY <1>1, <1>2
    <2> HIDE DEF status
    <2>5. /\ Mailing!CountOf(x4, "failed")' = Mailing!CountOf(x4', "failed")
          /\ Mailing!CountOf(x4, "sent")' = Mailing!CountOf(x4', "sent")
        BY DEF Mailing!CountOf
    <2>6. Mailing!Counts(x3.status, x4)' = Mailing!Counts(x3'.status, x4')
        BY DEF Mailing!Counts, Mailing!CountOf
    <2> QED
        BY <1>1, <1>2, <2>1, <2>2, <2>3, <2>4, <2>5, <2>6 DEF Mailing!CampaignIsTrue
<1> HIDE DEF status
<1>12. \A a \in Mailboxes \ x10, p \in Actors \ {o} : x5[p].read[a] # "none" => wrote[a] = "none"
    BY <1>6 DEF Mailing!IInv, Mailing!RowsAreHeld, Mailing!Unsent
<1>13. Mailing!RowsAreHeld'
    <2> SUFFICES ASSUME NEW a \in Mailboxes \ x10
                 PROVE  /\ x4'[a] # "none" => a \in Mailing!Reachable
                        /\ \A p \in Actors : x5'[p].read[a] # "none" =>
                              a \in Mailing!Reachable /\ x6'[a] = p /\ x4'[a] \in {x5'[p].read[a], "none"}
        BY <1>1 DEF Mailing!RowsAreHeld, Mailing!Reachable
    <2>1. x4'[a] # "none" => a \in Mailing!Reachable
        BY <1>5, <1>6 DEF Mailing!IInv, Mailing!RowsAreHeld, Mailing!Unsent
    <2>2. ASSUME NEW p \in Actors, x5'[p].read[a] # "none"
          PROVE  a \in Mailing!Reachable /\ x6'[a] = p /\ x4'[a] \in {x5'[p].read[a], "none"}
        <3>1. p # o /\ x5'[p] = x5[p]
            BY <1>3, <2>2, CampIdle
        <3>2. x4'[a] = x4[a]
            BY <1>5, <1>12, <2>2, <3>1
        <3> QED
            BY <1>3, <2>2, <3>1, <3>2 DEF Mailing!IInv, Mailing!RowsAreHeld
    <2> QED
        BY <2>1, <2>2
<1>14. \A p \in Actors : \A a \in Mailboxes : a \in Mailing!ToMail(p)' => a \in Mailing!ToMail(p)
    BY <1>3, CampIdle DEF Mailing!ToMail, Mailing!Unsent
<1>15. Mailing!MailsAreKnown'
    <2> SUFFICES ASSUME NEW a \in Mailboxes \ x10
                 PROVE  /\ x8[a] > x9[a] => x4'[a] = "sent" \/ \E p \in Actors : a \in x5'[p].out
                        /\ \A p \in Actors : a \in Mailing!ToMail(p)' => x8[a] <= x9[a]
        BY <1>1 DEF Mailing!MailsAreKnown
    <2>1. /\ x8[a] > x9[a] => x4[a] = "sent" \/ \E p \in Actors : a \in x5[p].out
          /\ \A p \in Actors : a \in Mailing!ToMail(p) => x8[a] <= x9[a]
        BY DEF Mailing!IInv, Mailing!MailsAreKnown
    <2>2. a \in x5[o].out => x4'[a] = "sent"
        BY <1>5, <1>6
    <2>3. x4[a] = "sent" => x4'[a] = "sent"
        <3>1. wrote[a] # "none" => x4[a] \notin {"sent"}
            BY <1>6 DEF Mailing!IInv, Mailing!RowsAreHeld, Mailing!Unsent
        <3> QED
            BY <1>5, <3>1
    <2> QED
        BY <1>3, <1>14, <2>1, <2>2, <2>3
<1>16. \A p \in Actors : Mailing!Live(p)' => p # o /\ Mailing!Live(p)
    BY <1>3, CampIdle DEF Mailing!Live
<1>17. Mailing!OneByOne'
    BY <1>1, <1>16 DEF Mailing!IInv, Mailing!OneByOne
<1>18. Mailing!NothingBefore'
    BY <1>2 DEF Mailing!NothingBefore
<1> QED
    BY <1>1, <1>3, <1>4, <1>8, <1>9, <1>11, <1>13, <1>15, <1>17, <1>18 DEF Mailing!IInv

LEMMA CampNext == Mailing!Bounds /\ Mailing!IInv /\ [Mailing!Next]_(Mailing!vars) => Mailing!IInv'
<1> SUFFICES ASSUME Mailing!Bounds, Mailing!IInv, [Mailing!Next]_(Mailing!vars) PROVE Mailing!IInv'
    OBVIOUS
<1>1. CASE UNCHANGED Mailing!vars
    <2>1. UNCHANGED <<x1, x2, x3, x4, x5, x6, x7, x8, x9, x10, x11>>
        BY <1>1 DEF Mailing!vars
    <2>2. Mailing!TypeOK' /\ Mailing!MailedOnce' /\ Mailing!CampaignIsTrue'
        BY <2>1
           DEF Mailing!IInv, Mailing!TypeOK, Mailing!MailedOnce, Mailing!CampaignIsTrue,
               Mailing!Counts, Mailing!CountOf
    <2>3. \A o \in Actors : Mailing!Progress(o)' /\ Mailing!CountsAreReal(o)'
        BY <2>1, OthersProgress
    <2>4. Mailing!RowsAreHeld' /\ Mailing!MailsAreKnown' /\ Mailing!OneByOne' /\ Mailing!NothingBefore'
        BY <2>1
           DEF Mailing!IInv, Mailing!RowsAreHeld, Mailing!Reachable, Mailing!MailsAreKnown,
               Mailing!OneByOne, Mailing!NothingBefore, Mailing!ToMail, Mailing!Unsent, Mailing!Live
    <2>5. Mailing!MailsAreCounted'
        BY <2>1 DEF Mailing!IInv, Mailing!MailsAreCounted, Mailing!Mailers, Mailing!ToMail, Mailing!Unsent
    <2> QED
        BY <2>1, <2>2, <2>3, <2>4, <2>5 DEF Mailing!IInv
<1> QED
    BY <1>1, CampCreates, CampMoves, CampMaterializes, CampAnnounces, CampMails, CampRecords,
       CampFinishes, CampCrashes
       DEF Mailing!Next
=============================================================================
