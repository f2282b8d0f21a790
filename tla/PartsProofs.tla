----------------------------- MODULE PartsProofs -----------------------------
(***************************************************************************)
(* Proofs about the parts of Parts: that an inductive invariant holds in   *)
(* the first states of a part, that its steps keep it, and that it implies *)
(* what the part promises.  ServicesProofs puts them together.             *)
(***************************************************************************)
EXTENDS Parts, Induction, SequenceTheorems, TLAPS

-----------------------------------------------------------------------------
(***************************************************************************)
(* Redeem codes.  x1 are the codes, x2 the ledger, x3 the season, x4 and   *)
(* x5 the locks of codes and accounts, x6 and x7 the redemptions, x8 what  *)
(* operators were told.                                                    *)
(*                                                                         *)
(* A redemption that has read its code holds the row of the code until it  *)
(* ends, so what it checked is still true when it writes: that is what     *)
(* CodeHeld says.                                                          *)
(***************************************************************************)
Redeeming == {"lock_code", "check", "lock_account", "write"}
Holding == Redeeming \ {"lock_code"}

\* What a redemption is about; from its check on nobody else changes the code.
CodeHeld ==
    \A h \in Actors :
        /\ x6[h] \in Redeeming => x7[h].user \in Owners /\ x7[h].code \in Things
        /\ x6[h] \in Holding => x4[x7[h].code] = h
        /\ x6[h] \in {"lock_account", "write"} => x1[x7[h].code].status = "active"

\* The user in a row goes with its status, and told with disabled codes.
CodeRows ==
    \A c \in Things :
        /\ x1[c].by # Nobody <=> x1[c].status = "redeemed"
        /\ c \in x8 => x1[c].status = "disabled"

RedeemInv == Redeem!TypeOK /\ CodeHeld /\ CodeRows /\ Redeem!CodePaysOnce /\ Redeem!OneCodePerBatch

\* What the end of a transaction does to the locks.
LEMMA CodeReleased ==
    ASSUME Redeem!NobodyApart, Redeem!TypeOK, NEW h \in Actors, Redeem!Release(h)
    PROVE  /\ x4' \in [Things -> Actors \cup {Nobody}]
           /\ x5' \in [Owners -> Actors \cup {Nobody}]
           /\ x6' = [x6 EXCEPT ![h] = "idle"]
           /\ x7' \in [Actors -> [user : Owners \cup {Nobody}, code : Things \cup {Nobody}]]
           /\ \A g \in Actors \ {h} : x7'[g] = x7[g]
           /\ \A c \in Things, g \in Actors \ {h} : x4[c] = g => x4'[c] = g
BY DEF Redeem!Release, Redeem!Go, Redeem!TypeOK, Redeem!NobodyApart

\* A transaction that ends leaves the others what they hold.
LEMMA ReleaseKeeps ==
    ASSUME Redeem!NobodyApart, Redeem!TypeOK, CodeHeld, NEW h \in Actors, Redeem!Release(h), UNCHANGED x1
    PROVE  CodeHeld'
<1>1. x6' = [x6 EXCEPT ![h] = "idle"] /\ x6 \in [Actors -> {"idle", "lock_code", "check", "lock_account", "write"}]
    BY CodeReleased DEF Redeem!TypeOK
<1> SUFFICES ASSUME NEW g \in Actors, x6'[g] \in Redeeming
             PROVE  /\ x7'[g].user \in Owners /\ x7'[g].code \in Things
                    /\ x6'[g] \in Holding => x4'[x7'[g].code] = g
                    /\ x6'[g] \in {"lock_account", "write"} => x1'[x7'[g].code].status = "active"
    BY <1>1 DEF CodeHeld, Holding, Redeeming
<1>2. g # h /\ x6'[g] = x6[g]
    BY <1>1 DEF Redeeming
<1>3. x7'[g] = x7[g]
    BY <1>2, CodeReleased
<1> QED
    BY <1>2, <1>3, CodeReleased DEF CodeHeld, Holding, Redeeming

LEMMA RedeemInit == Redeem!NobodyApart /\ Redeem!Init => RedeemInv
BY DEF Redeem!NobodyApart, Redeem!Init, RedeemInv, Redeem!TypeOK, CodeHeld, Holding, Redeeming, CodeRows, Redeem!CodePaysOnce, Redeem!OneCodePerBatch, Redeem!Unused

\* Steps that write no code keep what is said of the rows.
LEMMA SameRows ==
    ASSUME RedeemInv, UNCHANGED <<x1, x2, x8>>
    PROVE  CodeRows' /\ Redeem!CodePaysOnce' /\ Redeem!OneCodePerBatch'
BY DEF RedeemInv, CodeRows, Redeem!CodePaysOnce, Redeem!OneCodePerBatch

\* Operators change only codes that no redemption has locked.
LEMMA CreateBatchInv ==
    ASSUME Redeem!NobodyApart, RedeemInv, NEW b \in Batches, Redeem!CreateBatch(b)
    PROVE  RedeemInv'
<1>1. PICK drawn \in SUBSET Things :
            /\ \A c \in drawn : x1[c] = Redeem!Unused
            /\ x1' = [c \in Things |-> IF c \in drawn THEN Redeem!Active(b) ELSE x1[c]]
    BY DEF Redeem!CreateBatch
<1>2. /\ \A c \in Things : x1[c].batch # b
      /\ UNCHANGED <<x2, x3, x4, x5, x6, x7, x8>>
    BY DEF Redeem!CreateBatch
<1>3. \A c \in drawn : x1[c].status = "unused" /\ x1[c].by = Nobody
    BY <1>1 DEF Redeem!Unused
<1>4. /\ \A c \in drawn : x1'[c].status = "active" /\ x1'[c].by = Nobody /\ x1'[c].batch = b
      /\ \A c \in Things \ drawn : x1'[c] = x1[c]
    BY <1>1 DEF Redeem!Active
<1>5. Redeem!TypeOK'
    <2>1. Redeem!Active(b) \in [status : {"unused", "active", "disabled", "redeemed"},
                         batch : Batches \cup {Nobody}, by : Owners \cup {Nobody}]
        BY DEF Redeem!Active
    <2> QED
        BY <1>1, <1>2, <2>1 DEF RedeemInv, Redeem!TypeOK
<1>6. CodeHeld'
    BY <1>2, <1>3, <1>4 DEF RedeemInv, CodeHeld, Holding, Redeeming
<1>7. CodeRows'
    BY <1>2, <1>3, <1>4 DEF RedeemInv, CodeRows
<1>8. Redeem!CodePaysOnce'
    <2> SUFFICES ASSUME NEW d \in Things, NEW v \in Owners
                 PROVE  /\ x2'[<<v, d>>] = (IF x1'[d].status = "redeemed" /\ x1'[d].by = v THEN 1 ELSE 0)
                        /\ d \in x8' => x2'[<<v, d>>] = 0
        BY DEF Redeem!CodePaysOnce
    <2>1. /\ x2[<<v, d>>] = (IF x1[d].status = "redeemed" /\ x1[d].by = v THEN 1 ELSE 0)
          /\ d \in x8 => x2[<<v, d>>] = 0
        BY DEF RedeemInv, Redeem!CodePaysOnce
    <2>2. CASE d \in drawn
        BY <1>2, <1>3, <1>4, <2>1, <2>2
    <2>3. CASE d \notin drawn
        BY <1>2, <1>4, <2>1, <2>3
    <2> QED
        BY <2>2, <2>3
<1>9. Redeem!OneCodePerBatch'
    BY <1>2, <1>3, <1>4 DEF RedeemInv, Redeem!OneCodePerBatch
<1> QED
    BY <1>5, <1>6, <1>7, <1>8, <1>9 DEF RedeemInv

LEMMA DisableInv ==
    ASSUME Redeem!NobodyApart, RedeemInv, NEW c \in Things, Redeem!Disable(c)
    PROVE  RedeemInv'
<1>1. /\ x1[c].status \in {"active", "disabled"} /\ x4[c] = Nobody
      /\ x1' = [x1 EXCEPT ![c].status = "disabled"]
      /\ x8' = x8 \cup {c}
      /\ UNCHANGED <<x2, x3, x4, x5, x6, x7>>
    BY DEF Redeem!Disable
<1>2. /\ x1'[c].status = "disabled" /\ x1'[c].by = x1[c].by /\ x1'[c].batch = x1[c].batch
      /\ \A d \in Things \ {c} : x1'[d] = x1[d]
    BY <1>1 DEF RedeemInv, Redeem!TypeOK
<1>3. x1[c].by = Nobody
    BY <1>1 DEF RedeemInv, CodeRows
<1>4. Redeem!TypeOK'
    <2>1. x1' \in [Things -> [status : {"unused", "active", "disabled", "redeemed"},
                             batch : Batches \cup {Nobody}, by : Owners \cup {Nobody}]]
        <3> DEFINE Row == [status : {"unused", "active", "disabled", "redeemed"},
                           batch : Batches \cup {Nobody}, by : Owners \cup {Nobody}]
        <3>1. x1 \in [Things -> Row]
            BY DEF RedeemInv, Redeem!TypeOK
        <3>2. [x1[c] EXCEPT !.status = "disabled"] \in Row
            BY <3>1
        <3> HIDE DEF Row
        <3>3. x1' \in [Things -> Row]
            BY <1>1, <3>1, <3>2
        <3> QED
            BY <3>3 DEF Row
    <2>2. x8' \subseteq Things
        BY <1>1 DEF RedeemInv, Redeem!TypeOK
    <2> QED
        BY <1>1, <2>1, <2>2 DEF RedeemInv, Redeem!TypeOK
<1>5. CodeHeld'
    <2>1. \A h \in Actors : x6[h] \in Holding => x7[h].code # c
        BY <1>1 DEF RedeemInv, CodeHeld, Redeem!NobodyApart
    <2> QED
        BY <1>1, <1>2, <2>1 DEF RedeemInv, CodeHeld, Holding, Redeeming
<1>6. CodeRows'
    BY <1>1, <1>2, <1>3 DEF RedeemInv, CodeRows
<1>7. Redeem!CodePaysOnce'
    <2> SUFFICES ASSUME NEW d \in Things, NEW v \in Owners
                 PROVE  /\ x2'[<<v, d>>] = (IF x1'[d].status = "redeemed" /\ x1'[d].by = v THEN 1 ELSE 0)
                        /\ d \in x8' => x2'[<<v, d>>] = 0
        BY DEF Redeem!CodePaysOnce
    <2>1. /\ x2[<<v, d>>] = (IF x1[d].status = "redeemed" /\ x1[d].by = v THEN 1 ELSE 0)
          /\ d \in x8 => x2[<<v, d>>] = 0
        BY DEF RedeemInv, Redeem!CodePaysOnce
    <2>2. CASE d = c
        BY <1>1, <1>2, <2>1, <2>2
    <2>3. CASE d # c
        BY <1>1, <1>2, <2>1, <2>3
    <2> QED
        BY <2>2, <2>3
<1>8. Redeem!OneCodePerBatch'
    BY <1>1, <1>2 DEF RedeemInv, Redeem!OneCodePerBatch
<1> QED
    BY <1>4, <1>5, <1>6, <1>7, <1>8 DEF RedeemInv

\* A redemption begins, waits and checks; the rows stay as they are.
LEMMA AdvanceInv ==
    ASSUME Redeem!NobodyApart, RedeemInv, NEW h \in Actors,
           \/ \E u \in Owners, c \in Things : Redeem!Redeem(h, u, c)
           \/ Redeem!LockCode(h) \/ Redeem!Check(h) \/ Redeem!LockAccount(h)
    PROVE  RedeemInv'
<1>1. UNCHANGED <<x1, x2, x8>>
    BY DEF Redeem!Redeem, Redeem!LockCode, Redeem!Check, Redeem!LockAccount
<1>2. Redeem!TypeOK'
    <2>1. CASE \E u \in Owners, c \in Things : Redeem!Redeem(h, u, c)
        BY <2>1 DEF RedeemInv, Redeem!TypeOK, Redeem!Redeem, Redeem!Go
    <2>2. CASE Redeem!LockCode(h)
        BY <2>2 DEF RedeemInv, Redeem!TypeOK, Redeem!LockCode, Redeem!Go
    <2>3. CASE Redeem!Check(h)
        BY <2>3 DEF RedeemInv, Redeem!TypeOK, Redeem!Check, Redeem!Go
    <2>4. CASE Redeem!LockAccount(h)
        BY <2>4 DEF RedeemInv, Redeem!TypeOK, Redeem!LockAccount, Redeem!Go
    <2> QED
        BY <2>1, <2>2, <2>3, <2>4
<1>3. CodeHeld'
    <2>1. CASE \E u \in Owners, c \in Things : Redeem!Redeem(h, u, c)
        BY <2>1 DEF RedeemInv, Redeem!TypeOK, CodeHeld, Holding, Redeeming, Redeem!Redeem, Redeem!Go
    <2>2. CASE Redeem!LockCode(h)
        <3>1. /\ x4[x7[h].code] = Nobody
              /\ x4' = [x4 EXCEPT ![x7[h].code] = h]
              /\ x6[h] = "lock_code" /\ x6' = [x6 EXCEPT ![h] = "check"] /\ UNCHANGED x7
            BY <2>2 DEF Redeem!LockCode, Redeem!Go
        <3>2. x7[h].code \in Things
            BY <3>1 DEF RedeemInv, CodeHeld, Redeeming
        <3>3. \A g \in Actors \ {h} : x6[g] \in Holding => x7[g].code # x7[h].code
            BY <3>1 DEF RedeemInv, CodeHeld, Redeem!NobodyApart
        <3> QED
            BY <1>1, <3>1, <3>2, <3>3 DEF RedeemInv, Redeem!TypeOK, CodeHeld, Holding, Redeeming
    <2>3. CASE Redeem!Check(h)
        BY <2>3 DEF RedeemInv, Redeem!TypeOK, CodeHeld, Holding, Redeeming, Redeem!Check, Redeem!Redeemable, Redeem!Go
    <2>4. CASE Redeem!LockAccount(h)
        BY <2>4 DEF RedeemInv, Redeem!TypeOK, CodeHeld, Holding, Redeeming, Redeem!LockAccount, Redeem!Go
    <2> QED
        BY <2>1, <2>2, <2>3, <2>4
<1> QED
    BY <1>1, <1>2, <1>3, SameRows DEF RedeemInv

\* A redemption that ends without paying.
LEMMA EndInv ==
    ASSUME Redeem!NobodyApart, RedeemInv, NEW h \in Actors, Redeem!Refuse(h) \/ Redeem!RefuseDuplicate(h) \/ Redeem!Abort(h)
    PROVE  RedeemInv'
<1>1. Redeem!Release(h) /\ UNCHANGED <<x1, x2, x3, x8>>
    BY DEF Redeem!Refuse, Redeem!RefuseDuplicate, Redeem!Abort
<1>2. Redeem!TypeOK'
    BY <1>1, CodeReleased DEF RedeemInv, Redeem!TypeOK
<1>3. CodeHeld'
    BY <1>1, ReleaseKeeps DEF RedeemInv
<1> QED
    BY <1>1, <1>2, <1>3, SameRows DEF RedeemInv

\* A redemption pays: its code is active and nobody else holds it.
LEMMA WriteInv ==
    ASSUME Redeem!NobodyApart, RedeemInv, NEW h \in Actors, Redeem!Write(h)
    PROVE  RedeemInv'
<1> DEFINE u == x7[h].user
           c == x7[h].code
<1>1. /\ x6[h] = "write" /\ Redeem!UniqueInBatch(u, c)
      /\ x2' = [x2 EXCEPT ![<<u, c>>] = @ + 1]
      /\ x1' = [x1 EXCEPT ![c].status = "redeemed", ![c].by = u]
      /\ Redeem!Release(h) /\ UNCHANGED <<x3, x8>>
    BY DEF Redeem!Write
<1>2. u \in Owners /\ c \in Things /\ x4[c] = h /\ x1[c].status = "active"
    BY <1>1 DEF RedeemInv, CodeHeld, Holding, Redeeming
<1>3. u # Nobody
    BY <1>2 DEF Redeem!NobodyApart
<1> HIDE DEF u, c
<1>4. /\ x1'[c].status = "redeemed" /\ x1'[c].by = u /\ x1'[c].batch = x1[c].batch
      /\ \A d \in Things \ {c} : x1'[d] = x1[d]
    BY <1>1, <1>2 DEF RedeemInv, Redeem!TypeOK
<1>5. Redeem!TypeOK'
    <2>1. x2' \in [Owners \X Things -> Nat]
        BY <1>1, <1>2 DEF RedeemInv, Redeem!TypeOK
    <2>2. x1' \in [Things -> [status : {"unused", "active", "disabled", "redeemed"},
                                batch : Batches \cup {Nobody}, by : Owners \cup {Nobody}]]
        <3>1. x1' = [x1 EXCEPT ![c] = [x1[c] EXCEPT !.status = "redeemed", !.by = u]]
            BY <1>1, <1>2 DEF RedeemInv, Redeem!TypeOK
        <3>2. [x1[c] EXCEPT !.status = "redeemed", !.by = u]
                 \in [status : {"unused", "active", "disabled", "redeemed"},
                      batch : Batches \cup {Nobody}, by : Owners \cup {Nobody}]
            BY <1>2 DEF RedeemInv, Redeem!TypeOK
        <3> QED
            BY <3>1, <3>2 DEF RedeemInv, Redeem!TypeOK
    <2> QED
        BY <1>1, <2>1, <2>2, CodeReleased DEF RedeemInv, Redeem!TypeOK
<1>6. CodeHeld'
    <2>1. x6' = [x6 EXCEPT ![h] = "idle"] /\ x6 \in [Actors -> {"idle", "lock_code", "check", "lock_account", "write"}]
        BY <1>1, CodeReleased DEF RedeemInv, Redeem!TypeOK
    <2> SUFFICES ASSUME NEW g \in Actors, x6'[g] \in Redeeming
                 PROVE  /\ x7'[g].user \in Owners /\ x7'[g].code \in Things
                        /\ x6'[g] \in Holding => x4'[x7'[g].code] = g
                        /\ x6'[g] \in {"lock_account", "write"} => x1'[x7'[g].code].status = "active"
        BY <2>1 DEF CodeHeld, Holding, Redeeming
    <2>2. g # h /\ x6'[g] = x6[g]
        BY <2>1 DEF Redeeming
    <2>3. x7'[g] = x7[g]
        BY <1>1, <2>2, CodeReleased DEF RedeemInv
    <2>4. x6[g] \in Holding => x4[x7[g].code] = g /\ x7[g].code # c
        BY <1>2, <2>2 DEF RedeemInv, CodeHeld
    <2>5. x6[g] \in Holding => x4'[x7[g].code] = g
        BY <1>1, <2>2, <2>4, CodeReleased DEF RedeemInv, CodeHeld, Holding
    <2> QED
        BY <1>4, <2>2, <2>3, <2>4, <2>5 DEF RedeemInv, CodeHeld, Holding, Redeeming
<1>7. CodeRows'
    BY <1>1, <1>2, <1>3, <1>4 DEF RedeemInv, CodeRows
<1>8. Redeem!CodePaysOnce'
    <2>1. c \notin x8
        BY <1>2 DEF RedeemInv, CodeRows
    <2>2. \A v \in Owners : x2[<<v, c>>] = 0
        BY <1>2 DEF RedeemInv, Redeem!CodePaysOnce
    <2>3. /\ x2'[<<u, c>>] = 1
          /\ \A v \in Owners, d \in Things : <<v, d>> # <<u, c>> => x2'[<<v, d>>] = x2[<<v, d>>]
        BY <1>1, <1>2, <2>2 DEF RedeemInv, Redeem!TypeOK
    <2> SUFFICES ASSUME NEW d \in Things, NEW v \in Owners
                 PROVE  /\ x2'[<<v, d>>] = (IF x1'[d].status = "redeemed" /\ x1'[d].by = v THEN 1 ELSE 0)
                        /\ d \in x8' => x2'[<<v, d>>] = 0
        BY DEF Redeem!CodePaysOnce
    <2>4. CASE d = c
        BY <1>1, <1>4, <2>1, <2>2, <2>3, <2>4
    <2>5. CASE d # c
        <3>1. x2'[<<v, d>>] = x2[<<v, d>>] /\ x1'[d] = x1[d] /\ x8' = x8
            BY <1>1, <1>4, <2>3, <2>5
        <3>2. /\ x2[<<v, d>>] = (IF x1[d].status = "redeemed" /\ x1[d].by = v THEN 1 ELSE 0)
              /\ d \in x8 => x2[<<v, d>>] = 0
            BY DEF RedeemInv, Redeem!CodePaysOnce
        <3> QED
            BY <3>1, <3>2
    <2> QED
        BY <2>4, <2>5
<1>9. Redeem!OneCodePerBatch'
    <2>1. \A d \in Things \ {c} : x1[d].batch = x1[c].batch => x1[d].by # u
        BY <1>1 DEF Redeem!UniqueInBatch, Redeem!OtherOfBatch
    <2> QED
        BY <1>2, <1>3, <1>4, <2>1 DEF RedeemInv, Redeem!OneCodePerBatch
<1> QED
    BY <1>5, <1>6, <1>7, <1>8, <1>9 DEF RedeemInv

LEMMA RedeemNext == Redeem!NobodyApart /\ RedeemInv /\ [Redeem!Next]_(Redeem!vars) => RedeemInv'
<1> SUFFICES ASSUME Redeem!NobodyApart, RedeemInv, [Redeem!Next]_(Redeem!vars) PROVE RedeemInv'
    OBVIOUS
<1>1. CASE UNCHANGED Redeem!vars
    BY <1>1 DEF Redeem!vars, RedeemInv, Redeem!TypeOK, CodeHeld, CodeRows, Redeem!CodePaysOnce, Redeem!OneCodePerBatch
<1>2. CASE Redeem!Tick
    <2>1. Redeem!TypeOK' /\ CodeHeld'
        BY <1>2 DEF Redeem!Tick, RedeemInv, Redeem!TypeOK, CodeHeld
    <2> QED
        BY <1>2, <2>1, SameRows DEF Redeem!Tick, RedeemInv
<1>3. ASSUME NEW b \in Batches, Redeem!CreateBatch(b) PROVE RedeemInv'
    BY <1>3, CreateBatchInv
<1>4. ASSUME NEW c \in Things, Redeem!Disable(c) PROVE RedeemInv'
    BY <1>4, DisableInv
<1>5. ASSUME NEW h \in Actors,
             \/ \E u \in Owners, c \in Things : Redeem!Redeem(h, u, c)
             \/ Redeem!LockCode(h) \/ Redeem!Check(h) \/ Redeem!LockAccount(h)
      PROVE  RedeemInv'
    BY <1>5, AdvanceInv
<1>6. ASSUME NEW h \in Actors, Redeem!Refuse(h) \/ Redeem!RefuseDuplicate(h) \/ Redeem!Abort(h) PROVE RedeemInv'
    BY <1>6, EndInv
<1>7. ASSUME NEW h \in Actors, Redeem!Write(h) PROVE RedeemInv'
    BY <1>7, WriteInv
<1> QED
    BY <1>1, <1>2, <1>3, <1>4, <1>5, <1>6, <1>7 DEF Redeem!Next

LEMMA RedeemSafe == RedeemInv => Redeem!TypeOK /\ Redeem!CodePaysOnce /\ Redeem!OneCodePerBatch
BY DEF RedeemInv

-----------------------------------------------------------------------------
(***************************************************************************)
(* Guests.  x1 is the day, x2 the balance, x3 what is consumed, x4 the     *)
(* resets, x5 what was given beyond the quota, x6 the transaction.         *)
(***************************************************************************)
LEMMA GuestTypes ==
    ASSUME Guest!Bounds, Guest!IInv
    PROVE  /\ x1 \in Nat /\ x1 \in Guest!Days /\ Quota \in Nat /\ -1 \notin Nat
           /\ x2 \in Nat /\ x5 \in Nat
           /\ x3 \in [Guest!Days -> Nat \cup {-1}] /\ x4 \in [Guest!Days -> Nat]
           /\ x6 \in Guest!Transactions \cup {Guest!Idle}
           /\ x6 # Guest!Idle => x6 \in Guest!Transactions /\ x6.points \in Nat
           /\ x6 = Guest!Idle <=> x6.step = "idle"
           /\ x6.step # "adjust" => Guest!Moved = 0
BY DEF Guest!Bounds, Guest!IInv, Guest!Saved, Guest!Saves, Guest!Days, Guest!NoRow, Guest!Transactions,
       Guest!Idle, Guest!Moved

LEMMA GuestInit == Guest!Bounds /\ Guest!Init => Guest!IInv
BY DEF Guest!Bounds, Guest!Init, Guest!IInv, Guest!Saved, Guest!Saves, Guest!Days, Guest!NoRow, Guest!Idle,
       Guest!Moved, Guest!AddsUp, Guest!RowsInTime

LEMMA MidnightInv == ASSUME Guest!Bounds, Guest!IInv, Guest!Midnight PROVE Guest!IInv'
<1>1. x1' = x1 + 1 /\ x1' \in Guest!Days /\ UNCHANGED <<x2, x3, x4, x5, x6>>
    BY GuestTypes DEF Guest!Midnight, Guest!Days, Guest!Bounds
<1>2. ASSUME NEW s, NEW open, Guest!RowsInTime(s, x1)
      PROVE  Guest!RowsInTime(s, x1') /\ Guest!AddsUp(s, x1', open)
    <2>1. s.consumed[x1'] = -1
        BY <1>1, <1>2, GuestTypes DEF Guest!RowsInTime, Guest!Days, Guest!NoRow
    <2> QED
        BY <1>1, <1>2, <2>1, GuestTypes DEF Guest!RowsInTime, Guest!AddsUp, Guest!Days, Guest!NoRow
<1>3. Guest!Saved' = Guest!Saved
    BY <1>1 DEF Guest!Saved
<1> QED
    BY <1>1, <1>2, <1>3 DEF Guest!IInv

\* A transaction begins, and may be rolled back to what it has found.
LEMMA BeginInv ==
    ASSUME Guest!Bounds, Guest!IInv, NEW kind \in Guest!Kinds, NEW p \in Points, Guest!Begin(kind, p)
    PROVE  Guest!IInv'
<1>1. /\ x6 = Guest!Idle /\ UNCHANGED <<x1, x2, x3, x4, x5>>
      /\ x6' = [step |-> IF kind \in {"charge", "view"} THEN "apply" ELSE "move",
                kind |-> kind, points |-> p, saved |-> Guest!Saved]
    BY DEF Guest!Begin
<1>2. Guest!Saved' = Guest!Saved /\ Guest!Saved \in Guest!Saves
    BY <1>1 DEF Guest!Saved, Guest!IInv
<1>3. x6' \in Guest!Transactions /\ x6'.step # "adjust" /\ x6'.saved = Guest!Saved
    BY <1>1, <1>2 DEF Guest!Transactions
<1>4. Guest!Moved = 0 /\ Guest!Moved' = 0
    BY <1>1, <1>3, GuestTypes DEF Guest!Moved, Guest!Idle
<1>5. Guest!RowsInTime(Guest!Saved, x1) /\ Guest!AddsUp(Guest!Saved, x1, 0)
    BY <1>4 DEF Guest!IInv
<1> QED
    BY <1>1, <1>2, <1>3, <1>4, <1>5 DEF Guest!IInv

\* The first request of a day gives it its row.
LEMMA ApplyQuotaInv == ASSUME Guest!Bounds, Guest!IInv, Guest!ApplyQuota PROVE Guest!IInv'
<1>1. /\ x6.step = "apply" /\ x6 # Guest!Idle /\ x6 \in Guest!Transactions /\ x1' = x1
      /\ x6' = IF x6.kind = "view" THEN Guest!Idle ELSE [x6 EXCEPT !.step = "move"]
    BY GuestTypes DEF Guest!ApplyQuota, Guest!Idle
<1>2. /\ x6' \in Guest!Transactions \cup {Guest!Idle} /\ Guest!Moved = 0 /\ Guest!Moved' = 0
      /\ x6' # Guest!Idle => x6'.saved = x6.saved
    BY <1>1, GuestTypes DEF Guest!Transactions, Guest!Moved, Guest!Idle
<1>3. /\ Guest!Saved' \in Guest!Saves
      /\ Guest!RowsInTime(Guest!Saved', x1) /\ Guest!AddsUp(Guest!Saved', x1, 0)
    <2>1. CASE x3[x1] # -1
        <3>1. Guest!Saved' = Guest!Saved
            BY <2>1 DEF Guest!ApplyQuota, Guest!NoRow, Guest!Saved
        <3>2. Guest!Moved = 0
            BY <1>2
        <3>3. Guest!AddsUp(Guest!Saved, x1, 0) /\ Guest!RowsInTime(Guest!Saved, x1) /\ Guest!Saved \in Guest!Saves
            BY <3>2 DEF Guest!IInv
        <3> QED
            BY <3>1, <3>3
    <2>2. CASE x3[x1] = -1
        <3>1. /\ x2' = Quota /\ x5' = 0 /\ x3' = [x3 EXCEPT ![x1] = 0]
              /\ x4' = x4 \/ x4' = [x4 EXCEPT ![x1] = @ + 1]
            BY <2>2 DEF Guest!ApplyQuota, Guest!NoRow
        <3>2. x4[x1] = 0
            BY <2>2, GuestTypes DEF Guest!IInv, Guest!RowsInTime, Guest!Saved, Guest!NoRow
        <3>3. Guest!Saved' \in Guest!Saves
            BY <3>1, GuestTypes DEF Guest!Saved, Guest!Saves, Guest!NoRow
        <3>4. Guest!RowsInTime(Guest!Saved', x1)
            <4>1. \A d \in Guest!Days : x4[d] <= 1 /\ (x3[d] = -1 => x4[d] = 0) /\ (d > x1 => x3[d] = -1)
                BY DEF Guest!IInv, Guest!RowsInTime, Guest!Saved, Guest!NoRow
            <4>2. ASSUME NEW d \in Guest!Days
                  PROVE  x4'[d] <= 1 /\ (x3'[d] = -1 => x4'[d] = 0) /\ (d > x1 => x3'[d] = -1)
                <5>1. CASE d = x1
                    <6>1. x3'[d] = 0 /\ x4'[d] <= 1 /\ ~(d > x1)
                        BY <3>1, <3>2, <5>1, GuestTypes
                    <6> QED
                        BY <6>1
                <5>2. CASE d # x1
                    <6>1. x3'[d] = x3[d] /\ x4'[d] = x4[d]
                        BY <3>1, <5>2, GuestTypes
                    <6> QED
                        BY <4>1, <6>1
                <5> QED
                    BY <5>1, <5>2
            <4> QED
                BY <4>2 DEF Guest!RowsInTime, Guest!Saved, Guest!NoRow
        <3>5. Guest!AddsUp(Guest!Saved', x1, 0)
            BY <3>1, GuestTypes DEF Guest!AddsUp, Guest!Saved
        <3> QED
            BY <3>3, <3>4, <3>5
    <2> QED
        BY <2>1, <2>2
<1> QED
    BY <1>1, <1>2, <1>3 DEF Guest!IInv

LEMMA MoveInv == ASSUME Guest!Bounds, Guest!IInv, Guest!Move PROVE Guest!IInv'
<1>1. /\ x6.step = "move" /\ x6 # Guest!Idle /\ x6 \in Guest!Transactions /\ UNCHANGED <<x1, x3, x4>>
      /\ x6' = IF x6.kind = "grant" THEN Guest!Idle ELSE [x6 EXCEPT !.step = "adjust"]
      /\ x6.kind = "charge" => x6.points <= x2
      /\ x2' = IF x6.kind = "charge" THEN x2 - x6.points ELSE x2 + x6.points
      /\ x5' = IF x6.kind = "grant" THEN x5 + x6.points ELSE x5
    BY GuestTypes DEF Guest!Move, Guest!Idle
<1>2. /\ x6' \in Guest!Transactions \cup {Guest!Idle} /\ Guest!Moved = 0
      /\ x6' # Guest!Idle => x6'.saved = x6.saved
      /\ Guest!Moved' = CASE x6.kind = "grant" -> 0 [] x6.kind = "charge" -> -x6.points
                          [] OTHER -> x6.points
    BY <1>1, GuestTypes DEF Guest!Transactions, Guest!Moved, Guest!Idle
<1>3. x2' \in Nat /\ x5' \in Nat /\ x2' - x5' = x2 - x5 + Guest!Moved'
    BY <1>1, <1>2, GuestTypes
<1>4. Guest!Saved' \in Guest!Saves
    BY <1>1, <1>3, GuestTypes DEF Guest!Saved, Guest!Saves, Guest!NoRow
<1>5. Guest!RowsInTime(Guest!Saved', x1)
    BY <1>1 DEF Guest!IInv, Guest!RowsInTime, Guest!Saved
<1>6. Guest!AddsUp(Guest!Saved', x1, Guest!Moved')
    BY <1>1, <1>2, <1>3, GuestTypes DEF Guest!IInv, Guest!AddsUp, Guest!Saved, Guest!NoRow
<1> QED
    BY <1>1, <1>2, <1>4, <1>5, <1>6 DEF Guest!IInv

LEMMA RollbackInv == ASSUME Guest!Bounds, Guest!IInv, Guest!Rollback PROVE Guest!IInv'
<1>1. /\ x6 # Guest!Idle /\ x6 \in Guest!Transactions /\ x6' = Guest!Idle /\ x1' = x1
      /\ Guest!Saved' = x6.saved /\ Guest!Moved' = 0
    BY GuestTypes DEF Guest!Rollback, Guest!Saved, Guest!Transactions, Guest!Saves, Guest!Moved, Guest!Idle
<1> QED
    BY <1>1 DEF Guest!IInv, Guest!Transactions

\* The consumption takes in what was moved; what it cannot go below zero for is given beyond the quota.
LEMMA AdjustInv == ASSUME Guest!Bounds, Guest!IInv, Guest!Adjust PROVE Guest!IInv'
<1> DEFINE delta == IF x6.kind = "charge" THEN x6.points ELSE -x6.points
           before == x3[x1]
<1>1. /\ x6.step = "adjust" /\ x6 # Guest!Idle /\ x6 \in Guest!Transactions /\ x6' = Guest!Idle
      /\ UNCHANGED <<x1, x2, x4>>
      /\ x3' = IF before = -1 THEN x3 ELSE [x3 EXCEPT ![x1] = Guest!Larger(0, before + delta)]
      /\ x5' = IF before = -1 THEN x5 ELSE x5 + Guest!Larger(0, -(before + delta))
    BY GuestTypes DEF Guest!Adjust, Guest!Idle, Guest!NoRow
<1>2. Guest!Moved = -delta /\ Guest!Moved' = 0 /\ delta \in Int
    BY <1>1, GuestTypes DEF Guest!Moved, Guest!Idle, Guest!Transactions
<1>3. /\ Guest!Saved' \in Guest!Saves
      /\ Guest!RowsInTime(Guest!Saved', x1) /\ Guest!AddsUp(Guest!Saved', x1, 0)
    <2>1. CASE before = -1
        <3>1. Guest!Saved' = Guest!Saved
            BY <1>1, <2>1 DEF Guest!Saved
        <3> QED
            BY <2>1, <3>1 DEF Guest!IInv, Guest!AddsUp, Guest!Saved, Guest!NoRow
    <2>2. CASE before # -1
        <3> DEFINE after == Guest!Larger(0, before + delta)
        <3>1. before \in Nat /\ x2 + before = Quota + x5 - delta
            BY <1>2, <2>2, GuestTypes DEF Guest!IInv, Guest!AddsUp, Guest!Saved, Guest!NoRow
        <3>2. after \in Nat /\ x5' \in Nat /\ x2 + after = Quota + x5' /\ x3' = [x3 EXCEPT ![x1] = after]
            BY <1>1, <1>2, <2>2, <3>1, GuestTypes DEF Guest!Larger
        <3> HIDE DEF after
        <3>3. Guest!Saved' \in Guest!Saves
            BY <1>1, <3>2, GuestTypes DEF Guest!Saved, Guest!Saves, Guest!NoRow
        <3>4. Guest!RowsInTime(Guest!Saved', x1)
            BY <1>1, <2>2, <3>2, GuestTypes DEF Guest!IInv, Guest!RowsInTime, Guest!Saved, Guest!NoRow, Guest!Days
        <3>5. Guest!AddsUp(Guest!Saved', x1, 0)
            BY <1>1, <3>2, GuestTypes DEF Guest!AddsUp, Guest!Saved
        <3> QED
            BY <3>3, <3>4, <3>5
    <2> QED
        BY <2>1, <2>2
<1> QED
    BY <1>1, <1>2, <1>3 DEF Guest!IInv

LEMMA GuestNext == Guest!Bounds /\ Guest!IInv /\ [Guest!Next]_(Guest!vars) => Guest!IInv'
<1> SUFFICES ASSUME Guest!Bounds, Guest!IInv, [Guest!Next]_(Guest!vars) PROVE Guest!IInv'
    OBVIOUS
<1>1. CASE UNCHANGED Guest!vars
    <2>1. Guest!Saved' = Guest!Saved /\ Guest!Moved' = Guest!Moved /\ x1' = x1 /\ x6' = x6
        BY <1>1 DEF Guest!vars, Guest!Saved, Guest!Moved
    <2> QED
        BY <2>1 DEF Guest!IInv
<1> QED
    BY <1>1, MidnightInv, BeginInv, ApplyQuotaInv, MoveInv, RollbackInv, AdjustInv DEF Guest!Next, Guest!Kinds

LEMMA GuestSafe == Guest!Bounds /\ Guest!IInv => Guest!TypeOK /\ Guest!QuotaExplainsBalance
BY GuestTypes DEF Guest!IInv, Guest!TypeOK, Guest!QuotaExplainsBalance, Guest!RowsInTime, Guest!AddsUp,
   Guest!Saved, Guest!NoRow, Guest!Transactions

-----------------------------------------------------------------------------
(***************************************************************************)
(* The free trial.  x1 is used, x2 flight, x3 the visits and x4 what the   *)
(* devices have been told.                                                 *)
(***************************************************************************)
TrialSteps == {"asin", "keepa", "choose", "query"}
TrialFindings == {-1, 0, 1, 2, 3}
TrialVisit == [step : TrialSteps, keys : SUBSET Trial!Keys, device : Devices,
               local : TrialFindings, keepa : TrialFindings]

\* The visits under way that have a key, and what is said of their number.
On(visits, k) == {v \in Things : visits[v].step # "idle" /\ k \in visits[v].keys}
Counts(flight, visits) == \A k \in Trial!Keys : flight[k] = Cardinality(On(visits, k))
Within(used, flight) == \A k \in Trial!Keys : used[k] + flight[k] <= Trial!Limit(k)
Told(announced, used) == \A d \in Devices : announced[d] # -1 => announced[d] = DeviceLimit - used[d]
OneDevice(visits) == \A v \in Things : visits[v] # Trial!Idle => visits[v].keys \cap Devices = {visits[v].device}

LEMMA TrialInvIs ==
    /\ Trial!IInv <=> Trial!TypeOK /\ Counts(x2, x3) /\ Within(x1, x2) /\ Told(x4, x1) /\ OneDevice(x3)
    /\ Trial!IInv' <=> Trial!TypeOK' /\ Counts(x2', x3') /\ Within(x1', x2') /\ Told(x4', x1') /\ OneDevice(x3')
<1>1. \A k : {v \in Things : Trial!Of(v, k)} = On(x3, k) /\ {v \in Things : Trial!Of(v, k)'} = On(x3', k)
    BY DEF On, Trial!Of
<1>2. /\ Trial!TrialsWithinLimits <=> Counts(x2, x3) /\ Within(x1, x2) /\ Told(x4, x1)
      /\ Trial!TrialsWithinLimits' <=> Counts(x2', x3') /\ Within(x1', x2') /\ Told(x4', x1')
    <2>1. \A S : Trial!Cardinality(S) = Cardinality(S)
        BY DEF Trial!Cardinality, Cardinality, Trial!IsFiniteSet, IsFiniteSet
    <2>2. \A k : /\ Trial!Cardinality({v \in Things : Trial!Of(v, k)}) = Cardinality(On(x3, k))
                 /\ Trial!Cardinality({v \in Things : Trial!Of(v, k)'}) = Cardinality(On(x3', k))
        BY <1>1, <2>1
    <2>3. /\ Trial!TrialsWithinLimits <=>
                /\ \A k \in Trial!Keys : /\ x2[k] = Cardinality(On(x3, k))
                                         /\ x1[k] + x2[k] <= Trial!Limit(k)
                /\ Told(x4, x1)
          /\ Trial!TrialsWithinLimits' <=>
                /\ \A k \in Trial!Keys : /\ x2'[k] = Cardinality(On(x3', k))
                                         /\ x1'[k] + x2'[k] <= Trial!Limit(k)
                /\ Told(x4', x1')
        BY <2>2 DEF Trial!TrialsWithinLimits, Told
    <2> QED
        BY <2>3 DEF Counts, Within
<1> QED
    BY <1>2 DEF Trial!IInv, OneDevice

LEMMA TrialTypes ==
    /\ Trial!TypeOK <=> /\ x1 \in [Trial!Keys -> Nat] /\ x2 \in [Trial!Keys -> Nat]
                        /\ x3 \in [Things -> {Trial!Idle} \cup TrialVisit]
                        /\ x4 \in [Devices -> -1 .. DeviceLimit]
    /\ Trial!TypeOK' <=> /\ x1' \in [Trial!Keys -> Nat] /\ x2' \in [Trial!Keys -> Nat]
                         /\ x3' \in [Things -> {Trial!Idle} \cup TrialVisit]
                         /\ x4' \in [Devices -> -1 .. DeviceLimit]
<1>1. Trial!Found \cup {Trial!NotAsked} = TrialFindings
    BY DEF Trial!Found, Trial!NotAsked, Trial!Failed, Trial!History, TrialFindings
<1> QED
    BY <1>1 DEF Trial!TypeOK, TrialVisit, TrialSteps

LEMMA TrialBounds ==
    ASSUME Trial!Bounds
    PROVE  /\ IsFiniteSet(Things) /\ Devices \cap Addresses = {}
           /\ DeviceLimit \in Nat /\ AddressLimit \in Nat
           /\ \A k : Trial!Limit(k) \in Nat
           /\ \A d \in Devices : Trial!Limit(d) = DeviceLimit /\ d \in Trial!Keys
           /\ \A a \in Addresses : a \in Trial!Keys
BY DEF Trial!Bounds, Trial!IsFiniteSet, IsFiniteSet, Trial!Limit, Trial!Keys

\* A visit that is not idle has a step, and idle ones have none.
LEMMA VisitIs ==
    ASSUME NEW r \in {Trial!Idle} \cup TrialVisit
    PROVE  /\ r = Trial!Idle <=> r.step = "idle"
           /\ r # Trial!Idle => r \in TrialVisit /\ r.step \in TrialSteps /\ r.keys \in SUBSET Trial!Keys /\ r.device \in Devices
BY DEF Trial!Idle, TrialVisit, TrialSteps

LEMMA TrialInit == Trial!Bounds /\ Trial!Init => Trial!IInv
<1> SUFFICES ASSUME Trial!Bounds, Trial!Init PROVE Trial!IInv
    OBVIOUS
<1>1. /\ x1 = [k \in Trial!Keys |-> 0] /\ x2 = [k \in Trial!Keys |-> 0]
      /\ x3 = [v \in Things |-> Trial!Idle] /\ x4 = [d \in Devices |-> -1]
    BY DEF Trial!Init
<1>2. Trial!TypeOK
    BY <1>1, TrialTypes, TrialBounds
<1>3. \A k : On(x3, k) = {}
    BY <1>1 DEF On, Trial!Idle
<1>4. Counts(x2, x3)
    BY <1>1, <1>3, FS_EmptySet DEF Counts
<1>5. Within(x1, x2)
    BY <1>1, TrialBounds DEF Within
<1>6. Told(x4, x1) /\ OneDevice(x3)
    BY <1>1 DEF Told, OneDevice
<1> QED
    BY <1>2, <1>4, <1>5, <1>6, TrialInvIs

\* A restart of the process puts the part where it began.
LEMMA TrialRestart == Trial!Bounds /\ Trial!Restart => Trial!IInv'
<1> SUFFICES ASSUME Trial!Bounds, Trial!Restart PROVE Trial!IInv'
    OBVIOUS
<1>1. /\ x1' = [k \in Trial!Keys |-> 0] /\ x2' = [k \in Trial!Keys |-> 0]
      /\ x3' = [v \in Things |-> Trial!Idle] /\ x4' = [d \in Devices |-> -1]
    BY DEF Trial!Restart
<1>2. Trial!TypeOK'
    BY <1>1, TrialTypes, TrialBounds
<1>3. \A k : On(x3', k) = {}
    BY <1>1 DEF On, Trial!Idle
<1>4. Counts(x2', x3')
    BY <1>1, <1>3, FS_EmptySet DEF Counts
<1>5. Within(x1', x2')
    BY <1>1, TrialBounds DEF Within
<1>6. Told(x4', x1') /\ OneDevice(x3')
    BY <1>1 DEF Told, OneDevice
<1> QED
    BY <1>2, <1>4, <1>5, <1>6, TrialInvIs

LEMMA OnIsFinite == ASSUME Trial!Bounds, NEW visits, NEW k PROVE IsFiniteSet(On(visits, k)) /\ Cardinality(On(visits, k)) \in Nat
<1>1. On(visits, k) \in SUBSET Things
    BY DEF On
<1> QED
    BY <1>1, TrialBounds, FS_Subset, FS_CardinalityType

LEMMA ReserveInv ==
    ASSUME Trial!Bounds, Trial!IInv, NEW v \in Things, NEW d \in Devices, NEW a \in Addresses, Trial!Reserve(v, d, a)
    PROVE  Trial!IInv'
<1>1. /\ x1 \in [Trial!Keys -> Nat] /\ x2 \in [Trial!Keys -> Nat]
      /\ x3 \in [Things -> {Trial!Idle} \cup TrialVisit] /\ x4 \in [Devices -> -1 .. DeviceLimit]
      /\ Counts(x2, x3) /\ Within(x1, x2) /\ Told(x4, x1) /\ OneDevice(x3)
    BY TrialInvIs, TrialTypes
<1>2. PICK what \in {"asin", "query"} :
          x3' = [x3 EXCEPT ![v] = [step |-> what, keys |-> {d, a}, device |-> d, local |-> -1, keepa |-> -1]]
    BY DEF Trial!Reserve, Trial!NotAsked
<1> DEFINE new == [step |-> what, keys |-> {d, a}, device |-> d, local |-> -1, keepa |-> -1]
<1>3. /\ x3[v] = Trial!Idle /\ x1' = x1 /\ x4' = x4
      /\ x2' = [k \in Trial!Keys |-> IF k \in {d, a} THEN x2[k] + 1 ELSE x2[k]]
      /\ \A k \in {d, a} : x1[k] + x2[k] < Trial!Limit(k)
    BY DEF Trial!Reserve
<1>4. d \in Trial!Keys /\ a \in Trial!Keys /\ {d, a} \cap Devices = {d}
    BY TrialBounds
<1>5. new \in TrialVisit /\ new # Trial!Idle /\ new.keys = {d, a} /\ new.device = d /\ new.step # "idle"
    BY <1>4 DEF TrialVisit, TrialSteps, TrialFindings, Trial!Idle
<1>6. x3' = [x3 EXCEPT ![v] = new]
    BY <1>2
<1> HIDE DEF new
<1>7. x2' \in [Trial!Keys -> Nat]
    BY <1>1, <1>3
<1>8. Trial!TypeOK'
    BY <1>1, <1>3, <1>5, <1>6, <1>7, TrialTypes
<1>9. Counts(x2', x3')
    <2> SUFFICES ASSUME NEW k \in Trial!Keys PROVE x2'[k] = Cardinality(On(x3', k))
        BY DEF Counts
    <2>1. IsFiniteSet(On(x3, k)) /\ v \notin On(x3, k) /\ x2[k] = Cardinality(On(x3, k))
        <3>1. IsFiniteSet(On(x3, k))
            BY OnIsFinite
        <3>2. v \notin On(x3, k)
            BY <1>3 DEF On, Trial!Idle
        <3>3. x2[k] = Cardinality(On(x3, k))
            BY <1>1 DEF Counts
        <3> QED
            BY <3>1, <3>2, <3>3
    <2>2. CASE k \in {d, a}
        <3>1. On(x3', k) = On(x3, k) \cup {v}
            BY <1>1, <1>5, <1>6, <2>2 DEF On
        <3> QED
            BY <1>3, <2>1, <2>2, <3>1, FS_AddElement
    <2>3. CASE k \notin {d, a}
        <3>1. On(x3', k) = On(x3, k)
            BY <1>1, <1>3, <1>5, <1>6, <2>3 DEF On, Trial!Idle
        <3> QED
            BY <1>3, <2>1, <2>3, <3>1
    <2> QED
        BY <2>2, <2>3
<1>10. Within(x1', x2')
    <2> SUFFICES ASSUME NEW k \in Trial!Keys PROVE x1[k] + x2'[k] <= Trial!Limit(k)
        BY <1>3 DEF Within
    <2>1. x1[k] \in Nat /\ x2[k] \in Nat /\ Trial!Limit(k) \in Nat /\ x1[k] + x2[k] <= Trial!Limit(k)
        BY <1>1, TrialBounds DEF Within
    <2> QED
        BY <1>3, <2>1
<1>11. Told(x4', x1')
    BY <1>1, <1>3
<1>12. OneDevice(x3')
    BY <1>1, <1>4, <1>5, <1>6 DEF OneDevice
<1> QED
    BY <1>8, <1>9, <1>10, <1>11, <1>12, TrialInvIs

\* An answer of a source changes nothing but what its visit knows.
LEMMA AskInv ==
    ASSUME Trial!Bounds, Trial!IInv, NEW v \in Things, NEW found \in Trial!Found,
           Trial!AskLocal(v, found) \/ Trial!AskKeepa(v, found)
    PROVE  Trial!IInv'
<1>1. /\ x3 \in [Things -> {Trial!Idle} \cup TrialVisit] /\ Trial!TypeOK
      /\ Counts(x2, x3) /\ Within(x1, x2) /\ Told(x4, x1) /\ OneDevice(x3)
    BY TrialInvIs, TrialTypes
<1>2. x1' = x1 /\ x2' = x2 /\ x4' = x4
    BY DEF Trial!AskLocal, Trial!AskKeepa
<1>3. x3[v] \in TrialVisit /\ x3[v] # Trial!Idle /\ x3[v].step # "idle" /\ found \in TrialFindings
    BY <1>1, VisitIs DEF Trial!AskLocal, Trial!AskKeepa, TrialFindings, Trial!Found, Trial!Failed, Trial!History
<1>4. \E new \in TrialVisit : /\ new.keys = x3[v].keys /\ new.device = x3[v].device
                              /\ x3' = [x3 EXCEPT ![v] = new]
    <2>1. CASE Trial!AskLocal(v, found)
        <3> DEFINE new == [x3[v] EXCEPT !.step = IF found = Trial!History THEN "choose" ELSE "keepa", !.local = found]
        <3>1. new \in TrialVisit /\ new.keys = x3[v].keys /\ new.device = x3[v].device
            BY <1>3 DEF TrialVisit, TrialSteps
        <3>2. x3' = [x3 EXCEPT ![v] = new]
            BY <2>1 DEF Trial!AskLocal
        <3> HIDE DEF new
        <3> QED
            BY <3>1, <3>2
    <2>2. CASE Trial!AskKeepa(v, found)
        <3> DEFINE new == [x3[v] EXCEPT !.step = "choose", !.keepa = found]
        <3>1. new \in TrialVisit /\ new.keys = x3[v].keys /\ new.device = x3[v].device
            BY <1>3 DEF TrialVisit, TrialSteps
        <3>2. x3' = [x3 EXCEPT ![v] = new]
            BY <2>2 DEF Trial!AskKeepa
        <3> HIDE DEF new
        <3> QED
            BY <3>1, <3>2
    <2> QED
        BY <2>1, <2>2
<1>5. PICK new \in TrialVisit : /\ new.keys = x3[v].keys /\ new.device = x3[v].device
                                /\ x3' = [x3 EXCEPT ![v] = new]
    BY <1>4
<1>6. new.step # "idle" /\ new # Trial!Idle
    BY VisitIs DEF TrialVisit, TrialSteps, Trial!Idle
<1>7. x3' \in [Things -> {Trial!Idle} \cup TrialVisit]
    BY <1>1, <1>5
<1>8. \A k : On(x3', k) = On(x3, k)
    BY <1>1, <1>3, <1>5, <1>6 DEF On
<1>9. Counts(x2', x3')
    BY <1>1, <1>2, <1>8 DEF Counts
<1>10. OneDevice(x3')
    BY <1>1, <1>3, <1>5 DEF OneDevice
<1> QED
    BY <1>1, <1>2, <1>7, <1>9, <1>10, TrialInvIs, TrialTypes

LEMMA FinishInv ==
    ASSUME Trial!Bounds, Trial!IInv, NEW v \in Things, x3[v].step # "idle", NEW consumed \in BOOLEAN, Trial!Finish(v, consumed)
    PROVE  Trial!IInv'
<1>1. /\ x1 \in [Trial!Keys -> Nat] /\ x2 \in [Trial!Keys -> Nat]
      /\ x3 \in [Things -> {Trial!Idle} \cup TrialVisit] /\ x4 \in [Devices -> -1 .. DeviceLimit]
      /\ Counts(x2, x3) /\ Within(x1, x2) /\ Told(x4, x1) /\ OneDevice(x3)
    BY TrialInvIs, TrialTypes
<1> DEFINE keys == x3[v].keys
           d == x3[v].device
<1>2. x3[v] # Trial!Idle /\ keys \in SUBSET Trial!Keys /\ d \in Devices /\ d \in keys /\ keys \cap Devices = {d}
    BY <1>1, VisitIs DEF OneDevice
<1>3. /\ x2' = [k \in Trial!Keys |-> IF k \in keys /\ x2[k] > 0 THEN x2[k] - 1 ELSE x2[k]]
      /\ x1' = [k \in Trial!Keys |-> IF consumed /\ k \in keys THEN x1[k] + 1 ELSE x1[k]]
      /\ x4' = IF consumed THEN [x4 EXCEPT ![d] = IF x1[d] + 1 < DeviceLimit THEN DeviceLimit - x1[d] - 1 ELSE 0] ELSE x4
      /\ x3' = [x3 EXCEPT ![v] = Trial!Idle]
    BY DEF Trial!Finish
<1> HIDE DEF keys, d
<1>4. \A k \in Trial!Keys : v \in On(x3, k) <=> k \in keys
    BY DEF On, keys
<1>5. \A k \in Trial!Keys : On(x3', k) = On(x3, k) \ {v}
    BY <1>1, <1>3 DEF On, Trial!Idle
<1>6. ASSUME NEW k \in Trial!Keys
      PROVE  x2'[k] = Cardinality(On(x3', k)) /\ x2'[k] = IF k \in keys THEN x2[k] - 1 ELSE x2[k]
    <2>1. x2[k] = Cardinality(On(x3, k)) /\ IsFiniteSet(On(x3, k)) /\ x2[k] \in Nat
        BY <1>1, OnIsFinite DEF Counts
    <2>2. /\ Cardinality(On(x3, k) \ {v}) = IF v \in On(x3, k) THEN x2[k] - 1 ELSE x2[k]
          /\ Cardinality(On(x3, k) \ {v}) \in Nat
        BY <2>1, FS_RemoveElement, FS_CardinalityType
    <2>3. Cardinality(On(x3', k)) = IF k \in keys THEN x2[k] - 1 ELSE x2[k]
        BY <1>4, <1>5, <2>2
    <2>4. k \in keys => x2[k] > 0
        BY <1>4, <2>1, <2>2
    <2>5. x2'[k] = IF k \in keys /\ x2[k] > 0 THEN x2[k] - 1 ELSE x2[k]
        BY <1>3
    <2> QED
        BY <2>3, <2>4, <2>5
<1>7. ASSUME NEW k \in Trial!Keys
      PROVE  /\ x1'[k] = IF consumed /\ k \in keys THEN x1[k] + 1 ELSE x1[k]
             /\ x1'[k] \in Nat /\ x2'[k] \in Nat /\ x1'[k] + x2'[k] <= Trial!Limit(k)
    <2>1. x1[k] \in Nat /\ x2[k] \in Nat /\ x1[k] + x2[k] <= Trial!Limit(k) /\ Trial!Limit(k) \in Nat
        BY <1>1, TrialBounds DEF Within
    <2>2. x1'[k] = IF consumed /\ k \in keys THEN x1[k] + 1 ELSE x1[k]
        BY <1>3
    <2>3. IsFiniteSet(On(x3', k)) /\ x2'[k] \in Nat
        BY <1>6, OnIsFinite
    <2> QED
        BY <1>6, <2>1, <2>2, <2>3
<1>8. Counts(x2', x3')
    BY <1>6 DEF Counts
<1>9. Within(x1', x2')
    BY <1>7 DEF Within
<1>10. x1' \in [Trial!Keys -> Nat] /\ x2' \in [Trial!Keys -> Nat]
    <2>1. x1' = [k \in Trial!Keys |-> x1'[k]] /\ x2' = [k \in Trial!Keys |-> x2'[k]]
        BY <1>3
    <2> QED
        BY <1>7, <2>1
<1>11. x3' \in [Things -> {Trial!Idle} \cup TrialVisit]
    BY <1>1, <1>3
<1>12. DeviceLimit \in Nat /\ x1[d] \in Nat /\ d \in Trial!Keys /\ x1[d] + 1 <= DeviceLimit
    <2>1. d \in Trial!Keys /\ DeviceLimit \in Nat /\ Trial!Limit(d) = DeviceLimit
        BY <1>2, TrialBounds
    <2>2. x1[d] \in Nat /\ x2[d] \in Nat /\ x1[d] + x2[d] <= DeviceLimit /\ x2'[d] \in Nat /\ x2'[d] = x2[d] - 1
        BY <1>1, <1>2, <1>6, <1>7, <2>1 DEF Within
    <2> QED
        BY <2>1, <2>2
<1>13. x4' \in [Devices -> -1 .. DeviceLimit]
    BY <1>1, <1>2, <1>3, <1>12
<1>14. Told(x4', x1')
    <2> SUFFICES ASSUME NEW e \in Devices, x4'[e] # -1 PROVE x4'[e] = DeviceLimit - x1'[e]
        BY DEF Told
    <2>1. e \in Trial!Keys /\ x1[e] \in Nat
        BY <1>1, TrialBounds
    <2>2. CASE e = d /\ consumed
        <3>1. x1'[e] = x1[d] + 1 /\ x4'[e] = IF x1[d] + 1 < DeviceLimit THEN DeviceLimit - x1[d] - 1 ELSE 0
            BY <1>1, <1>2, <1>3, <1>12, <2>2
        <3> QED
            BY <1>12, <3>1
    <2>3. CASE ~(e = d /\ consumed)
        <3>1. x1'[e] = x1[e]
            BY <1>2, <1>7, <2>1, <2>3
        <3>2. x4'[e] = x4[e]
            BY <1>1, <1>2, <1>3, <2>3
        <3> QED
            BY <1>1, <3>1, <3>2 DEF Told
    <2> QED
        BY <2>2, <2>3
<1>15. OneDevice(x3')
    BY <1>1, <1>3 DEF OneDevice
<1> QED
    BY <1>8, <1>9, <1>10, <1>11, <1>13, <1>14, <1>15, TrialInvIs, TrialTypes

LEMMA TrialNext == Trial!Bounds /\ Trial!IInv /\ [Trial!Next]_(Trial!vars) => Trial!IInv'
<1> SUFFICES ASSUME Trial!Bounds, Trial!IInv, [Trial!Next]_(Trial!vars) PROVE Trial!IInv'
    OBVIOUS
<1>1. CASE UNCHANGED Trial!vars
    BY <1>1, TrialInvIs, TrialTypes DEF Trial!vars
<1>2. ASSUME NEW v \in Things, Trial!Answer(v) PROVE Trial!IInv'
    <2> DEFINE consumed == Trial!HasReport(Trial!Selected(x3[v].local, x3[v].keepa))
    <2>1. x3[v].step # "idle" /\ Trial!Finish(v, consumed)
        BY <1>2 DEF Trial!Answer
    <2>2. consumed \in BOOLEAN
        BY DEF Trial!HasReport
    <2> HIDE DEF consumed
    <2> QED
        BY <2>1, <2>2, FinishInv
<1>3. ASSUME NEW v \in Things, NEW report \in BOOLEAN, Trial!AnswerQuery(v, report) PROVE Trial!IInv'
    BY <1>3, FinishInv DEF Trial!AnswerQuery
<1> QED
    BY <1>1, <1>2, <1>3, TrialRestart, ReserveInv, AskInv DEF Trial!Next

LEMMA TrialSafe == Trial!IInv => Trial!TypeOK /\ Trial!TrialsWithinLimits
BY DEF Trial!IInv

-----------------------------------------------------------------------------
(***************************************************************************)
(* The sliding windows.  x1 is the queue, x2 how long ago the handlers     *)
(* read the clock, x3 the requests let through, by age.                    *)
(***************************************************************************)
Up(g) == Running(RequestWindow, g)

LEMMA UpIsSum ==
    ASSUME RequestWindow \in Nat, NEW g \in [0 .. RequestWindow -> Nat]
    PROVE  RunningSum(Up(g), RequestWindow, g)
BY RunningIsSum DEF Up

\* Of the requests let through in the last k ticks there is one more, or there are those of the
\* k - 1 ticks before the clock went on.
LEMMA UpOfMore ==
    ASSUME RequestWindow \in Nat, NEW g \in [0 .. RequestWindow -> Nat],
           NEW h \in [0 .. RequestWindow -> Nat], MoreAtStart(h, RequestWindow, g)
    PROVE  MoreEverywhere(Up(h), RequestWindow, Up(g))
BY UpIsSum, RunningOfMore

LEMMA UpOfShifted ==
    ASSUME RequestWindow \in Nat, NEW g \in [0 .. RequestWindow -> Nat],
           NEW h \in [0 .. RequestWindow -> Nat], MovedOn(h, RequestWindow, g)
    PROVE  MovedOn(Up(h), RequestWindow, Up(g))
BY UpIsSum, RunningOfShifted

\* The last count entries of a queue are not older than an age.
Young(s, count, age) ==
    count <= Len(s) /\ \A i \in 1 .. Len(s) : i > Len(s) - count => s[i] <= age

LEMMA IsSeqOf ==
    ASSUME NEW A, NEW n \in Nat, NEW s \in [1 .. n -> A]
    PROVE  s \in Seq(A) /\ Len(s) = n
OBVIOUS

\* What is left when the front of a queue is dropped.
LEMMA DroppedFront ==
    ASSUME NEW A, NEW s \in Seq(A), NEW first \in 1 .. Len(s) + 1
    PROVE  /\ SubSeq(s, first, Len(s)) \in Seq(A)
           /\ Len(SubSeq(s, first, Len(s))) = Len(s) - first + 1
           /\ \A i \in 1 .. Len(s) - first + 1 : SubSeq(s, first, Len(s))[i] = s[first + i - 1]
<1>1. first \in Int /\ Len(s) \in Int /\ \A i \in first .. Len(s) : s[i] \in A
    OBVIOUS
<1> QED
    BY <1>1, SubSeqProperties

LEMMA YoungStay ==
    ASSUME NEW s \in Seq(Nat), NEW first \in 1 .. Len(s) + 1, NEW count \in Nat, NEW age \in Nat,
           Young(s, count, age), \A i \in 1 .. first - 1 : s[i] > age
    PROVE  Young(SubSeq(s, first, Len(s)), count, age)
<1> DEFINE left == SubSeq(s, first, Len(s))
<1>1. Len(left) = Len(s) - first + 1 /\ \A i \in 1 .. Len(left) : left[i] = s[first + i - 1]
    BY DroppedFront
<1>2. first - 1 <= Len(s) - count
    <2>1. CASE first = 1
        BY <2>1 DEF Young
    <2>2. CASE first # 1
        <3>1. first - 1 \in 1 .. first - 1 /\ first - 1 \in 1 .. Len(s) /\ s[first - 1] \in Nat
            BY <2>2
        <3>2. ~(s[first - 1] <= age)
            BY <3>1
        <3>3. ~(first - 1 > Len(s) - count)
            BY <3>1, <3>2 DEF Young
        <3> QED
            BY <1>1, <3>1, <3>3 DEF Young
    <2> QED
        BY <2>1, <2>2
<1> HIDE DEF left
<1>3. ASSUME NEW i \in 1 .. Len(left), i > Len(left) - count PROVE left[i] <= age
    <2>1. first + i - 1 \in 1 .. Len(s) /\ first + i - 1 > Len(s) - count
        BY <1>1, <1>3
    <2>2. s[first + i - 1] <= age
        BY <2>1 DEF Young
    <2> QED
        BY <1>1, <2>2
<1>4. Young(left, count, age)
    BY <1>1, <1>2, <1>3 DEF Young
<1> QED
    BY <1>4 DEF left

LEMMA YoungEnter ==
    ASSUME NEW s \in Seq(Nat), NEW x \in Nat, NEW count \in Nat, NEW age \in Nat,
           Young(s, count, age), x <= age
    PROVE  Young(Append(s, x), count + 1, age)
<1> DEFINE t == Append(s, x)
<1>1. Len(t) = Len(s) + 1 /\ t[Len(s) + 1] = x /\ \A i \in 1 .. Len(s) : t[i] = s[i]
    OBVIOUS
<1> HIDE DEF t
<1>2. ASSUME NEW i \in 1 .. Len(t), i > Len(t) - (count + 1) PROVE t[i] <= age
    <2>1. CASE i = Len(s) + 1
        BY <1>1, <2>1
    <2>2. CASE i # Len(s) + 1
        <3>1. i \in 1 .. Len(s) /\ i > Len(s) - count
            BY <1>1, <1>2, <2>2
        <3> QED
            BY <1>1, <3>1 DEF Young
    <2> QED
        BY <2>1, <2>2
<1>3. Young(t, count + 1, age)
    BY <1>1, <1>2 DEF Young
<1> QED
    BY <1>3 DEF t

LEMMA YoungAge ==
    ASSUME NEW s \in Seq(Nat), NEW t \in Seq(Nat), Len(t) = Len(s),
           \A i \in 1 .. Len(s) : t[i] <= s[i] + 1,
           NEW count \in Nat, NEW age \in Nat, Young(s, count, age)
    PROVE  Young(t, count, age + 1)
<1>1. ASSUME NEW i \in 1 .. Len(t), i > Len(t) - count PROVE t[i] <= age + 1
    <2>1. i \in 1 .. Len(s) /\ s[i] \in Nat /\ t[i] \in Nat /\ t[i] <= s[i] + 1
        OBVIOUS
    <2>2. s[i] <= age
        BY <1>1, <2>1 DEF Young
    <2> QED
        BY <2>1, <2>2
<1> QED
    BY <1>1 DEF Young

LEMMA LimitTypes ==
    ASSUME Limit!Bounds, Limit!TypeOK
    PROVE  /\ RequestWindow \in Nat /\ RequestStall \in Nat /\ RequestStall < RequestWindow
           /\ MaxRequests \in Nat /\ Limit!Old = RequestWindow + RequestStall /\ Limit!Old \in Nat
           /\ x1 \in Seq(0 .. Limit!Old) /\ x1 \in Seq(Nat) /\ Len(x1) <= MaxRequests
           /\ x2 \in [Actors -> -1 .. RequestStall] /\ x3 \in [0 .. RequestWindow -> Nat]
BY DEF Limit!Bounds, Limit!TypeOK, Limit!Old, Limit!NotReading

LEMMA GrantedIsUp ==
    /\ Limit!Granted = Up(x3) /\ Limit!Granted' = Up(x3')
BY DEF Limit!Granted, Up, Running

\* The requests of the last ticks, as the invariant has them.
LimitAges == 0 .. RequestWindow - RequestStall - 1

LEMMA LimitInvIs ==
    /\ Limit!IInv <=> Limit!TypeOK /\ \A k \in LimitAges : Young(x1, Up(x3)[k], k + RequestStall)
    /\ Limit!IInv' <=> Limit!TypeOK' /\ \A k \in LimitAges : Young(x1', Up(x3')[k], k + RequestStall)
BY GrantedIsUp DEF Limit!IInv, Limit!YoungAreQueued, Young, LimitAges

LEMMA LimitAgeOf ==
    ASSUME Limit!Bounds, NEW g \in [0 .. RequestWindow -> Nat], NEW k \in LimitAges
    PROVE  k \in 0 .. RequestWindow /\ k + RequestStall \in Nat /\ k + RequestStall < RequestWindow /\ Up(g)[k] \in Nat
<1>1. k \in 0 .. RequestWindow /\ RequestWindow \in Nat /\ k + RequestStall \in Nat /\ k + RequestStall < RequestWindow
    BY DEF Limit!Bounds, LimitAges
<1> QED
    BY <1>1, UpIsSum DEF RunningSum

LEMMA LimitInit == Limit!Bounds /\ Limit!Init => Limit!IInv
<1> SUFFICES ASSUME Limit!Bounds, Limit!Init PROVE Limit!IInv
    OBVIOUS
<1>1. /\ x1 = <<>> /\ x2 = [h \in Actors |-> -1]
      /\ x3 = [age \in 0 .. RequestWindow |-> 0]
    BY DEF Limit!Init, Limit!NotReading
<1>2. Limit!TypeOK
    BY <1>1 DEF Limit!TypeOK, Limit!NotReading, Limit!Old, Limit!Bounds
<1>3. x3 \in [0 .. RequestWindow -> Nat] /\ RequestWindow \in Nat
    BY <1>1 DEF Limit!Bounds
<1> DEFINE u == Up(x3)
<1>4. RunningSum(u, RequestWindow, x3)
    BY <1>3, UpIsSum
<1> HIDE DEF u
<1> DEFINE done == {k \in 0 .. RequestWindow : u[k] = 0}
<1>5. 0 \in done
    BY <1>1, <1>3, <1>4 DEF RunningSum
<1>6. ASSUME NEW i \in 0 .. RequestWindow - 1, i \in done PROVE i + 1 \in done
    <2>1. i + 1 \in 1 .. RequestWindow /\ (i + 1) - 1 = i /\ x3[i + 1] = 0
        BY <1>1, <1>3
    <2>2. u[i + 1] = x3[i + 1] + u[i]
        BY <1>4, <2>1 DEF RunningSum
    <2> QED
        BY <1>3, <1>6, <2>1, <2>2
<1>7. \A i \in 0 .. RequestWindow - 1 : i \in done => i + 1 \in done
    BY <1>6
<1> HIDE DEF done
<1>8. 0 .. RequestWindow \subseteq done
    BY <1>3, <1>5, <1>7, UpTo
<1>9. \A k \in LimitAges : Up(x3)[k] = 0
    BY <1>3, <1>8, LimitAgeOf DEF done, u
<1>10. Len(x1) = 0
    BY <1>1
<1>11. \A k \in LimitAges : Young(x1, 0, k + RequestStall)
    BY <1>10 DEF Young
<1> QED
    BY <1>2, <1>9, <1>11, LimitInvIs

LEMMA LimitMin ==
    ASSUME NEW n \in Nat, NEW S \in SUBSET (0 .. n), S # {}
    PROVE  Limit!Min(S) \in S /\ \A x \in S : Limit!Min(S) <= x
<1>1. \E m \in S : \A x \in S : m <= x
    BY MinOf
<1> QED
    BY <1>1 DEF Limit!Min

\* What the front of the queue loses is too old for every handler, however long it has waited.
LEMMA CurrentOf ==
    ASSUME Limit!Bounds, Limit!TypeOK, NEW delay \in 0 .. RequestStall
    PROVE  \E first \in 1 .. Len(x1) + 1 :
              /\ Limit!Current(x1, delay) = SubSeq(x1, first, Len(x1))
              /\ \A i \in 1 .. first - 1 : x1[i] >= RequestWindow
<1> DEFINE kept == {i \in 1 .. Len(x1) : x1[i] < RequestWindow + delay}
           first == IF kept = {} THEN Len(x1) + 1 ELSE Limit!Min(kept)
<1>1. Len(x1) \in Nat /\ \A i \in 1 .. Len(x1) : x1[i] \in Nat
    BY LimitTypes
<1>2. kept \in SUBSET (0 .. Len(x1)) /\ kept \in SUBSET (1 .. Len(x1))
    BY <1>1
<1>3. ASSUME NEW i \in 1 .. Len(x1), i \notin kept PROVE x1[i] >= RequestWindow
    <2>1. ~(x1[i] < RequestWindow + delay) /\ x1[i] \in Nat
        BY <1>1, <1>3
    <2>2. RequestWindow \in Nat /\ delay \in Nat
        BY LimitTypes
    <2> QED
        BY <2>1, <2>2
<1>4. Limit!Current(x1, delay) = SubSeq(x1, first, Len(x1))
    BY DEF Limit!Current
<1> HIDE DEF kept
<1>5. kept # {} => Limit!Min(kept) \in kept /\ \A i \in kept : Limit!Min(kept) <= i
    BY <1>1, <1>2, LimitMin
<1>6. first \in 1 .. Len(x1) + 1
    <2>1. CASE kept = {}
        BY <1>1, <2>1
    <2>2. CASE kept # {}
        <3>1. first \in kept
            BY <1>5, <2>2
        <3> HIDE DEF first
        <3> QED
            BY <1>1, <1>2, <3>1
    <2> QED
        BY <2>1, <2>2
<1>7. ASSUME NEW i \in 1 .. first - 1 PROVE i \in 1 .. Len(x1) /\ i \notin kept
    <2>1. CASE kept = {}
        BY <1>1, <2>1
    <2>2. CASE kept # {}
        <3>1. first \in kept /\ \A j \in kept : first <= j
            BY <1>5, <2>2
        <3> HIDE DEF first
        <3> QED
            BY <1>1, <1>2, <3>1
    <2> QED
        BY <2>1, <2>2
<1> HIDE DEF first
<1> QED
    BY <1>3, <1>4, <1>6, <1>7

LEMMA EnterInv == ASSUME Limit!Bounds, Limit!IInv, NEW h \in Actors, Limit!Enter(h) PROVE Limit!IInv'
<1>1. Limit!TypeOK /\ \A k \in LimitAges : Young(x1, Up(x3)[k], k + RequestStall)
    BY LimitInvIs
<1>2. x2[h] \in 0 .. RequestStall /\ x2' = [x2 EXCEPT ![h] = -1]
    BY <1>1, LimitTypes DEF Limit!Enter, Limit!NotReading
<1>3. PICK first \in 1 .. Len(x1) + 1 :
              /\ Limit!Current(x1, x2[h]) = SubSeq(x1, first, Len(x1))
              /\ \A i \in 1 .. first - 1 : x1[i] >= RequestWindow
    BY <1>1, <1>2, CurrentOf
<1> DEFINE left == SubSeq(x1, first, Len(x1))
<1>4. left \in Seq(0 .. Limit!Old) /\ left \in Seq(Nat) /\ Len(left) <= Len(x1)
    <2>1. x1 \in Seq(0 .. Limit!Old) /\ x1 \in Seq(Nat)
        BY <1>1, LimitTypes
    <2>2. left \in Seq(0 .. Limit!Old) /\ Len(left) = Len(x1) - first + 1 /\ left \in Seq(Nat)
        BY <2>1, DroppedFront
    <2> HIDE DEF left
    <2> QED
        BY <2>1, <2>2
<1>5. IF Len(left) < MaxRequests THEN x1' = Append(left, x2[h]) /\ x3' = [x3 EXCEPT ![0] = @ + 1]
                                 ELSE x1' = left /\ x3' = x3
    BY <1>3 DEF Limit!Enter
<1>6. \A k \in LimitAges : Young(left, Up(x3)[k], k + RequestStall)
    <2> SUFFICES ASSUME NEW k \in LimitAges PROVE Young(left, Up(x3)[k], k + RequestStall)
        OBVIOUS
    <2>1. Up(x3)[k] \in Nat /\ k + RequestStall \in Nat /\ k + RequestStall < RequestWindow /\ x1 \in Seq(Nat)
        BY <1>1, LimitTypes, LimitAgeOf
    <2>2. \A i \in 1 .. first - 1 : x1[i] > k + RequestStall
        <3> SUFFICES ASSUME NEW i \in 1 .. first - 1 PROVE x1[i] > k + RequestStall
            OBVIOUS
        <3>1. i \in 1 .. Len(x1) /\ x1[i] >= RequestWindow
            BY <1>3, <2>1
        <3>2. x1[i] \in Nat
            BY <2>1, <3>1
        <3>3. RequestWindow \in Nat
            BY <1>1, LimitTypes
        <3> QED
            BY <2>1, <3>1, <3>2, <3>3
    <2> QED
        BY <1>1, <2>1, <2>2, YoungStay
<1> HIDE DEF left
<1>7. x2' \in [Actors -> -1 .. RequestStall] /\ x2[h] \in 0 .. Limit!Old
    BY <1>1, <1>2, LimitTypes
<1>8. CASE Len(left) < MaxRequests
    <2>1. x1' = Append(left, x2[h]) /\ x3' = [x3 EXCEPT ![0] = @ + 1]
        BY <1>5, <1>8
    <2>2. x3' \in [0 .. RequestWindow -> Nat]
        BY <1>1, <2>1, LimitTypes
    <2>3. x1' \in Seq(0 .. Limit!Old) /\ Len(x1') = Len(left) + 1
        <3>1. Append(left, x2[h]) \in Seq(0 .. Limit!Old) /\ Len(Append(left, x2[h])) = Len(left) + 1
            BY <1>4, <1>7, AppendProperties
        <3> QED
            BY <2>1, <3>1
    <2>4. Limit!TypeOK'
        <3>1. Len(left) + 1 <= MaxRequests
            BY <1>1, <1>4, <1>8, LimitTypes
        <3>2. Len(x1') <= MaxRequests
            BY <2>3, <3>1
        <3> QED
            BY <1>7, <2>2, <2>3, <3>2 DEF Limit!TypeOK, Limit!NotReading, Limit!Old
    <2>5. ASSUME NEW k \in LimitAges PROVE Young(x1', Up(x3')[k], k + RequestStall)
        <3>1. Up(x3)[k] \in Nat /\ k \in 0 .. RequestWindow /\ k + RequestStall \in Nat
            BY <1>1, LimitTypes, LimitAgeOf
        <3>2. Up(x3')[k] = Up(x3)[k] + 1
            <4>1. MoreAtStart(x3', RequestWindow, x3)
                BY <1>1, <2>1, LimitTypes DEF MoreAtStart
            <4>2. MoreEverywhere(Up(x3'), RequestWindow, Up(x3))
                BY <1>1, <2>2, <4>1, LimitTypes, UpOfMore
            <4> QED
                BY <3>1, <4>2 DEF MoreEverywhere
        <3>3. x2[h] \in Nat /\ x2[h] <= k + RequestStall
            BY <1>1, <1>2, <3>1, LimitTypes
        <3>4. Young(Append(left, x2[h]), Up(x3)[k] + 1, k + RequestStall)
            BY <1>4, <1>6, <3>1, <3>3, YoungEnter
        <3> QED
            BY <2>1, <3>2, <3>4
    <2> QED
        BY <2>4, <2>5, LimitInvIs
<1>9. CASE ~(Len(left) < MaxRequests)
    <2>1. x1' = left /\ x3' = x3
        BY <1>5, <1>9
    <2>2. Limit!TypeOK'
        BY <1>1, <1>4, <1>7, <2>1, LimitTypes DEF Limit!TypeOK, Limit!NotReading, Limit!Old
    <2> QED
        BY <1>6, <2>1, <2>2, LimitInvIs
<1> QED
    BY <1>8, <1>9

LEMMA TickOfWindow == ASSUME Limit!Bounds, Limit!IInv, Limit!Tick PROVE Limit!IInv'
<1>1. Limit!TypeOK /\ \A k \in LimitAges : Young(x1, Up(x3)[k], k + RequestStall)
    BY LimitInvIs
<1>2. /\ \A h \in Actors : x2[h] < RequestStall
      /\ x2' = [h \in Actors |-> IF x2[h] = -1 THEN -1 ELSE x2[h] + 1]
      /\ x1' = [i \in 1 .. Len(x1) |-> IF x1[i] < Limit!Old THEN x1[i] + 1 ELSE Limit!Old]
      /\ x3' = [age \in 0 .. RequestWindow |-> IF age = 0 THEN 0 ELSE x3[age - 1]]
    BY DEF Limit!Tick, Limit!NotReading
<1>3. \A i \in 1 .. Len(x1) : x1[i] \in 0 .. Limit!Old
    BY <1>1, LimitTypes
<1>4. \A i \in 1 .. Len(x1) : x1'[i] \in 0 .. Limit!Old /\ x1'[i] <= x1[i] + 1
    <2> SUFFICES ASSUME NEW i \in 1 .. Len(x1) PROVE x1'[i] \in 0 .. Limit!Old /\ x1'[i] <= x1[i] + 1
        OBVIOUS
    <2>1. x1'[i] = IF x1[i] < Limit!Old THEN x1[i] + 1 ELSE Limit!Old
        BY <1>2
    <2>2. x1[i] \in 0 .. Limit!Old /\ Limit!Old \in Nat
        BY <1>1, <1>3, LimitTypes
    <2> QED
        BY <2>1, <2>2
<1>5. x1' \in Seq(0 .. Limit!Old) /\ x1' \in Seq(Nat) /\ Len(x1') = Len(x1)
    <2>1. Len(x1) \in Nat /\ x1' = [i \in 1 .. Len(x1) |-> x1'[i]]
        BY <1>1, <1>2, LimitTypes
    <2>2. \A i \in 1 .. Len(x1) : x1'[i] \in Nat
        BY <1>1, <1>4, LimitTypes
    <2>3. x1' \in [1 .. Len(x1) -> 0 .. Limit!Old] /\ x1' \in [1 .. Len(x1) -> Nat]
        BY <1>4, <2>1, <2>2
    <2> QED
        BY <2>1, <2>3, IsSeqOf
<1>6. x3' \in [0 .. RequestWindow -> Nat]
    <2>1. \A age \in 0 .. RequestWindow : age # 0 => x3[age - 1] \in Nat
        BY <1>1, LimitTypes
    <2> QED
        BY <1>2, <2>1
<1>7. x2' \in [Actors -> -1 .. RequestStall]
    BY <1>1, <1>2, LimitTypes
<1>8. Limit!TypeOK'
    BY <1>1, <1>5, <1>6, <1>7, LimitTypes DEF Limit!TypeOK, Limit!NotReading, Limit!Old
<1>9. ASSUME NEW k \in LimitAges PROVE Young(x1', Up(x3')[k], k + RequestStall)
    <2>1. k \in 0 .. RequestWindow /\ RequestWindow \in Nat /\ x3 \in [0 .. RequestWindow -> Nat] /\ x1 \in Seq(Nat)
        BY <1>1, LimitTypes, LimitAgeOf
    <2>2. Up(x3')[0] = 0 /\ \A j \in 1 .. RequestWindow : Up(x3')[j] = Up(x3)[j - 1]
        <3>1. MovedOn(x3', RequestWindow, x3)
            BY <1>2, <2>1 DEF MovedOn
        <3>2. MovedOn(Up(x3'), RequestWindow, Up(x3))
            BY <1>6, <2>1, <3>1, UpOfShifted
        <3> QED
            BY <3>2 DEF MovedOn
    <2>3. CASE k = 0
        BY <1>5, <2>2, <2>3 DEF Young
    <2>4. CASE k # 0
        <3>1. k - 1 \in LimitAges /\ k \in 1 .. RequestWindow
            BY <2>1, <2>4, LimitTypes, <1>1 DEF LimitAges
        <3>2. Up(x3)[k - 1] \in Nat /\ (k - 1) + RequestStall \in Nat
            BY <2>1, <3>1, LimitAgeOf
        <3>3. Young(x1', Up(x3)[k - 1], ((k - 1) + RequestStall) + 1)
            BY <1>1, <1>4, <1>5, <2>1, <3>1, <3>2, YoungAge
        <3>4. ((k - 1) + RequestStall) + 1 = k + RequestStall
            BY <1>1, <2>1, LimitTypes
        <3> QED
            BY <2>2, <3>1, <3>3, <3>4
    <2> QED
        BY <2>3, <2>4
<1> QED
    BY <1>8, <1>9, LimitInvIs

LEMMA LimitNext == Limit!Bounds /\ Limit!IInv /\ [Limit!Next]_(Limit!vars) => Limit!IInv'
<1> SUFFICES ASSUME Limit!Bounds, Limit!IInv, [Limit!Next]_(Limit!vars) PROVE Limit!IInv'
    OBVIOUS
<1>1. ASSUME x1' = x1, x3' = x3, x2' \in [Actors -> -1 .. RequestStall] PROVE Limit!IInv'
    BY <1>1, LimitInvIs DEF Limit!TypeOK, Limit!NotReading, Limit!Old
<1>2. x2 \in [Actors -> -1 .. RequestStall] /\ RequestStall \in Nat
    BY LimitInvIs, LimitTypes
<1>3. CASE UNCHANGED Limit!vars
    BY <1>1, <1>2, <1>3 DEF Limit!vars
<1>4. ASSUME NEW h \in Actors, Limit!ReadClock(h) PROVE Limit!IInv'
    <2>1. x1' = x1 /\ x3' = x3 /\ x2' \in [Actors -> -1 .. RequestStall]
        BY <1>2, <1>4 DEF Limit!ReadClock
    <2> QED
        BY <1>1, <2>1
<1> QED
    BY <1>3, <1>4, EnterInv, TickOfWindow DEF Limit!Next

LEMMA LimitSafe == Limit!Bounds /\ Limit!IInv => Limit!TypeOK /\ Limit!WindowIsKept
<1> SUFFICES ASSUME Limit!Bounds, Limit!IInv PROVE Limit!TypeOK /\ Limit!WindowIsKept
    OBVIOUS
<1> DEFINE k == RequestWindow - RequestStall - 1
<1>1. Limit!TypeOK /\ \A j \in LimitAges : Young(x1, Up(x3)[j], j + RequestStall)
    BY LimitInvIs
<1>2. k \in LimitAges
    BY <1>1, LimitTypes DEF LimitAges
<1> HIDE DEF k
<1>3. Up(x3)[k] \in Nat /\ Up(x3)[k] <= Len(x1) /\ Len(x1) \in Nat /\ Len(x1) <= MaxRequests /\ MaxRequests \in Nat
    BY <1>1, <1>2, LimitTypes, LimitAgeOf DEF Young
<1>4. Up(x3)[k] <= MaxRequests
    BY <1>3
<1> QED
    BY <1>1, <1>4, GrantedIsUp DEF Limit!WindowIsKept, k

-----------------------------------------------------------------------------
(***************************************************************************)
(* The seller tools.  x1 are the queues of calls, x2 the counter of the    *)
(* day, x3 the cache, x4 the hour, x5 the call under way, x6 the reply, x7 *)
(* the calls since midnight and x8 the calls of an address, by age.        *)
(***************************************************************************)

\* The last count entries of a queue are those that are not older than an age.
Last(s, count, age) ==
    count <= Len(s) /\ \A i \in 1 .. Len(s) : s[i] <= age <=> i > Len(s) - count

\* The entries that are not older than an age, as a fold collects them.
KeptOf(s, age) ==
    (CHOOSE iter : iter = [S \in SUBSET DOMAIN s |->
                              IF S = {} THEN <<>>
                              ELSE IF s[Max(S)] <= age THEN Append(iter[S \ {Max(S)}], s[Max(S)])
                                   ELSE iter[S \ {Max(S)}]])[DOMAIN s]

LEMMA KeptIs == \A a : Tool!Kept(a) = KeptOf(x1[a], CallWindow)
BY DEF Tool!Kept, Tool!FoldLeft, Tool!MapThenFoldSet, Tool!Max, KeptOf, Max

\* The fold that KeptOf chooses takes the elements one by one.
LEMMA KeptFolds ==
    ASSUME NEW s \in Seq(Nat), NEW age \in Nat
    PROVE  \E iter : /\ KeptOf(s, age) = iter[1 .. Len(s)] /\ iter[{}] = <<>>
                     /\ \A k \in 1 .. Len(s) :
                           iter[1 .. k] = IF s[k] <= age THEN Append(iter[1 .. k - 1], s[k]) ELSE iter[1 .. k - 1]
<1> DEFINE n == Len(s)
           A == Seq(Nat)
           F == [i \in 1 .. n |-> [kept \in A |-> IF s[i] <= age THEN Append(kept, s[i]) ELSE kept]]
           Step(f, S) == IF s[Max(S)] <= age THEN Append(f[S \ {Max(S)}], s[Max(S)]) ELSE f[S \ {Max(S)}]
           IsIter(f) == f = [S \in SUBSET DOMAIN s |-> IF S = {} THEN <<>> ELSE Step(f, S)]
<1>1. n \in Nat /\ DOMAIN s = 1 .. n /\ <<>> \in A /\ \A i \in 1 .. n : s[i] \in Nat
    OBVIOUS
<1>2. F \in [1 .. n -> [A -> A]]
    <2>1. \A i \in 1 .. n, kept \in A : (IF s[i] <= age THEN Append(kept, s[i]) ELSE kept) \in A
        BY <1>1, AppendProperties
    <2> QED
        BY <2>1
<1>3. \A S \in SUBSET (1 .. n) : S # {} => Max(S) \in S
    BY <1>1, MaxOf
<1>4. \E f : IsIter(f)
    <2> HIDE DEF A
    <2>1. PICK f : Folds(f, n, <<>>, A, F)
        <3> HIDE DEF F, n
        <3> QED
            BY <1>1, <1>2, FoldExists
    <2>2. \A S \in SUBSET (1 .. n) : f[S] \in A
        BY <2>1 DEF Folds
    <2>3. ASSUME NEW S \in SUBSET (1 .. n), S # {} PROVE f[S] = Step(f, S)
        <3>1. Max(S) \in 1 .. n /\ f[S \ {Max(S)}] \in A /\ f[S] = F[Max(S)][f[S \ {Max(S)}]]
            BY <1>3, <2>1, <2>2, <2>3 DEF Folds
        <3> QED
            BY <3>1
    <2>4. DOMAIN f = SUBSET (1 .. n) /\ f = [S \in DOMAIN f |-> f[S]] /\ f[{}] = <<>>
        BY <2>1 DEF Folds
    <2> HIDE DEF Step, n
    <2>5. f = [S \in SUBSET (1 .. n) |-> IF S = {} THEN <<>> ELSE Step(f, S)]
        BY <2>3, <2>4
    <2> QED
        BY <1>1, <2>5
<1> DEFINE iter == CHOOSE f : IsIter(f)
<1>5. KeptOf(s, age) = iter[DOMAIN s]
    BY DEF KeptOf
<1>6. IsIter(iter)
    <2> HIDE DEF IsIter
    <2> QED
        BY <1>4
<1> HIDE DEF iter
<1>7. \A S \in SUBSET (1 .. n) : iter[S] = IF S = {} THEN <<>> ELSE Step(iter, S)
    <2> HIDE DEF Step
    <2> QED
        BY <1>1, <1>6
<1>8. ASSUME NEW k \in 1 .. n
      PROVE  iter[1 .. k] = IF s[k] <= age THEN Append(iter[1 .. k - 1], s[k]) ELSE iter[1 .. k - 1]
    <2>1. 1 .. k \in SUBSET (1 .. n) /\ 1 .. k # {} /\ (1 .. k) \ {k} = 1 .. k - 1 /\ k \in 1 .. k /\ k \in Nat
        <3>1. k \in Nat /\ k \in 1 .. k /\ 1 .. k # {}
            <4>1. k \in Nat /\ 1 <= k
                BY <1>1
            <4>2. k \in 1 .. k
                BY <4>1
            <4> QED
                BY <4>1, <4>2
        <3>2. 1 .. k \in SUBSET (1 .. n)
            BY <1>1
        <3>3. (1 .. k) \ {k} = 1 .. k - 1
            BY <1>1
        <3> QED
            BY <3>1, <3>2, <3>3
    <2>2. Max(1 .. k) \in 1 .. k /\ \A x \in 1 .. k : x <= Max(1 .. k)
        BY <2>1, MaxOf
    <2>3. Max(1 .. k) = k
        BY <2>1, <2>2
    <2>4. iter[1 .. k] = Step(iter, 1 .. k)
        <3> HIDE DEF Step
        <3> QED
            BY <1>7, <2>1
    <2> QED
        BY <2>1, <2>3, <2>4
<1>9. iter[{}] = <<>>
    BY <1>7
<1> QED
    BY <1>1, <1>5, <1>8, <1>9

\* When those that are not older are the last ones, they are what is left of the queue.
LEMMA KeptIsEnd ==
    ASSUME NEW s \in Seq(Nat), NEW age \in Nat, NEW count \in Nat, Last(s, count, age)
    PROVE  KeptOf(s, age) = SubSeq(s, Len(s) - count + 1, Len(s))
<1> DEFINE n == Len(s)
           first == n - count + 1
<1>1. n \in Nat /\ first \in 1 .. n + 1 /\ \A i \in 1 .. n : s[i] \in Nat /\ (s[i] <= age <=> i >= first)
    BY DEF Last
<1>2. PICK iter : /\ KeptOf(s, age) = iter[1 .. n] /\ iter[{}] = <<>>
                  /\ \A k \in 1 .. n : iter[1 .. k] = IF s[k] <= age THEN Append(iter[1 .. k - 1], s[k])
                                                      ELSE iter[1 .. k - 1]
    BY KeptFolds
<1> HIDE DEF first
<1> DEFINE done == {k \in 0 .. n : iter[1 .. k] = SubSeq(s, first, k)}
<1>3. 0 \in done
    <2>1. 1 .. 0 = {}
        OBVIOUS
    <2>2. SubSeq(s, first, 0) = <<>>
        <3>1. first \in Int /\ 0 \in Int /\ 0 < first
            BY <1>1
        <3> QED
            BY <3>1, SubSeqEmpty
    <2>3. iter[1 .. 0] = SubSeq(s, first, 0)
        BY <1>2, <2>1, <2>2
    <2> QED
        BY <1>1, <2>3
<1>4. ASSUME NEW k \in 0 .. n - 1, k \in done PROVE k + 1 \in done
    <2>1. /\ k + 1 \in 1 .. n /\ (k + 1) - 1 = k /\ k \in Int /\ first \in Int
          /\ iter[1 .. k] = SubSeq(s, first, k)
        <3>1. iter[1 .. k] = SubSeq(s, first, k)
            BY <1>4
        <3> HIDE DEF done, n
        <3>2. k + 1 \in 1 .. n /\ (k + 1) - 1 = k /\ k \in Int /\ first \in Int
            BY <1>1
        <3> QED
            BY <3>1, <3>2
    <2>2. iter[1 .. k + 1] = IF s[k + 1] <= age THEN Append(iter[1 .. k], s[k + 1]) ELSE iter[1 .. k]
        <3> HIDE DEF done, n
        <3> QED
            BY <1>2, <2>1
    <2>3. iter[1 .. k + 1] = SubSeq(s, first, k + 1)
        <3>1. CASE k + 1 < first
            <4>1. SubSeq(s, first, k) = <<>> /\ SubSeq(s, first, k + 1) = <<>>
                BY <2>1, <3>1, SubSeqEmpty
            <4>2. ~(s[k + 1] <= age)
                BY <1>1, <2>1, <3>1
            <4> QED
                BY <2>1, <2>2, <4>1, <4>2
        <3>2. CASE k + 1 >= first
            <4>1. s[k + 1] <= age /\ iter[1 .. k + 1] = Append(SubSeq(s, first, k), s[k + 1])
                BY <1>1, <2>1, <2>2, <3>2
            <4>2. first \in 1 .. Len(s) /\ k + 1 \in first .. Len(s)
                BY <1>1, <2>1, <3>2
            <4>3. SubSeq(s, first, k + 1) = SubSeq(s, first, (k + 1) - 1) \o <<s[k + 1]>>
                BY <4>2, SubSeqRecursiveSecond
            <4>4. SubSeq(s, first, k) \in Seq(Nat)
                <5>1. ASSUME NEW i \in first .. k PROVE s[i] \in Nat
                    <6>1. i \in 1 .. n
                        BY <1>1, <2>1
                    <6> HIDE DEF n
                    <6> QED
                        BY <1>1, <6>1
                <5> QED
                    BY <2>1, <5>1, SubSeqProperties
            <4>5. Append(SubSeq(s, first, k), s[k + 1]) = SubSeq(s, first, k) \o <<s[k + 1]>>
                BY <1>1, <2>1, <4>4, AppendIsConcat
            <4> QED
                BY <2>1, <4>1, <4>3, <4>5
        <3> QED
            BY <1>1, <2>1, <3>1, <3>2
    <2> QED
        BY <1>1, <2>1, <2>3
<1>5. \A k \in 0 .. n - 1 : k \in done => k + 1 \in done
    BY <1>4
<1> HIDE DEF done
<1>6. 0 .. n \subseteq done
    BY <1>1, <1>3, <1>5, UpTo
<1>7. n \in done
    BY <1>1, <1>6
<1> QED
    BY <1>2, <1>7 DEF done, first

\* What is cut off at the front is older than the age, and stays out of every younger count.
LEMMA LastStay ==
    ASSUME NEW s \in Seq(Nat), NEW oldest \in Nat, NEW all \in Nat, Last(s, all, oldest),
           NEW age \in Nat, NEW count \in Nat, Last(s, count, age), age <= oldest
    PROVE  Last(SubSeq(s, Len(s) - all + 1, Len(s)), count, age)
<1> DEFINE n == Len(s)
           t == SubSeq(s, n - all + 1, n)
<1>1. n \in Nat /\ all <= n /\ \A i \in 1 .. n : s[i] \in Nat
    BY DEF Last
<1>2. Len(t) = all /\ \A i \in 1 .. all : t[i] = s[n - all + i]
    <2>1. n - all + 1 \in 1 .. n + 1 /\ n \in Int
        BY <1>1
    <2>2. \A i \in n - all + 1 .. n : s[i] \in Nat
        <3>1. n - all + 1 .. n \subseteq 1 .. n
            BY <1>1
        <3> HIDE DEF n
        <3> QED
            BY <1>1, <3>1
    <2>3. Len(t) = n - (n - all + 1) + 1 /\ \A i \in 1 .. n - (n - all + 1) + 1 : t[i] = s[(n - all + 1) + i - 1]
        <3>1. CASE n - all + 1 <= n
            BY <2>1, <2>2, <3>1, SubSeqProperties
        <3>2. CASE n - all + 1 > n
            <4>1. t = <<>> /\ n - (n - all + 1) + 1 = 0
                <5>1. n < n - all + 1
                    BY <1>1, <3>2
                <5>2. t = <<>>
                    BY <2>1, <5>1, SubSeqEmpty
                <5> QED
                    BY <1>1, <2>1, <5>1, <5>2
            <4> HIDE DEF t, n
            <4> QED
                BY <4>1
        <3> QED
            BY <1>1, <3>1, <3>2
    <2>4. n - (n - all + 1) + 1 = all /\ \A i \in 1 .. all : (n - all + 1) + i - 1 = n - all + i
        BY <1>1
    <2> HIDE DEF t, n
    <2> QED
        BY <2>3, <2>4
<1>3. count <= all
    <2> SUFFICES ASSUME count > all PROVE FALSE
        OBVIOUS
    <2>1. n - all \in 1 .. n /\ n - all > n - count /\ ~(n - all > n - all)
        BY <1>1 DEF Last
    <2>2. s[n - all] <= age /\ ~(s[n - all] <= oldest) /\ s[n - all] \in Nat
        BY <1>1, <2>1 DEF Last
    <2> QED
        BY <2>2
<1> HIDE DEF t
<1>4. ASSUME NEW i \in 1 .. all PROVE t[i] <= age <=> i > all - count
    <2>1. n - all + i \in 1 .. n /\ t[i] = s[n - all + i]
        BY <1>1, <1>2
    <2>2. s[n - all + i] <= age <=> n - all + i > n - count
        BY <2>1 DEF Last
    <2>3. n - all + i > n - count <=> i > all - count
        BY <1>1
    <2> QED
        BY <2>1, <2>2, <2>3
<1>5. Last(t, count, age)
    BY <1>2, <1>3, <1>4 DEF Last
<1> QED
    BY <1>5 DEF t

\* A call that has just been made is not older than any age.
LEMMA LastEnter ==
    ASSUME NEW s \in Seq(Nat), NEW age \in Nat, NEW count \in Nat, Last(s, count, age)
    PROVE  Last(Append(s, 0), count + 1, age)
<1> DEFINE t == Append(s, 0)
<1>1. /\ Len(s) \in Nat /\ Len(t) = Len(s) + 1 /\ t[Len(s) + 1] = 0
      /\ \A i \in 1 .. Len(s) : t[i] = s[i]
    OBVIOUS
<1> HIDE DEF t
<1>2. ASSUME NEW i \in 1 .. Len(s) + 1 PROVE t[i] <= age <=> i > (Len(s) + 1) - (count + 1)
    <2>1. CASE i = Len(s) + 1
        BY <1>1, <2>1
    <2>2. CASE i # Len(s) + 1
        <3>1. i \in 1 .. Len(s)
            BY <1>1, <2>2
        <3> QED
            BY <1>1, <3>1 DEF Last
    <2> QED
        BY <2>1, <2>2
<1>3. Last(t, count + 1, age)
    BY <1>1, <1>2 DEF Last
<1> QED
    BY <1>3 DEF t

\* A tick makes all entries older by one, up to an age beyond those that are counted.
Aged(t, s, cap) ==
    Len(t) = Len(s) /\ \A i \in 1 .. Len(s) : t[i] = IF s[i] < cap THEN s[i] + 1 ELSE cap

LEMMA LastAge ==
    ASSUME NEW s \in Seq(Nat), NEW t, NEW cap \in Nat, Aged(t, s, cap),
           \A i \in 1 .. Len(s) : s[i] <= cap,
           NEW age \in Nat, NEW count \in Nat, Last(s, count, age), age + 1 < cap
    PROVE  Last(t, count, age + 1)
<1>1. ASSUME NEW i \in 1 .. Len(s) PROVE t[i] <= age + 1 <=> s[i] <= age
    <2>1. s[i] \in Nat /\ t[i] = IF s[i] < cap THEN s[i] + 1 ELSE cap
        BY DEF Aged
    <2> QED
        BY <2>1
<1> QED
    BY <1>1 DEF Last, Aged

LEMMA LastNew ==
    ASSUME NEW s \in Seq(Nat), NEW t, NEW cap \in Nat \ {0}, Aged(t, s, cap)
    PROVE  Last(t, 0, 0)
<1>1. ASSUME NEW i \in 1 .. Len(s) PROVE ~(t[i] <= 0)
    <2>1. s[i] \in Nat /\ t[i] = IF s[i] < cap THEN s[i] + 1 ELSE cap
        BY DEF Aged
    <2> QED
        BY <2>1
<1> QED
    BY <1>1 DEF Last, Aged

\* The parts of the invariant of the tools, of the variables as they are in a state.
ToolQueues(s, g) ==
    /\ s \in [Addresses -> Seq(0 .. CallWindow + 1)]
    /\ g \in [Addresses -> [0 .. CallWindow -> Nat]]
    /\ \A a \in Addresses, age \in 0 .. CallWindow : Last(s[a], Running(CallWindow, g[a])[age], age)
    /\ \A a \in Addresses : Running(CallWindow, g[a])[CallWindow] <= MaxCalls

ToolDay(c, made) ==
    /\ c \in [day : BOOLEAN, count : 0 .. DailyCap] /\ made \in Nat
    /\ made <= DailyCap
    /\ c.day => c.count = made
    /\ c.day \/ made = 0

Held(c) == {q \in Tool!Inquiries : c[q] # Tool!NotCached}

ToolCache(c) ==
    /\ c \in [Tool!Inquiries -> [age : -1 .. Tool!AgeCap, answer : Tool!Answers]]
    /\ \A q \in Held(c) : q.input \in Tool!Takes(q.tool) /\ c[q].answer \in Tool!Usable(q.tool)
    /\ IsFiniteSet(Held(c)) /\ Cardinality(Held(c)) <= MaxEntries

ToolCall(c) ==
    /\ c = Tool!NoCall \/ c \in [step : {"ask"}, inquiry : Tool!Inquiries]
    /\ c.step = "ask" => c.inquiry.input \in Tool!Takes(c.inquiry.tool)

ToolReply(r) ==
    /\ r \in [status : {"none", "ok", "degraded", "error"}, answer : Tool!Answers, age : Nat]
    /\ r.status = "ok" => r.answer # "unreadable" /\ r.age <= AnswerLifetime

LEMMA ToolCalled ==
    /\ \A a, age : Tool!Called(a, age) = Running(CallWindow, x8[a])[age]
    /\ \A a, age : Tool!Called(a, age)' = Running(CallWindow, x8'[a])[age]
BY DEF Tool!Called, Running

LEMMA ToolInvIs ==
    /\ Tool!IInv <=> /\ ToolQueues(x1, x8) /\ ToolDay(x2, x7) /\ ToolCache(x3)
                     /\ x4 \in 0 .. DayLength - 1 /\ ToolCall(x5) /\ ToolReply(x6)
    /\ Tool!IInv' <=> /\ ToolQueues(x1', x8') /\ ToolDay(x2', x7') /\ ToolCache(x3')
                      /\ x4' \in 0 .. DayLength - 1 /\ ToolCall(x5') /\ ToolReply(x6')
<1>1. /\ Tool!Entries = Held(x3) /\ Tool!Entries' = Held(x3')
      /\ \A S : Tool!IsFiniteSet(S) <=> IsFiniteSet(S)
      /\ \A S : Tool!Cardinality(S) = Cardinality(S)
    BY DEF Tool!Entries, Held, Tool!IsFiniteSet, IsFiniteSet, Tool!Cardinality, Cardinality
<1>2. /\ \A a, age, count : Tool!YoungAreLast(a, age, count) <=> Last(x1[a], count, age)
      /\ \A a, age, count : Tool!YoungAreLast(a, age, count)' <=> Last(x1'[a], count, age)
    BY DEF Tool!YoungAreLast, Last
<1>3. Tool!IInv <=> /\ ToolQueues(x1, x8) /\ ToolDay(x2, x7) /\ ToolCache(x3)
                    /\ x4 \in 0 .. DayLength - 1 /\ ToolCall(x5) /\ ToolReply(x6)
    BY <1>1, <1>2, ToolCalled DEF Tool!IInv, Tool!TypeOK, Tool!BudgetIsKept, Tool!AnswersAreUsable, ToolQueues,
       ToolDay, ToolCache, ToolCall, ToolReply
<1>4. Tool!IInv' <=> /\ ToolQueues(x1', x8') /\ ToolDay(x2', x7') /\ ToolCache(x3')
                     /\ x4' \in 0 .. DayLength - 1 /\ ToolCall(x5') /\ ToolReply(x6')
    BY <1>1, <1>2, ToolCalled DEF Tool!IInv, Tool!TypeOK, Tool!BudgetIsKept, Tool!AnswersAreUsable, ToolQueues,
       ToolDay, ToolCache, ToolCall, ToolReply
<1> QED
    BY <1>3, <1>4

LEMMA ToolBounds ==
    ASSUME Tool!Bounds
    PROVE  /\ CallWindow \in Nat /\ MaxCalls \in Nat /\ DailyCap \in Nat /\ DayLength \in Nat \ {0}
           /\ AnswerLifetime \in Nat /\ MaxEntries \in Nat \ {0} /\ Evicted \in Nat \ {0}
           /\ \A q \in Tool!Inquiries : q.tool \in Tool!AllTools
           /\ Tool!AgeCap = AnswerLifetime + 1 /\ "unreadable" \in Tool!Answers
BY DEF Tool!Bounds, Tool!Inquiries, Tool!AgeCap, Tool!Answers

\* No tool can use an answer that cannot be read.
LEMMA UsableIsReadable ==
    ASSUME NEW tool \in Tool!AllTools
    PROVE  "unreadable" \notin Tool!Usable(tool)
BY DEF Tool!AllTools, Tool!Usable, Tool!TitleUses, Tool!KeywordUses, Tool!DescriptionUses, Tool!ComplianceUses,
   Tool!CompetitorUses, Tool!OutlineUses, Tool!ReviewUses, Tool!ReplyUses

\* What a queue is left with: no entry that counts is lost.
LEMMA ToolKept ==
    ASSUME Tool!Bounds, ToolQueues(x1, x8), NEW a \in Addresses
    PROVE  /\ Tool!Kept(a) \in Seq(0 .. CallWindow + 1)
           /\ Len(Tool!Kept(a)) = Running(CallWindow, x8[a])[CallWindow]
           /\ \A age \in 0 .. CallWindow : Last(Tool!Kept(a), Running(CallWindow, x8[a])[age], age)
<1> DEFINE s == x1[a]
           g == x8[a]
           n == Len(s)
           count(age) == Running(CallWindow, g)[age]
           all == count(CallWindow)
           left == SubSeq(s, n - all + 1, n)
<1>1. s \in Seq(0 .. CallWindow + 1) /\ g \in [0 .. CallWindow -> Nat] /\ CallWindow \in Nat
    BY ToolBounds DEF ToolQueues
<1>2. s \in Seq(Nat) /\ n \in Nat
    BY <1>1
<1>3. \A age \in 0 .. CallWindow : Last(s, count(age), age)
    BY DEF ToolQueues
<1>4. \A age \in 0 .. CallWindow : count(age) \in Nat
    BY <1>1, RunningIsSum DEF RunningSum
<1> HIDE DEF s, g, count
<1>5. CallWindow \in 0 .. CallWindow /\ all \in Nat /\ Last(s, all, CallWindow)
    BY <1>1, <1>3, <1>4
<1> HIDE DEF all
<1>6. Tool!Kept(a) = left
    BY <1>1, <1>2, <1>5, KeptIs, KeptIsEnd DEF s
<1>7. all <= n
    BY <1>5 DEF Last
<1>8. left \in Seq(0 .. CallWindow + 1) /\ Len(left) = all
    <2>1. \A i \in n - all + 1 .. n : s[i] \in 0 .. CallWindow + 1
        <3>1. n - all + 1 .. n \subseteq 1 .. n
            BY <1>2, <1>5, <1>7
        <3>2. \A i \in 1 .. n : s[i] \in 0 .. CallWindow + 1
            BY <1>1
        <3> HIDE DEF n
        <3> QED
            BY <3>1, <3>2
    <2>2. n - all + 1 \in Int /\ n \in Int
        BY <1>2, <1>5
    <2>3. left \in Seq(0 .. CallWindow + 1)
          /\ Len(left) = IF n - all + 1 <= n THEN n - (n - all + 1) + 1 ELSE 0
        <3> HIDE DEF n
        <3> QED
            BY <2>1, <2>2, SubSeqProperties
    <2> HIDE DEF left, n
    <2> QED
        BY <1>2, <1>5, <1>7, <2>3
<1>9. \A age \in 0 .. CallWindow : Last(left, count(age), age)
    <2> SUFFICES ASSUME NEW age \in 0 .. CallWindow PROVE Last(left, count(age), age)
        OBVIOUS
    <2>1. age \in Nat /\ age <= CallWindow /\ count(age) \in Nat /\ Last(s, count(age), age)
        BY <1>1, <1>3, <1>4
    <2> QED
        BY <1>1, <1>2, <1>5, <2>1, LastStay
<1> HIDE DEF left
<1> QED
    BY <1>6, <1>8, <1>9 DEF all, count, g

\* A call is refused, and its queue may have been tidied up; or it is counted.
LEMMA QueuesTidied ==
    ASSUME Tool!Bounds, ToolQueues(x1, x8), NEW a \in Addresses
    PROVE  ToolQueues([x1 EXCEPT ![a] = Tool!Kept(a)], x8)
BY ToolKept DEF ToolQueues

LEMMA CallCounted ==
    ASSUME Tool!Bounds, ToolQueues(x1, x8), NEW a \in Addresses, Len(Tool!Kept(a)) < MaxCalls
    PROVE  ToolQueues([x1 EXCEPT ![a] = Append(Tool!Kept(a), 0)], [x8 EXCEPT ![a][0] = @ + 1])
<1> DEFINE left == Tool!Kept(a)
           s == [x1 EXCEPT ![a] = Append(left, 0)]
           g == x8[a]
           more == [g EXCEPT ![0] = @ + 1]
           gs == [x8 EXCEPT ![a] = more]
           count(age) == Running(CallWindow, g)[age]
<1>1. CallWindow \in Nat /\ MaxCalls \in Nat /\ 0 \in 0 .. CallWindow
    BY ToolBounds
<1>2. g \in [0 .. CallWindow -> Nat] /\ more \in [0 .. CallWindow -> Nat]
    BY <1>1 DEF ToolQueues
<1>3. /\ left \in Seq(0 .. CallWindow + 1) /\ Len(left) = count(CallWindow) /\ Len(left) < MaxCalls
      /\ \A age \in 0 .. CallWindow : Last(left, count(age), age)
    BY ToolKept
<1>4. x1 \in [Addresses -> Seq(0 .. CallWindow + 1)] /\ x8 \in [Addresses -> [0 .. CallWindow -> Nat]]
    BY DEF ToolQueues
<1>5. \A age \in 0 .. CallWindow : count(age) \in Nat
    BY <1>1, <1>2, RunningIsSum DEF RunningSum
<1>6. \A age \in 0 .. CallWindow : Running(CallWindow, more)[age] = count(age) + 1
    <2>1. MoreAtStart(more, CallWindow, g)
        BY <1>1, <1>2 DEF MoreAtStart
    <2>2. RunningSum(Running(CallWindow, g), CallWindow, g) /\ RunningSum(Running(CallWindow, more), CallWindow, more)
        BY <1>1, <1>2, RunningIsSum
    <2> HIDE DEF g, more
    <2>3. MoreEverywhere(Running(CallWindow, more), CallWindow, Running(CallWindow, g))
        BY <1>1, <1>2, <2>1, <2>2, RunningOfMore
    <2> QED
        BY <2>3 DEF MoreEverywhere
<1> HIDE DEF left, g, count
<1>7. \A age \in 0 .. CallWindow : Last(Append(left, 0), count(age) + 1, age)
    <2> SUFFICES ASSUME NEW age \in 0 .. CallWindow PROVE Last(Append(left, 0), count(age) + 1, age)
        OBVIOUS
    <2>1. left \in Seq(Nat) /\ age \in Nat /\ count(age) \in Nat /\ Last(left, count(age), age)
        BY <1>1, <1>3, <1>5
    <2> QED
        BY <2>1, LastEnter
<1>8. Append(left, 0) \in Seq(0 .. CallWindow + 1)
    BY <1>1, <1>3
<1>9. s \in [Addresses -> Seq(0 .. CallWindow + 1)] /\ s[a] = Append(left, 0)
      /\ \A b \in Addresses : b # a => s[b] = x1[b]
    BY <1>4, <1>8
<1> HIDE DEF more
<1>10. gs \in [Addresses -> [0 .. CallWindow -> Nat]] /\ gs[a] = more
       /\ \A b \in Addresses : b # a => gs[b] = x8[b]
    BY <1>2, <1>4
<1>11. [x8 EXCEPT ![a][0] = @ + 1] = gs
    BY DEF g, more
<1> HIDE DEF s, gs
<1>12. CallWindow \in 0 .. CallWindow /\ count(CallWindow) + 1 <= MaxCalls
    BY <1>1, <1>3, <1>5
<1>13. \A b \in Addresses, age \in 0 .. CallWindow : Last(s[b], Running(CallWindow, gs[b])[age], age)
    BY <1>6, <1>7, <1>9, <1>10 DEF ToolQueues
<1>14. \A b \in Addresses : Running(CallWindow, gs[b])[CallWindow] <= MaxCalls
    BY <1>6, <1>10, <1>12 DEF ToolQueues
<1>15. ToolQueues(s, gs)
    BY <1>9, <1>10, <1>13, <1>14 DEF ToolQueues
<1> QED
    BY <1>11, <1>15 DEF s, left

\* All are older by a tick, and so are the calls they stand for.
LEMMA QueuesAge ==
    ASSUME Tool!Bounds, ToolQueues(x1, x8)
    PROVE  ToolQueues([a \in Addresses |-> [i \in DOMAIN x1[a] |-> Tool!Older(x1[a][i], CallWindow + 1)]],
                      [a \in Addresses |->
                          [age \in 0 .. CallWindow |-> IF age = 0 THEN 0 ELSE x8[a][age - 1]]])
<1> DEFINE older(s) == [i \in DOMAIN s |-> Tool!Older(s[i], CallWindow + 1)]
           moved(g) == [age \in 0 .. CallWindow |-> IF age = 0 THEN 0 ELSE g[age - 1]]
<1>1. CallWindow \in Nat /\ MaxCalls \in Nat /\ CallWindow + 1 \in Nat \ {0} /\ CallWindow \in 0 .. CallWindow
    BY ToolBounds
<1>2. ASSUME NEW a \in Addresses
      PROVE  /\ older(x1[a]) \in Seq(0 .. CallWindow + 1) /\ moved(x8[a]) \in [0 .. CallWindow -> Nat]
             /\ \A age \in 0 .. CallWindow :
                   Last(older(x1[a]), Running(CallWindow, moved(x8[a]))[age], age)
             /\ Running(CallWindow, moved(x8[a]))[CallWindow] <= MaxCalls
    <2> DEFINE s == x1[a]
               g == x8[a]
               t == older(s)
               h == moved(g)
               f == Running(CallWindow, g)
               u == Running(CallWindow, h)
    <2>1. /\ s \in Seq(0 .. CallWindow + 1) /\ g \in [0 .. CallWindow -> Nat]
          /\ \A age \in 0 .. CallWindow : Last(s, f[age], age)
          /\ f[CallWindow] <= MaxCalls
        BY DEF ToolQueues
    <2> HIDE DEF s, g
    <2>2. s \in Seq(Nat) /\ Len(s) \in Nat /\ DOMAIN s = 1 .. Len(s)
          /\ \A i \in 1 .. Len(s) : s[i] \in 0 .. CallWindow + 1
        BY <1>1, <2>1
    <2>3. t \in Seq(0 .. CallWindow + 1) /\ Aged(t, s, CallWindow + 1)
        <3>1. \A i \in 1 .. Len(s) : Tool!Older(s[i], CallWindow + 1) \in 0 .. CallWindow + 1
            BY <1>1, <2>2 DEF Tool!Older
        <3>2. t \in [1 .. Len(s) -> 0 .. CallWindow + 1] /\ t = [i \in 1 .. Len(s) |-> t[i]]
            BY <2>2, <3>1
        <3>3. t \in Seq(0 .. CallWindow + 1) /\ Len(t) = Len(s)
            <4> HIDE DEF t
            <4> QED
                BY <2>2, <3>2, IsSeqOf
        <3>4. \A i \in 1 .. Len(s) : t[i] = IF s[i] < CallWindow + 1 THEN s[i] + 1 ELSE CallWindow + 1
            BY <2>2 DEF Tool!Older
        <3> QED
            BY <3>3, <3>4 DEF Aged
    <2>4. h \in [0 .. CallWindow -> Nat] /\ MovedOn(h, CallWindow, g)
        BY <1>1, <2>1 DEF MovedOn
    <2> HIDE DEF t, h
    <2>5. RunningSum(f, CallWindow, g) /\ RunningSum(u, CallWindow, h)
        BY <1>1, <2>1, <2>4, RunningIsSum
    <2> HIDE DEF f, u
    <2>6. MovedOn(u, CallWindow, f)
        BY <1>1, <2>1, <2>4, <2>5, RunningOfShifted
    <2>7. f \in [0 .. CallWindow -> Nat] /\ u \in [0 .. CallWindow -> Nat]
        BY <2>5 DEF RunningSum
    <2>8. ASSUME NEW age \in 0 .. CallWindow PROVE Last(t, u[age], age)
        <3>1. CASE age = 0
            BY <1>1, <2>2, <2>3, <2>6, <3>1, LastNew DEF MovedOn
        <3>2. CASE age # 0
            <4>1. age - 1 \in Nat /\ age - 1 \in 0 .. CallWindow /\ age \in 1 .. CallWindow
                  /\ (age - 1) + 1 = age /\ age < CallWindow + 1
                BY <1>1, <3>2
            <4>2. u[age] = f[age - 1] /\ f[age - 1] \in Nat /\ Last(s, f[age - 1], age - 1)
                BY <2>1, <2>6, <2>7, <4>1 DEF MovedOn
            <4>3. \A i \in 1 .. Len(s) : s[i] <= CallWindow + 1
                BY <1>1, <2>2
            <4>4. Last(t, f[age - 1], (age - 1) + 1)
                BY <1>1, <2>2, <2>3, <4>1, <4>2, <4>3, LastAge
            <4> QED
                BY <4>1, <4>2, <4>4
        <3> QED
            BY <3>1, <3>2
    <2>9. u[CallWindow] <= MaxCalls
        <3>1. CASE CallWindow = 0
            BY <1>1, <2>6, <3>1 DEF MovedOn
        <3>2. CASE CallWindow # 0
            <4>1. CallWindow \in 1 .. CallWindow /\ CallWindow - 1 \in 0 .. CallWindow
                BY <1>1, <3>2
            <4>2. u[CallWindow] = f[CallWindow - 1]
                BY <2>6, <4>1 DEF MovedOn
            <4>3. f[CallWindow] = g[CallWindow] + f[CallWindow - 1] /\ g[CallWindow] \in Nat
                BY <2>1, <2>5, <4>1 DEF RunningSum
            <4>4. f[CallWindow - 1] \in Nat
                BY <2>7, <4>1
            <4> QED
                BY <1>1, <2>1, <4>2, <4>3, <4>4
        <3> QED
            BY <3>1, <3>2
    <2> QED
        BY <2>3, <2>4, <2>8, <2>9 DEF s, g, t, h, u
<1> DEFINE s1 == [a \in Addresses |-> older(x1[a])]
           s8 == [a \in Addresses |-> moved(x8[a])]
<1> HIDE DEF older, moved
<1>3. \A a \in Addresses : s1[a] = older(x1[a]) /\ s8[a] = moved(x8[a])
    OBVIOUS
<1>4. s1 \in [Addresses -> Seq(0 .. CallWindow + 1)] /\ s8 \in [Addresses -> [0 .. CallWindow -> Nat]]
    BY <1>2
<1> HIDE DEF s1, s8
<1>5. ToolQueues(s1, s8)
    BY <1>2, <1>3, <1>4 DEF ToolQueues
<1> QED
    BY <1>5 DEF s1, s8, older, moved

\* What an expired or missing entry leaves, what ages, and what is put in.
LEMMA CacheDrops ==
    ASSUME Tool!Bounds, ToolCache(x3), NEW q \in Tool!Inquiries
    PROVE  ToolCache([x3 EXCEPT ![q] = Tool!NotCached])
<1> DEFINE c == [x3 EXCEPT ![q] = Tool!NotCached]
<1>1. x3 \in [Tool!Inquiries -> [age : -1 .. Tool!AgeCap, answer : Tool!Answers]]
    BY DEF ToolCache
<1>2. Tool!NotCached \in [age : -1 .. Tool!AgeCap, answer : Tool!Answers]
    BY ToolBounds DEF Tool!NotCached
<1>3. c \in [Tool!Inquiries -> [age : -1 .. Tool!AgeCap, answer : Tool!Answers]]
      /\ c[q] = Tool!NotCached /\ \A r \in Tool!Inquiries : r # q => c[r] = x3[r]
    BY <1>1, <1>2
<1> HIDE DEF c
<1>4. Held(c) \subseteq Held(x3) /\ \A r \in Held(c) : c[r] = x3[r]
    BY <1>3 DEF Held
<1>5. IsFiniteSet(Held(c)) /\ Cardinality(Held(c)) <= Cardinality(Held(x3))
      /\ Cardinality(Held(c)) \in Nat /\ Cardinality(Held(x3)) \in Nat
    BY <1>4, FS_Subset, FS_CardinalityType DEF ToolCache
<1>6. Cardinality(Held(c)) <= MaxEntries
    BY <1>5, ToolBounds DEF ToolCache
<1>7. ToolCache(c)
    BY <1>3, <1>4, <1>5, <1>6 DEF ToolCache
<1> QED
    BY <1>7 DEF c

LEMMA CacheAges ==
    ASSUME Tool!Bounds, ToolCache(x3)
    PROVE  ToolCache([q \in Tool!Inquiries |->
                         IF x3[q] = Tool!NotCached THEN Tool!NotCached
                         ELSE [x3[q] EXCEPT !.age = Tool!Older(@, Tool!AgeCap)]])
<1> DEFINE c == [q \in Tool!Inquiries |->
                    IF x3[q] = Tool!NotCached THEN Tool!NotCached
                    ELSE [x3[q] EXCEPT !.age = Tool!Older(@, Tool!AgeCap)]]
<1>1. /\ x3 \in [Tool!Inquiries -> [age : -1 .. Tool!AgeCap, answer : Tool!Answers]]
      /\ Tool!AgeCap \in Nat
    BY ToolBounds DEF ToolCache
<1>2. ASSUME NEW q \in Tool!Inquiries
      PROVE  /\ c[q] \in [age : -1 .. Tool!AgeCap, answer : Tool!Answers] /\ c[q].answer = x3[q].answer
             /\ c[q] = Tool!NotCached <=> x3[q] = Tool!NotCached
    <2>1. x3[q] \in [age : -1 .. Tool!AgeCap, answer : Tool!Answers]
        BY <1>1
    <2>2. CASE x3[q] = Tool!NotCached
        BY <2>1, <2>2
    <2>3. CASE x3[q] # Tool!NotCached
        <3>1. c[q] = [x3[q] EXCEPT !.age = Tool!Older(x3[q].age, Tool!AgeCap)]
            BY <2>3
        <3>2. Tool!Older(x3[q].age, Tool!AgeCap) \in 0 .. Tool!AgeCap
            BY <1>1, <2>1 DEF Tool!Older
        <3>3. c[q] = [age |-> Tool!Older(x3[q].age, Tool!AgeCap), answer |-> x3[q].answer]
            BY <2>1, <3>1
        <3>4. c[q].age # -1
            BY <1>1, <3>2, <3>3
        <3> HIDE DEF c
        <3> QED
            BY <1>1, <2>1, <2>3, <3>2, <3>3, <3>4 DEF Tool!NotCached
    <2> QED
        BY <2>2, <2>3
<1>3. c \in [Tool!Inquiries -> [age : -1 .. Tool!AgeCap, answer : Tool!Answers]]
    <2>1. c = [q \in Tool!Inquiries |-> c[q]]
        OBVIOUS
    <2> HIDE DEF c
    <2> QED
        BY <1>2, <2>1
<1> HIDE DEF c
<1>4. Held(c) = Held(x3)
    BY <1>2 DEF Held
<1>5. \A q \in Held(c) : c[q].answer = x3[q].answer
    BY <1>2 DEF Held
<1>6. ToolCache(c)
    BY <1>3, <1>4, <1>5 DEF ToolCache
<1> QED
    BY <1>6 DEF c

\* A full cache makes room first, so one more entry fits.
LEMMA CachePuts ==
    ASSUME Tool!Bounds, ToolCache(x3), NEW q \in Tool!Inquiries, q.input \in Tool!Takes(q.tool),
           NEW answer \in Tool!Answers, answer \in Tool!Usable(q.tool), NEW out \in Tool!Evictions
    PROVE  ToolCache([r \in Tool!Inquiries |-> IF r = q THEN [age |-> 0, answer |-> answer]
                                               ELSE IF r \in out THEN Tool!NotCached ELSE x3[r]])
<1> DEFINE c == [r \in Tool!Inquiries |-> IF r = q THEN [age |-> 0, answer |-> answer]
                                          ELSE IF r \in out THEN Tool!NotCached ELSE x3[r]]
           E == Held(x3)
<1>1. x3 \in [Tool!Inquiries -> [age : -1 .. Tool!AgeCap, answer : Tool!Answers]]
    BY DEF ToolCache
<1>2. /\ Tool!NotCached \in [age : -1 .. Tool!AgeCap, answer : Tool!Answers]
      /\ [age |-> 0, answer |-> answer] \in [age : -1 .. Tool!AgeCap, answer : Tool!Answers]
      /\ [age |-> 0, answer |-> answer] # Tool!NotCached
    BY ToolBounds DEF Tool!NotCached
<1>3. c \in [Tool!Inquiries -> [age : -1 .. Tool!AgeCap, answer : Tool!Answers]]
      /\ c[q] = [age |-> 0, answer |-> answer]
      /\ \A r \in Tool!Inquiries : r # q => c[r] = IF r \in out THEN Tool!NotCached ELSE x3[r]
    BY <1>1, <1>2
<1> HIDE DEF c
<1>4. Held(c) = (E \ out) \cup {q}
    BY <1>2, <1>3 DEF Held
<1>5. \A r \in Held(c) : r # q => r \in E /\ c[r] = x3[r]
    BY <1>3, <1>4 DEF Held
<1>6. /\ IsFiniteSet(E) /\ Cardinality(E) \in Nat /\ Cardinality(E) <= MaxEntries
      /\ MaxEntries \in Nat \ {0} /\ Evicted \in Nat \ {0}
    BY ToolBounds, FS_CardinalityType DEF ToolCache
<1>7. /\ out \in SUBSET E
      /\ Cardinality(E) < MaxEntries \/ Cardinality(out) = IF Evicted < Cardinality(E) THEN Evicted
                                                           ELSE Cardinality(E)
    <2>1. Tool!Entries = E /\ \A S : Tool!Cardinality(S) = Cardinality(S)
        BY DEF Tool!Entries, Held, Tool!Cardinality, Cardinality
    <2> HIDE DEF E
    <2> QED
        BY <2>1 DEF Tool!Evictions
<1> HIDE DEF E
<1>8. IsFiniteSet(E \ out) /\ Cardinality(E \ out) + 1 <= MaxEntries /\ Cardinality(E \ out) \in Nat
    <2>1. /\ IsFiniteSet(out) /\ IsFiniteSet(E \ out) /\ Cardinality(E \ out) \in Nat /\ Cardinality(out) \in Nat
          /\ Cardinality(E \ out) <= Cardinality(E)
        BY <1>6, <1>7, FS_Subset, FS_CardinalityType
    <2>2. E \cap out = out
        BY <1>7
    <2>3. Cardinality(E \ out) = Cardinality(E) - Cardinality(E \cap out)
        BY <1>6, FS_Difference
    <2>4. Cardinality(E \ out) = Cardinality(E) - Cardinality(out)
        BY <2>2, <2>3
    <2> DEFINE e == Cardinality(E)
               k == Cardinality(out)
               rest == Cardinality(E \ out)
    <2>5. /\ e \in Nat /\ k \in Nat /\ rest \in Nat /\ rest = e - k /\ e <= MaxEntries
          /\ e < MaxEntries \/ k = IF Evicted < e THEN Evicted ELSE e
        BY <1>6, <1>7, <2>1, <2>4
    <2> HIDE DEF e, k, rest
    <2>6. rest + 1 <= MaxEntries
        BY <1>6, <2>5
    <2> QED
        BY <2>1, <2>6 DEF rest
<1>9. IsFiniteSet(Held(c)) /\ Cardinality(Held(c)) <= MaxEntries
    <2>1. IsFiniteSet((E \ out) \cup {q})
          /\ Cardinality((E \ out) \cup {q}) = IF q \in E \ out THEN Cardinality(E \ out) ELSE Cardinality(E \ out) + 1
        BY <1>8, FS_AddElement
    <2> QED
        BY <1>4, <1>6, <1>8, <2>1
<1>10. \A r \in Held(c) : r.input \in Tool!Takes(r.tool) /\ c[r].answer \in Tool!Usable(r.tool)
    BY <1>3, <1>5 DEF ToolCache, E
<1>11. ToolCache(c)
    BY <1>3, <1>9, <1>10 DEF ToolCache
<1> QED
    BY <1>11 DEF c

LEMMA ToolInit == Tool!Bounds /\ Tool!Init => Tool!IInv
<1> SUFFICES ASSUME Tool!Bounds, Tool!Init PROVE Tool!IInv
    OBVIOUS
<1> USE ToolBounds
<1>1. /\ x1 = [a \in Addresses |-> <<>>] /\ x8 = [a \in Addresses |-> [age \in 0 .. CallWindow |-> 0]]
      /\ x3 = [q \in Tool!Inquiries |-> Tool!NotCached] /\ x4 = 0
      /\ x2 = [day |-> FALSE, count |-> 0] /\ x7 = 0 /\ x5 = Tool!NoCall
      /\ x6 = [status |-> "none", answer |-> "unreadable", age |-> 0]
    BY DEF Tool!Init
<1> DEFINE g == [age \in 0 .. CallWindow |-> 0]
           u == Running(CallWindow, g)
<1>2. g \in [0 .. CallWindow -> Nat] /\ \A age \in 0 .. CallWindow : g[age] = 0
    OBVIOUS
<1> HIDE DEF g
<1>3. RunningSum(u, CallWindow, g)
    BY <1>2, RunningIsSum
<1> HIDE DEF u
<1> DEFINE done == {k \in 0 .. CallWindow : u[k] = 0}
<1>4. 0 \in done
    BY <1>2, <1>3 DEF RunningSum
<1>5. ASSUME NEW i \in 0 .. CallWindow - 1, i \in done PROVE i + 1 \in done
    <2>1. i + 1 \in 1 .. CallWindow /\ i + 1 \in 0 .. CallWindow /\ (i + 1) - 1 = i /\ g[i + 1] = 0
        BY <1>2
    <2>2. u[i + 1] = g[i + 1] + u[i]
        BY <1>3, <2>1 DEF RunningSum
    <2> QED
        BY <1>5, <2>1, <2>2
<1>6. \A i \in 0 .. CallWindow - 1 : i \in done => i + 1 \in done
    BY <1>5
<1> HIDE DEF done
<1>7. 0 .. CallWindow \subseteq done
    BY <1>4, <1>6, UpTo
<1>8. \A age \in 0 .. CallWindow : u[age] = 0
    BY <1>7 DEF done
<1>9. \A age \in 0 .. CallWindow : Last(<<>>, 0, age)
    BY DEF Last
<1>10. ToolQueues(x1, x8)
    <2>1. \A a \in Addresses : x1[a] = <<>> /\ x8[a] = g
        BY <1>1 DEF g
    <2>2. \A a \in Addresses : Running(CallWindow, x8[a]) = u
        BY <2>1 DEF u
    <2>3. x1 \in [Addresses -> Seq(0 .. CallWindow + 1)] /\ x8 \in [Addresses -> [0 .. CallWindow -> Nat]]
        BY <1>1
    <2>4. CallWindow \in 0 .. CallWindow
        OBVIOUS
    <2> QED
        BY <1>8, <1>9, <2>1, <2>2, <2>3, <2>4 DEF ToolQueues
<1>11. ToolDay(x2, x7)
    BY <1>1 DEF ToolDay
<1>12. ToolCache(x3)
    <2>1. Tool!NotCached \in [age : -1 .. Tool!AgeCap, answer : Tool!Answers]
        BY DEF Tool!NotCached
    <2>2. Held(x3) = {}
        BY <1>1 DEF Held
    <2>3. IsFiniteSet({}) /\ Cardinality({}) = 0
        BY FS_EmptySet
    <2>4. x3 \in [Tool!Inquiries -> [age : -1 .. Tool!AgeCap, answer : Tool!Answers]]
        BY <1>1, <2>1
    <2>5. IsFiniteSet(Held(x3)) /\ Cardinality(Held(x3)) <= MaxEntries
        BY <2>2, <2>3
    <2> QED
        BY <2>2, <2>4, <2>5 DEF ToolCache
<1>13. ToolCall(x5) /\ ToolReply(x6) /\ x4 \in 0 .. DayLength - 1
    BY <1>1 DEF ToolCall, ToolReply, Tool!NoCall
<1> QED
    BY <1>10, <1>11, <1>12, <1>13, ToolInvIs

LEMMA CachedAnswer ==
    ASSUME Tool!Bounds, Tool!IInv, NEW a \in Addresses, NEW q \in Tool!Inquiries, Tool!AnswerFromCache(a, q)
    PROVE  Tool!IInv'
<1>1. /\ q \in Held(x3) /\ x3[q].age \in 0 .. AnswerLifetime /\ x3[q].answer \in Tool!Answers
      /\ x3[q].answer \in Tool!Usable(q.tool)
    <2>1. x3[q].age \in 0 .. AnswerLifetime
        BY DEF Tool!AnswerFromCache, Tool!Fresh
    <2>2. x3[q] # Tool!NotCached
        BY <2>1, ToolBounds DEF Tool!NotCached
    <2> QED
        BY <2>1, <2>2, ToolInvIs DEF ToolCache, Held
<1>2. x3[q].answer # "unreadable"
    BY <1>1, ToolBounds, UsableIsReadable
<1>3. x6' = [status |-> "ok", answer |-> x3[q].answer, age |-> x3[q].age]
      /\ UNCHANGED <<x1, x2, x3, x4, x5, x7, x8>>
    BY DEF Tool!AnswerFromCache
<1>4. ToolReply(x6')
    BY <1>1, <1>2, <1>3, ToolBounds DEF ToolReply
<1> QED
    BY <1>3, <1>4, ToolInvIs

LEMMA CheckedQuota ==
    ASSUME Tool!Bounds, Tool!IInv, NEW a \in Addresses, NEW q \in Tool!Inquiries, Tool!CheckQuota(a, q)
    PROVE  Tool!IInv'
<1>1. /\ ToolQueues(x1, x8) /\ ToolDay(x2, x7) /\ ToolCache(x3)
      /\ x4 \in 0 .. DayLength - 1 /\ ToolCall(x5) /\ ToolReply(x6)
    BY ToolInvIs
<1>2. q.input \in Tool!Takes(q.tool) /\ x3' = [x3 EXCEPT ![q] = Tool!NotCached] /\ x4' = x4
    BY DEF Tool!CheckQuota
<1>3. ToolCache(x3')
    BY <1>1, <1>2, CacheDrops
<1>4. Tool!Counted = [day |-> TRUE, count |-> x7] /\ x7 \in Nat /\ x7 <= DailyCap /\ DailyCap \in Nat
    BY <1>1, ToolBounds DEF Tool!Counted, ToolDay
<1>5. CASE Tool!Counted.count >= DailyCap \/ Len(Tool!Kept(a)) >= MaxCalls
    <2>1. /\ x2' = Tool!Counted
          /\ x1' = [x1 EXCEPT ![a] = IF Tool!Counted.count >= DailyCap THEN @ ELSE Tool!Kept(a)]
          /\ x6' = [status |-> "degraded", answer |-> "unreadable", age |-> 0]
          /\ UNCHANGED <<x5, x7, x8>>
        BY <1>5 DEF Tool!CheckQuota
    <2>2. ToolQueues(x1', x8')
        <3>1. CASE Tool!Counted.count >= DailyCap
            <4>1. x1' = x1
                BY <1>1, <2>1, <3>1 DEF ToolQueues
            <4> QED
                BY <1>1, <2>1, <4>1
        <3>2. CASE ~(Tool!Counted.count >= DailyCap)
            BY <1>1, <2>1, <3>2, QueuesTidied
        <3> QED
            BY <3>1, <3>2
    <2>3. ToolDay(x2', x7')
        BY <1>4, <2>1 DEF ToolDay
    <2>4. ToolReply(x6')
        BY <2>1, ToolBounds DEF ToolReply
    <2> QED
        BY <1>1, <1>2, <1>3, <2>1, <2>2, <2>3, <2>4, ToolInvIs
<1>6. CASE ~(Tool!Counted.count >= DailyCap \/ Len(Tool!Kept(a)) >= MaxCalls)
    <2>1. /\ x2' = [Tool!Counted EXCEPT !.count = @ + 1]
          /\ x1' = [x1 EXCEPT ![a] = Append(Tool!Kept(a), 0)]
          /\ x5' = [step |-> "ask", inquiry |-> q] /\ x7' = x7 + 1
          /\ x8' = [x8 EXCEPT ![a][0] = @ + 1] /\ x6' = x6
        BY <1>6 DEF Tool!CheckQuota
    <2>2. ToolQueues(x1', x8')
        <3>1. Len(Tool!Kept(a)) < MaxCalls
            <4>1. Len(Tool!Kept(a)) \in Nat /\ MaxCalls \in Nat
                BY <1>1, ToolBounds, ToolKept
            <4> QED
                BY <1>6, <4>1
        <3> QED
            BY <1>1, <2>1, <3>1, CallCounted
    <2>3. ToolDay(x2', x7')
        <3>1. x7 < DailyCap
            BY <1>4, <1>6
        <3>2. x2' = [day |-> TRUE, count |-> x7 + 1]
            BY <1>4, <2>1
        <3>3. x7 + 1 \in Nat /\ x7 + 1 \in 0 .. DailyCap /\ x7 + 1 <= DailyCap
            BY <1>4, <3>1
        <3>4. x2' \in [day : BOOLEAN, count : 0 .. DailyCap] /\ x2'.day /\ x2'.count = x7 + 1
            BY <3>2, <3>3
        <3> QED
            BY <2>1, <3>3, <3>4 DEF ToolDay
    <2>4. ToolCall(x5')
        BY <1>2, <2>1 DEF ToolCall
    <2> QED
        BY <1>1, <1>2, <1>3, <2>1, <2>2, <2>3, <2>4, ToolInvIs
<1> QED
    BY <1>5, <1>6

LEMMA AnswerShown ==
    ASSUME Tool!Bounds, Tool!IInv, NEW answer \in Tool!Answers, Tool!Success(answer)
    PROVE  Tool!IInv'
<1> DEFINE q == x5.inquiry
<1>1. q \in Tool!Inquiries /\ q.input \in Tool!Takes(q.tool) /\ answer \in Tool!Usable(q.tool)
    BY ToolInvIs DEF Tool!Success, ToolCall, Tool!NoCall
<1>2. PICK out \in Tool!Evictions :
          x3' = [r \in Tool!Inquiries |-> IF r = q THEN [age |-> 0, answer |-> answer]
                                          ELSE IF r \in out THEN Tool!NotCached ELSE x3[r]]
    BY DEF Tool!Success, Tool!Put
<1>3. ToolCache(x3')
    BY <1>1, <1>2, ToolInvIs, CachePuts
<1>4. /\ x6' = [status |-> "ok", answer |-> answer, age |-> 0] /\ x5' = Tool!NoCall
      /\ UNCHANGED <<x1, x2, x4, x7, x8>>
    BY DEF Tool!Success
<1>5. answer # "unreadable"
    BY <1>1, ToolBounds, UsableIsReadable
<1>6. ToolReply(x6') /\ ToolCall(x5')
    BY <1>4, <1>5, ToolBounds DEF ToolReply, ToolCall, Tool!NoCall
<1> QED
    BY <1>3, <1>4, <1>6, ToolInvIs

LEMMA FailureShown == ASSUME Tool!Bounds, Tool!IInv, Tool!Failure PROVE Tool!IInv'
<1>1. /\ x6' = [status |-> "error", answer |-> "unreadable", age |-> 0] /\ x5' = Tool!NoCall
      /\ UNCHANGED <<x1, x2, x3, x4, x7, x8>>
    BY DEF Tool!Failure
<1>2. ToolReply(x6') /\ ToolCall(x5')
    BY <1>1, ToolBounds DEF ToolReply, ToolCall, Tool!NoCall
<1> QED
    BY <1>1, <1>2, ToolInvIs

LEMMA ToolsTick == ASSUME Tool!Bounds, Tool!IInv, Tool!Tick PROVE Tool!IInv'
<1>1. /\ ToolQueues(x1, x8) /\ ToolDay(x2, x7) /\ ToolCache(x3)
      /\ x4 \in 0 .. DayLength - 1 /\ ToolCall(x5) /\ ToolReply(x6)
    BY ToolInvIs
<1>2. ToolQueues(x1', x8')
    BY <1>1, QueuesAge DEF Tool!Tick
<1>3. ToolCache(x3')
    BY <1>1, CacheAges DEF Tool!Tick
<1>4. x4' \in 0 .. DayLength - 1
    BY <1>1, ToolBounds DEF Tool!Tick
<1>5. ToolDay(x2', x7')
    <2>1. \/ x2' = [x2 EXCEPT !.day = FALSE] /\ x7' = 0
          \/ x2' = x2 /\ x7' = x7
        BY DEF Tool!Tick
    <2>2. CASE x2' = x2 /\ x7' = x7
        BY <1>1, <2>2
    <2>3. CASE x2' = [x2 EXCEPT !.day = FALSE] /\ x7' = 0
        <3>1. x2 \in [day : BOOLEAN, count : 0 .. DailyCap]
            BY <1>1 DEF ToolDay
        <3>2. x2' = [day |-> FALSE, count |-> x2.count] /\ x2.count \in 0 .. DailyCap
            BY <2>3, <3>1
        <3>3. x2' \in [day : BOOLEAN, count : 0 .. DailyCap] /\ ~x2'.day
            BY <3>2
        <3> QED
            BY <2>3, <3>3, ToolBounds DEF ToolDay
    <2> QED
        BY <2>1, <2>2, <2>3
<1> QED
    BY <1>1, <1>2, <1>3, <1>4, <1>5, ToolInvIs DEF Tool!Tick

LEMMA ToolNext == Tool!Bounds /\ Tool!IInv /\ [Tool!Next]_(Tool!vars) => Tool!IInv'
<1> SUFFICES ASSUME Tool!Bounds, Tool!IInv, [Tool!Next]_(Tool!vars) PROVE Tool!IInv'
    OBVIOUS
<1>1. CASE UNCHANGED Tool!vars
    BY <1>1, ToolInvIs DEF Tool!vars
<1> QED
    BY <1>1, CachedAnswer, CheckedQuota, AnswerShown, FailureShown, ToolsTick DEF Tool!Next

LEMMA ToolSafe == Tool!IInv => Tool!TypeOK /\ Tool!BudgetIsKept /\ Tool!AnswersAreUsable
BY DEF Tool!IInv

-----------------------------------------------------------------------------
(***************************************************************************)
(* The settings.  x1 is the row, x2 the ages of the values, x3 the value   *)
(* in the dictionary, x4 how long ago it was loaded, x5 the lock, x6 the   *)
(* requests that read and x7 the updates.                                  *)
(***************************************************************************)
SettingSteps == {"idle", "lock", "load", "clear", "fill", "get", "told"}
Reloads == {"load", "clear", "fill"}
SettingValues == Numbers \cup {-1}
Cached == SettingValues \cup {-2}
Reading == [step : SettingSteps, value : Cached, took : 0 .. SettingStall]
SettingAges == [SettingValues -> 0 .. SettingLifetime + 2 * SettingStall + 1]
Updating == [step : {"idle", "written", "commit"}, value : Cached]

\* What the dictionary has, and what a request has read, is not older than it may be.
RecentCache(cache, loaded, age) ==
    cache # -2 /\ loaded < SettingLifetime => age[cache] <= loaded + SettingStall
RecentReader(request, cache, age) ==
    /\ request.step \in {"clear", "fill"} => request.value # -2 /\ age[request.value] <= request.took
    /\ request.step = "get" /\ cache # -2 => age[cache] < SettingLifetime + SettingStall + request.took
    /\ request.step = "told" /\ request.value # -2 =>
          age[request.value] < SettingLifetime + 2 * SettingStall

LEMMA SettingInvIs ==
    /\ Setting!IInv <=>
          /\ x1 \in SettingValues /\ x2 \in SettingAges /\ x3 \in Cached /\ x4 \in 0 .. SettingLifetime
          /\ x5 \in Actors \cup {Nobody} /\ x6 \in [Actors -> Reading] /\ x7 \in [Operators -> Updating]
          /\ \A r \in Actors : x6[r].step \in Reloads <=> x5 = r
          /\ x2[x1] = 0 /\ \A o \in Operators : x7[o].step # "idle" => x7[o].value \in SettingValues
          /\ RecentCache(x3, x4, x2) /\ \A r \in Actors : RecentReader(x6[r], x3, x2)
    /\ Setting!IInv' <=>
          /\ x1' \in SettingValues /\ x2' \in SettingAges /\ x3' \in Cached /\ x4' \in 0 .. SettingLifetime
          /\ x5' \in Actors \cup {Nobody} /\ x6' \in [Actors -> Reading] /\ x7' \in [Operators -> Updating]
          /\ \A r \in Actors : x6'[r].step \in Reloads <=> x5' = r
          /\ x2'[x1'] = 0 /\ \A o \in Operators : x7'[o].step # "idle" => x7'[o].value \in SettingValues
          /\ RecentCache(x3', x4', x2') /\ \A r \in Actors : RecentReader(x6'[r], x3', x2')
BY DEF Setting!IInv, Setting!TypeOK, Setting!Values, Setting!NoText, Setting!NoRow, Setting!Outdated,
       SettingSteps, Reloads, SettingValues, Cached, Reading, SettingAges, Updating, RecentCache, RecentReader

LEMMA SettingBounds ==
    ASSUME Setting!Bounds
    PROVE  /\ Nobody \notin Actors /\ -2 \notin SettingValues /\ SettingValues \subseteq Int /\ -1 \in SettingValues
           /\ Default \in Int /\ Minimum \in Int /\ SettingLifetime \in Nat /\ SettingLifetime > 0
           /\ SettingStall \in Nat
BY DEF Setting!Bounds, Setting!NoText, Setting!NoRow, SettingValues

LEMMA OfTwo ==
    ASSUME NEW a \in Int, NEW b \in Int
    PROVE  Setting!Min({a, b}) = (IF a <= b THEN a ELSE b) /\ Setting!Max({a, b}) = (IF a <= b THEN b ELSE a)
BY DEF Setting!Min, Setting!Max

LEMMA SettingInit == Setting!Bounds /\ Setting!Init => Setting!IInv
<1> SUFFICES ASSUME Setting!Bounds, Setting!Init PROVE Setting!IInv
    OBVIOUS
<1>1. /\ x1 \in SettingValues /\ x3 = -2 /\ x4 = SettingLifetime /\ x5 = Nobody
      /\ x2 = [v \in SettingValues |-> IF v = x1 THEN 0 ELSE SettingLifetime + 2 * SettingStall + 1]
      /\ x6 = [r \in Actors |-> [step |-> "idle", value |-> -2, took |-> 0]]
      /\ x7 = [o \in Operators |-> [step |-> "idle", value |-> -2]]
    BY DEF Setting!Init, Setting!Idle, Setting!NoUpdate, Setting!Values, Setting!NoText, Setting!NoRow,
           Setting!Outdated, SettingValues
<1>2. x2 \in SettingAges /\ x2[x1] = 0
    BY <1>1, SettingBounds DEF SettingAges
<1>3. x6 \in [Actors -> Reading] /\ x7 \in [Operators -> Updating] /\ x3 \in Cached
    BY <1>1, SettingBounds DEF Reading, Updating, Cached, SettingSteps
<1>4. \A r \in Actors : x6[r].step \in Reloads <=> x5 = r
    BY <1>1, SettingBounds DEF Reloads
<1>5. RecentCache(x3, x4, x2) /\ \A r \in Actors : RecentReader(x6[r], x3, x2)
    BY <1>1 DEF RecentCache, RecentReader
<1> QED
    BY <1>1, <1>2, <1>3, <1>4, <1>5, SettingBounds, SettingInvIs

\* A step of one request that leaves the ages alone.
LEMMA ReaderSteps ==
    ASSUME Setting!IInv, NEW r \in Actors, NEW new \in Reading,
           x1' = x1, x2' = x2, x7' = x7, x6' = [x6 EXCEPT ![r] = new],
           x3' \in Cached, x4' \in 0 .. SettingLifetime, x5' \in Actors \cup {Nobody},
           new.step \in Reloads <=> x5' = r, \A s \in Actors \ {r} : x5' = s <=> x5 = s,
           RecentCache(x3', x4', x2), RecentReader(new, x3', x2),
           \A s \in Actors \ {r} : RecentReader(x6[s], x3', x2)
    PROVE  Setting!IInv'
<1>1. x6 \in [Actors -> Reading] /\ \A s \in Actors : x6[s].step \in Reloads <=> x5 = s
    BY SettingInvIs
<1>2. x6' \in [Actors -> Reading] /\ x6'[r] = new /\ \A s \in Actors \ {r} : x6'[s] = x6[s]
    BY <1>1
<1>3. \A s \in Actors : (x6'[s].step \in Reloads <=> x5' = s) /\ RecentReader(x6'[s], x3', x2)
    BY <1>1, <1>2
<1> QED
    BY <1>2, <1>3, SettingInvIs

LEMMA SettingReader ==
    ASSUME Setting!Bounds, Setting!IInv, NEW r \in Actors,
           \/ Setting!Look(r) \/ Setting!Lock(r) \/ Setting!Load(r) \/ Setting!LoadFails(r)
           \/ Setting!Clear(r) \/ Setting!Fill(r) \/ Setting!Get(r) \/ Setting!Done(r)
    PROVE  Setting!IInv'
<1>1. /\ x1 \in SettingValues /\ x2 \in SettingAges /\ x3 \in Cached /\ x4 \in 0 .. SettingLifetime
      /\ x5 \in Actors \cup {Nobody} /\ x6 \in [Actors -> Reading] /\ x2[x1] = 0
      /\ \A s \in Actors : x6[s].step \in Reloads <=> x5 = s
      /\ RecentCache(x3, x4, x2) /\ \A s \in Actors : RecentReader(x6[s], x3, x2)
    BY SettingInvIs
<1>2. /\ Nobody \notin Actors /\ -2 \notin SettingValues /\ SettingLifetime \in Nat /\ SettingLifetime > 0
      /\ SettingStall \in Nat
    BY SettingBounds
<1>3. /\ x6[r] \in Reading /\ x6[r].took \in 0 .. SettingStall
      /\ x6[r] = [step |-> x6[r].step, value |-> x6[r].value, took |-> x6[r].took]
    BY <1>1 DEF Reading
<1>4. \A v \in SettingValues : x2[v] \in Nat
    BY <1>1, <1>2 DEF SettingAges
<1> DEFINE To(step) == [x6[r] EXCEPT !.step = step]
           Has(step, value) == [x6[r] EXCEPT !.step = step, !.value = value]
           idle == [step |-> "idle", value |-> -2, took |-> 0]
<1>5. \A step \in SettingSteps, value \in Cached :
         /\ To(step) \in Reading /\ To(step).step = step
         /\ Has(step, value) \in Reading /\ Has(step, value).step = step /\ Has(step, value).value = value
         /\ To(step).value = x6[r].value /\ To(step).took = x6[r].took /\ Has(step, value).took = x6[r].took
    BY <1>1, <1>3 DEF Reading
<1>6. idle \in Reading /\ idle.step = "idle"
    BY <1>2 DEF Reading, SettingSteps, Cached
<1>7. \A step : Setting!Go(r, step) => x6' = [x6 EXCEPT ![r] = To(step)]
    BY DEF Setting!Go
<1> HIDE DEF To, Has, idle
<1>8. ASSUME Setting!Young PROVE RecentReader(To("get"), x3, x2) /\ "get" \in SettingSteps
    <2>1. x3 \in SettingValues /\ x2[x3] <= x4 + SettingStall /\ x4 < SettingLifetime
        BY <1>1, <1>8 DEF Setting!Young, Setting!NoRow, RecentCache, Cached
    <2>2. x2[x3] \in Nat /\ x4 \in Nat /\ x6[r].took \in Nat /\ To("get").took = x6[r].took /\ To("get").step = "get"
        BY <1>1, <1>2, <1>3, <1>4, <1>5, <2>1 DEF SettingSteps
    <2>3. x2[x3] < SettingLifetime + SettingStall + To("get").took
        BY <1>2, <2>1, <2>2
    <2> QED
        BY <2>2, <2>3 DEF RecentReader, SettingSteps
<1>9. ASSUME NEW step \in {"lock", "load", "get"}, step # "get" \/ Setting!Young
      PROVE  RecentReader(To(step), x3, x2) /\ To(step) \in Reading /\ To(step).step = step
    <2>1. To(step) \in Reading /\ To(step).step = step
        BY <1>1, <1>5 DEF SettingSteps
    <2>2. CASE step = "get"
        BY <1>8, <1>9, <2>1, <2>2
    <2>3. CASE step # "get"
        <3>1. step \notin {"clear", "fill", "get", "told"}
            BY <2>3
        <3> QED
            BY <2>1, <3>1 DEF RecentReader
    <2> QED
        BY <2>2, <2>3
<1>10. CASE Setting!Look(r)
    <2>1. x6[r].step = "idle" /\ x1' = x1 /\ x2' = x2 /\ x3' = x3 /\ x4' = x4 /\ x5' = x5 /\ x7' = x7
        BY <1>10 DEF Setting!Look
    <2>2. CASE Setting!Young
        <3>1. x6' = [x6 EXCEPT ![r] = To("get")]
            BY <1>7, <1>10, <2>2 DEF Setting!Look
        <3>2. RecentReader(To("get"), x3, x2) /\ To("get") \in Reading /\ To("get").step = "get"
            BY <1>9, <2>2
        <3>3. To("get").step \in Reloads <=> x5' = r
            BY <1>1, <2>1, <3>2 DEF Reloads
        <3> QED
            BY <1>1, <2>1, <3>1, <3>2, <3>3, ReaderSteps
    <2>3. CASE ~Setting!Young
        <3>1. x6' = [x6 EXCEPT ![r] = To("lock")]
            BY <1>7, <1>10, <2>3 DEF Setting!Look
        <3>2. RecentReader(To("lock"), x3, x2) /\ To("lock") \in Reading /\ To("lock").step = "lock"
            BY <1>9
        <3>3. To("lock").step \in Reloads <=> x5' = r
            BY <1>1, <2>1, <3>2 DEF Reloads
        <3> QED
            BY <1>1, <2>1, <3>1, <3>2, <3>3, ReaderSteps
    <2> QED
        BY <2>2, <2>3
<1>11. CASE Setting!Lock(r)
    <2>1. x6[r].step = "lock" /\ x5 = Nobody /\ x1' = x1 /\ x2' = x2 /\ x3' = x3 /\ x4' = x4 /\ x7' = x7
        BY <1>11 DEF Setting!Lock
    <2>2. CASE Setting!Young
        <3>1. x6' = [x6 EXCEPT ![r] = To("get")] /\ x5' = x5
            BY <1>7, <1>11, <2>2 DEF Setting!Lock
        <3>2. RecentReader(To("get"), x3, x2) /\ To("get") \in Reading /\ To("get").step = "get"
            BY <1>9, <2>2
        <3>3. To("get").step \in Reloads <=> x5' = r
            BY <1>2, <2>1, <3>1, <3>2 DEF Reloads
        <3> QED
            BY <1>1, <2>1, <3>1, <3>2, <3>3, ReaderSteps
    <2>3. CASE ~Setting!Young
        <3>1. x6' = [x6 EXCEPT ![r] = To("load")] /\ x5' = r
            BY <1>7, <1>11, <2>3 DEF Setting!Lock
        <3>2. RecentReader(To("load"), x3, x2) /\ To("load") \in Reading /\ To("load").step = "load"
            BY <1>9
        <3>3. (To("load").step \in Reloads <=> x5' = r) /\ \A s \in Actors \ {r} : x5' = s <=> x5 = s
            BY <1>2, <2>1, <3>1, <3>2 DEF Reloads
        <3> QED
            BY <1>1, <2>1, <3>1, <3>2, <3>3, ReaderSteps
    <2> QED
        BY <2>2, <2>3
<1>12. CASE Setting!Load(r)
    <2>1. /\ x6[r].step = "load" /\ x6' = [x6 EXCEPT ![r] = Has("clear", x1)]
          /\ x1' = x1 /\ x2' = x2 /\ x3' = x3 /\ x4' = x4 /\ x5' = x5 /\ x7' = x7
        BY <1>12 DEF Setting!Load, Has
    <2>2. /\ Has("clear", x1) \in Reading /\ Has("clear", x1).step = "clear" /\ Has("clear", x1).value = x1
          /\ Has("clear", x1).took = x6[r].took
        BY <1>1, <1>5 DEF SettingSteps, Cached
    <2>3. RecentReader(Has("clear", x1), x3, x2)
        BY <1>1, <1>2, <1>3, <2>2 DEF RecentReader
    <2>4. Has("clear", x1).step \in Reloads <=> x5' = r
        BY <1>1, <2>1, <2>2 DEF Reloads
    <2> QED
        BY <1>1, <2>1, <2>2, <2>3, <2>4, ReaderSteps
<1>13. ASSUME x6[r].step \in {"load", "told"}, x6' = [x6 EXCEPT ![r] = idle],
              x1' = x1, x2' = x2, x3' = x3, x4' = x4, x7' = x7,
              x5' = IF x6[r].step = "load" THEN Nobody ELSE x5
       PROVE  Setting!IInv'
    <2>1. RecentReader(idle, x3, x2)
        BY <1>6 DEF RecentReader
    <2>2. x5' \in Actors \cup {Nobody} /\ (idle.step \in Reloads <=> x5' = r) /\ \A s \in Actors \ {r} : x5' = s <=> x5 = s
        BY <1>1, <1>2, <1>6, <1>13 DEF Reloads
    <2> QED
        BY <1>1, <1>6, <1>13, <2>1, <2>2, ReaderSteps
<1>14. CASE Setting!LoadFails(r) \/ Setting!Done(r)
    BY <1>13, <1>14 DEF Setting!LoadFails, Setting!Done, Setting!Idle, Setting!NoRow, idle
<1>15. CASE Setting!Clear(r)
    <2>1. /\ x6[r].step = "clear" /\ x6' = [x6 EXCEPT ![r] = To("fill")] /\ x3' = -2
          /\ x1' = x1 /\ x2' = x2 /\ x4' = x4 /\ x5' = x5 /\ x7' = x7
        BY <1>7, <1>15 DEF Setting!Clear, Setting!NoRow
    <2>2. /\ To("fill") \in Reading /\ To("fill").step = "fill" /\ To("fill").value = x6[r].value
          /\ To("fill").took = x6[r].took
        BY <1>5 DEF SettingSteps, Cached
    <2>3. RecentReader(To("fill"), -2, x2) /\ \A s \in Actors : RecentReader(x6[s], -2, x2)
        BY <1>1, <2>1, <2>2 DEF RecentReader
    <2>4. To("fill").step \in Reloads <=> x5' = r
        BY <1>1, <2>1, <2>2 DEF Reloads
    <2>5. RecentCache(-2, x4, x2) /\ -2 \in Cached
        BY DEF RecentCache, Cached
    <2> QED
        BY <1>1, <2>1, <2>2, <2>3, <2>4, <2>5, ReaderSteps
<1>16. CASE Setting!Fill(r)
    <2> DEFINE new == x6[r].value
    <2>1. /\ x6[r].step = "fill" /\ x6' = [x6 EXCEPT ![r] = To("get")] /\ x3' = new
          /\ x1' = x1 /\ x2' = x2 /\ x4' = 0 /\ x5' = Nobody /\ x7' = x7
        BY <1>7, <1>16 DEF Setting!Fill
    <2>2. new \in SettingValues /\ x2[new] \in Nat /\ x2[new] <= SettingStall /\ x2[new] <= x6[r].took
        <3>1. new # -2 /\ x2[new] <= x6[r].took /\ new \in Cached
            BY <1>1, <1>3, <2>1 DEF RecentReader, Reading
        <3>2. new \in SettingValues
            BY <3>1 DEF Cached
        <3> HIDE DEF new
        <3> QED
            BY <1>2, <1>3, <1>4, <3>1, <3>2
    <2>3. To("get") \in Reading /\ To("get").step = "get" /\ To("get").took = x6[r].took
        BY <1>5 DEF SettingSteps, Cached
    <2> HIDE DEF new
    <2>4. RecentCache(new, 0, x2) /\ RecentReader(To("get"), new, x2) /\ new \in Cached
        BY <1>2, <1>3, <2>2, <2>3 DEF RecentCache, RecentReader, Cached
    <2>5. ASSUME NEW s \in Actors \ {r} PROVE RecentReader(x6[s], new, x2)
        <3>1. RecentReader(x6[s], x3, x2) /\ x6[s].took \in Nat
            BY <1>1, <1>2 DEF Reading
        <3>2. x2[new] < SettingLifetime + SettingStall + x6[s].took
            BY <1>2, <2>2, <3>1
        <3> QED
            BY <3>1, <3>2 DEF RecentReader
    <2>6. (To("get").step \in Reloads <=> x5' = r) /\ \A s \in Actors \ {r} : x5' = s <=> x5 = s
        BY <1>1, <1>2, <2>1, <2>3 DEF Reloads
    <2>7. /\ x3' \in Cached /\ x4' \in 0 .. SettingLifetime /\ x5' \in Actors \cup {Nobody}
          /\ RecentCache(x3', x4', x2) /\ RecentReader(To("get"), x3', x2)
          /\ \A s \in Actors \ {r} : RecentReader(x6[s], x3', x2)
        BY <1>2, <2>1, <2>4, <2>5
    <2> QED
        BY <2>1, <2>3, <2>6, <2>7, ReaderSteps
<1>17. CASE Setting!Get(r)
    <2>1. /\ x6[r].step = "get" /\ x6' = [x6 EXCEPT ![r] = Has("told", x3)]
          /\ x1' = x1 /\ x2' = x2 /\ x3' = x3 /\ x4' = x4 /\ x5' = x5 /\ x7' = x7
        BY <1>17 DEF Setting!Get, Has
    <2>2. /\ Has("told", x3) \in Reading /\ Has("told", x3).step = "told" /\ Has("told", x3).value = x3
          /\ Has("told", x3).took = x6[r].took
        BY <1>1, <1>5 DEF SettingSteps, Cached
    <2>3. x3 # -2 => x2[x3] < SettingLifetime + 2 * SettingStall
        <3> SUFFICES ASSUME x3 # -2 PROVE x2[x3] < SettingLifetime + 2 * SettingStall
            OBVIOUS
        <3>1. x2[x3] < SettingLifetime + SettingStall + x6[r].took /\ x3 \in SettingValues
            BY <1>1, <2>1 DEF RecentReader, Cached
        <3> QED
            BY <1>2, <1>3, <1>4, <3>1
    <2>4. RecentReader(Has("told", x3), x3, x2)
        BY <2>2, <2>3 DEF RecentReader
    <2>5. Has("told", x3).step \in Reloads <=> x5' = r
        BY <1>1, <2>1, <2>2 DEF Reloads
    <2> QED
        BY <1>1, <2>1, <2>2, <2>4, <2>5, ReaderSteps
<1> QED
    BY <1>10, <1>11, <1>12, <1>14, <1>15, <1>16, <1>17

LEMMA SettingUpdate ==
    ASSUME Setting!Bounds, Setting!IInv, NEW o \in Operators,
           Setting!Invalidate(o) \/ Setting!Commit(o) \/ Setting!Abort(o) \/ \E v \in Setting!Values : Setting!Write(o, v)
    PROVE  Setting!IInv'
<1>1. /\ x1 \in SettingValues /\ x2 \in SettingAges /\ x3 \in Cached /\ x4 \in 0 .. SettingLifetime
      /\ x5 \in Actors \cup {Nobody} /\ x6 \in [Actors -> Reading] /\ x7 \in [Operators -> Updating] /\ x2[x1] = 0
      /\ \A s \in Actors : x6[s].step \in Reloads <=> x5 = s
      /\ \A p \in Operators : x7[p].step # "idle" => x7[p].value \in SettingValues
      /\ RecentCache(x3, x4, x2) /\ \A s \in Actors : RecentReader(x6[s], x3, x2)
    BY SettingInvIs
<1>2. -2 \notin SettingValues /\ SettingLifetime \in Nat /\ SettingStall \in Nat
    BY SettingBounds
<1>3. ASSUME NEW new \in Updating, x7' = [x7 EXCEPT ![o] = new], new.step # "idle" => new.value \in SettingValues
      PROVE  /\ x7' \in [Operators -> Updating]
             /\ \A p \in Operators : x7'[p].step # "idle" => x7'[p].value \in SettingValues
    BY <1>1, <1>3
<1>4. [step |-> "idle", value |-> -2] \in Updating /\ -2 \in Cached
    BY DEF Updating, Cached
<1>5. CASE Setting!Invalidate(o)
    <2> DEFINE new == [x7[o] EXCEPT !.step = "commit"]
    <2>1. /\ x7[o].step = "written" /\ x3' = -2 /\ x4' = SettingLifetime /\ x7' = [x7 EXCEPT ![o] = new]
          /\ x1' = x1 /\ x2' = x2 /\ x5' = x5 /\ x6' = x6
        BY <1>5 DEF Setting!Invalidate, Setting!NoRow
    <2>2. new \in Updating /\ new.value \in SettingValues
        BY <1>1, <2>1 DEF Updating
    <2> HIDE DEF new
    <2>3. x7' \in [Operators -> Updating] /\ \A p \in Operators : x7'[p].step # "idle" => x7'[p].value \in SettingValues
        BY <1>3, <2>1, <2>2
    <2>4. RecentCache(-2, SettingLifetime, x2) /\ \A s \in Actors : RecentReader(x6[s], -2, x2)
        BY <1>1 DEF RecentCache, RecentReader
    <2> QED
        BY <1>1, <1>2, <1>4, <2>1, <2>3, <2>4, SettingInvIs
<1>6. CASE Setting!Commit(o)
    <2>1. /\ x7[o].step = "commit" /\ x1' = x7[o].value /\ x2' = [x2 EXCEPT ![x1'] = 0]
          /\ x7' = [x7 EXCEPT ![o] = [step |-> "idle", value |-> -2]]
          /\ x3' = x3 /\ x4' = x4 /\ x5' = x5 /\ x6' = x6
        BY <1>6 DEF Setting!Commit, Setting!NoUpdate, Setting!NoRow
    <2>2. x7' \in [Operators -> Updating] /\ \A p \in Operators : x7'[p].step # "idle" => x7'[p].value \in SettingValues
        BY <1>3, <1>4, <2>1
    <2>3. x1' \in SettingValues
        BY <1>1, <2>1
    <2>4. x2' \in SettingAges /\ x2'[x1'] = 0
        BY <1>1, <1>2, <2>1, <2>3 DEF SettingAges
    <2>5. \A v \in SettingValues : x2[v] \in Nat /\ x2'[v] \in Nat /\ x2'[v] <= x2[v]
        BY <1>1, <1>2, <2>1, <2>3 DEF SettingAges
    <2>6. RecentCache(x3, x4, x2')
        BY <1>1, <1>2, <2>5 DEF RecentCache, Cached
    <2>7. ASSUME NEW s \in Actors PROVE RecentReader(x6[s], x3, x2')
        <3>1. RecentReader(x6[s], x3, x2) /\ x6[s].value \in Cached /\ x6[s].took \in Nat
            BY <1>1, <1>2 DEF Reading
        <3> QED
            BY <1>1, <1>2, <2>5, <3>1 DEF RecentReader, Cached
    <2> QED
        BY <1>1, <2>1, <2>2, <2>3, <2>4, <2>6, <2>7, SettingInvIs
<1>7. ASSUME NEW new \in Updating, x7' = [x7 EXCEPT ![o] = new], new.step # "idle" => new.value \in SettingValues,
             x1' = x1, x2' = x2, x3' = x3, x4' = x4, x5' = x5, x6' = x6
      PROVE  Setting!IInv'
    BY <1>1, <1>3, <1>7, SettingInvIs
<1>8. CASE Setting!Abort(o)
    BY <1>4, <1>7, <1>8 DEF Setting!Abort, Setting!NoUpdate, Setting!NoRow
<1>9. ASSUME NEW v \in Setting!Values, Setting!Write(o, v) PROVE Setting!IInv'
    <2> DEFINE new == [step |-> "written", value |-> v]
    <2>1. new \in Updating /\ new.value \in SettingValues
        BY DEF Updating, Setting!Values, Setting!NoText, SettingValues, Cached
    <2>2. x7' = [x7 EXCEPT ![o] = new] /\ x1' = x1 /\ x2' = x2 /\ x3' = x3 /\ x4' = x4 /\ x5' = x5 /\ x6' = x6
        BY <1>9 DEF Setting!Write
    <2> HIDE DEF new
    <2> QED
        BY <1>7, <2>1, <2>2
<1> QED
    BY <1>5, <1>6, <1>8, <1>9

LEMMA SettingTick == ASSUME Setting!Bounds, Setting!IInv, Setting!Tick PROVE Setting!IInv'
<1> DEFINE outdated == SettingLifetime + 2 * SettingStall + 1
<1>1. /\ x1 \in SettingValues /\ x2 \in SettingAges /\ x3 \in Cached /\ x4 \in 0 .. SettingLifetime
      /\ x5 \in Actors \cup {Nobody} /\ x6 \in [Actors -> Reading] /\ x7 \in [Operators -> Updating] /\ x2[x1] = 0
      /\ \A s \in Actors : x6[s].step \in Reloads <=> x5 = s
      /\ \A p \in Operators : x7[p].step # "idle" => x7[p].value \in SettingValues
      /\ RecentCache(x3, x4, x2) /\ \A s \in Actors : RecentReader(x6[s], x3, x2)
    BY SettingInvIs
<1>2. -2 \notin SettingValues /\ SettingLifetime \in Nat /\ SettingStall \in Nat /\ outdated \in Nat
    BY SettingBounds
<1>3. /\ \A r \in Actors : x6[r].step \in {"idle", "told"} \/ x6[r].took < SettingStall
      /\ x2' = [v \in SettingValues |-> IF v = x1 THEN 0 ELSE Setting!Min({x2[v] + 1, outdated})]
      /\ x4' = Setting!Min({x4 + 1, SettingLifetime})
      /\ x6' = [r \in Actors |-> IF x6[r].step \in {"idle", "told"} THEN [step |-> "idle", value |-> -2, took |-> 0]
                                 ELSE [x6[r] EXCEPT !.took = @ + 1]]
      /\ x1' = x1 /\ x3' = x3 /\ x5' = x5 /\ x7' = x7
    BY DEF Setting!Tick, Setting!Idle, Setting!NoRow, Setting!NoText, Setting!Values, Setting!Outdated, SettingValues
<1>4. \A v \in SettingValues : x2[v] \in 0 .. outdated
    BY <1>1 DEF SettingAges
<1> HIDE DEF outdated
<1>5. \A v \in SettingValues : x2'[v] \in 0 .. outdated /\ x2'[v] <= x2[v] + 1
    <2> SUFFICES ASSUME NEW v \in SettingValues PROVE x2'[v] \in 0 .. outdated /\ x2'[v] <= x2[v] + 1
        OBVIOUS
    <2>1. x2[v] \in 0 .. outdated /\ x2'[v] = IF v = x1 THEN 0 ELSE Setting!Min({x2[v] + 1, outdated})
        BY <1>3, <1>4
    <2>2. Setting!Min({x2[v] + 1, outdated}) = IF x2[v] + 1 <= outdated THEN x2[v] + 1 ELSE outdated
        BY <1>2, <2>1, OfTwo
    <2> QED
        BY <1>2, <2>1, <2>2
<1>6. x2' \in SettingAges /\ x2'[x1'] = 0
    <2>1. x2' = [v \in SettingValues |-> x2'[v]]
        BY <1>3
    <2>2. x2' \in [SettingValues -> 0 .. outdated]
        BY <1>5, <2>1
    <2>3. x2'[x1] = 0
        BY <1>1, <1>3
    <2> QED
        BY <1>3, <2>2, <2>3 DEF SettingAges, outdated
<1>7. x4' \in 0 .. SettingLifetime /\ (x4' < SettingLifetime => x4' = x4 + 1)
    <2>1. x4' = IF x4 + 1 <= SettingLifetime THEN x4 + 1 ELSE SettingLifetime
        <3>1. x4 + 1 \in Int /\ SettingLifetime \in Int
            BY <1>1, <1>2
        <3> QED
            BY <1>3, <3>1, OfTwo
    <2> QED
        BY <1>1, <1>2, <2>1
<1>8. ASSUME NEW r \in Actors
      PROVE  /\ x6'[r] \in Reading /\ (x6'[r].step \in Reloads <=> x6[r].step \in Reloads)
             /\ RecentReader(x6'[r], x3', x2')
    <2>1. x6[r] \in Reading /\ x6[r].took \in 0 .. SettingStall /\ x6[r].value \in Cached /\ RecentReader(x6[r], x3, x2)
        BY <1>1 DEF Reading
    <2>2. CASE x6[r].step \in {"idle", "told"}
        <3>1. x6'[r] = [step |-> "idle", value |-> -2, took |-> 0]
            BY <1>3, <2>2
        <3> QED
            BY <1>2, <2>2, <3>1 DEF Reading, SettingSteps, Cached, Reloads, RecentReader
    <2>3. CASE x6[r].step \notin {"idle", "told"}
        <3>1. x6'[r] = [x6[r] EXCEPT !.took = @ + 1] /\ x6[r].took < SettingStall
            BY <1>3, <2>3
        <3>2. /\ x6'[r] \in Reading /\ x6'[r].step = x6[r].step /\ x6'[r].value = x6[r].value
              /\ x6'[r].took = x6[r].took + 1
            BY <1>2, <2>1, <3>1 DEF Reading
        <3>3. ASSUME x6[r].step \in {"clear", "fill"} PROVE x6[r].value # -2 /\ x2'[x6[r].value] <= x6[r].took + 1
            <4>1. x6[r].value # -2 /\ x6[r].value \in SettingValues /\ x2[x6[r].value] <= x6[r].took
                BY <2>1, <3>3 DEF RecentReader, Cached
            <4>2. x2[x6[r].value] \in 0 .. outdated /\ x2'[x6[r].value] \in 0 .. outdated
                  /\ x2'[x6[r].value] <= x2[x6[r].value] + 1
                BY <1>4, <1>5, <4>1
            <4> QED
                BY <1>2, <2>1, <4>1, <4>2
        <3>4. ASSUME x6[r].step = "get", x3 # -2
              PROVE  x2'[x3] < SettingLifetime + SettingStall + (x6[r].took + 1)
            <4>1. x3 \in SettingValues /\ x2[x3] < SettingLifetime + SettingStall + x6[r].took
                BY <1>1, <2>1, <3>4 DEF RecentReader, Cached
            <4>2. x2[x3] \in 0 .. outdated /\ x2'[x3] \in 0 .. outdated /\ x2'[x3] <= x2[x3] + 1
                BY <1>4, <1>5, <4>1
            <4> QED
                BY <1>2, <2>1, <4>1, <4>2
        <3> QED
            BY <1>3, <2>3, <3>2, <3>3, <3>4 DEF RecentReader
    <2> QED
        BY <2>2, <2>3
<1>9. x6' \in [Actors -> Reading]
    BY <1>3, <1>8
<1>10. RecentCache(x3', x4', x2')
    <2> SUFFICES ASSUME x3 # -2, x4' < SettingLifetime PROVE x2'[x3] <= x4' + SettingStall
        BY <1>3 DEF RecentCache
    <2>1. x3 \in SettingValues /\ x4' = x4 + 1 /\ x4 < SettingLifetime /\ x4 \in Nat
        BY <1>1, <1>2, <1>7 DEF Cached
    <2>2. x2[x3] \in 0 .. outdated /\ x2'[x3] \in 0 .. outdated /\ x2'[x3] <= x2[x3] + 1 /\ x2[x3] <= x4 + SettingStall
        BY <1>1, <1>4, <1>5, <2>1 DEF RecentCache
    <2> QED
        BY <1>2, <2>1, <2>2
<1> QED
    BY <1>1, <1>3, <1>6, <1>7, <1>8, <1>9, <1>10, SettingInvIs

LEMMA SettingNext == Setting!Bounds /\ Setting!IInv /\ [Setting!Next]_(Setting!vars) => Setting!IInv'
<1> SUFFICES ASSUME Setting!Bounds, Setting!IInv, [Setting!Next]_(Setting!vars) PROVE Setting!IInv'
    OBVIOUS
<1>1. CASE UNCHANGED Setting!vars
    BY <1>1, SettingInvIs DEF Setting!vars
<1> QED
    BY <1>1, SettingReader, SettingUpdate, SettingTick DEF Setting!Next

LEMMA SettingSafe == Setting!Bounds /\ Setting!IInv => Setting!TypeOK /\ Setting!SettingsAreRecent
<1> SUFFICES ASSUME Setting!Bounds, Setting!IInv PROVE Setting!SettingsAreRecent
    BY DEF Setting!IInv
<1>1. ASSUME NEW r \in Actors PROVE Setting!IntValue(x6[r].value) >= Minimum
    <2> DEFINE value == IF x6[r].value \in {-2, -1} THEN Default ELSE x6[r].value
    <2>1. x6[r].value \in Cached
        BY SettingInvIs DEF Reading
    <2>2. value \in Int /\ Minimum \in Int
        BY <2>1, SettingBounds DEF Cached
    <2>3. Setting!IntValue(x6[r].value) = Setting!Max({Minimum, value})
        BY DEF Setting!IntValue, Setting!NoRow, Setting!NoText
    <2> HIDE DEF value
    <2> QED
        BY <2>2, <2>3, OfTwo
<1> QED
    BY <1>1 DEF Setting!IInv, Setting!SettingsAreRecent

-----------------------------------------------------------------------------
(*****************************************************************************)
(* User records.  x1 are the accounts of the identity provider, x2 the rows  *)
(* of users, x3 their keys, x4 the requests, x5 and x6 the locks of rows and *)
(* keys, x7 how many keys were made, x8 is the clean-up script.              *)
(*                                                                           *)
(* A request drafts the row it will commit while it holds it, and nobody     *)
(* changes a row that is held; so at its commit the draft still keeps what   *)
(* the row has by then (DraftsKeep).  A key is inserted for a user who has   *)
(* none (KeysAreNew), and no two users come by the same code (CodesAreApart).*)
(*****************************************************************************)
LEMMA UserRequest ==
    ASSUME User!IInv, NEW h \in Actors, x4[h] # User!Idle
    PROVE  /\ x4[h] \in User!Requests /\ x4[h].user \in Persons
           /\ x4[h].step \in {"upsert", "orphan", "key", "insert", "commit"}
           /\ x4[h].row \in User!Rows /\ x4[h].key \in User!Keys \cup {Nobody}
<1>1. x4[h] \in User!Requests
    BY DEF User!IInv
<1> QED
    BY <1>1 DEF User!Requests

LEMMA UserRow ==
    ASSUME User!IInv, NEW u \in Persons
    PROVE  x2[u] \in User!Rows /\ (~User!Exists(u) => x2[u].invite = Nobody)
BY DEF User!IInv, User!Exists, User!NoUser

LEMMA UserInit == User!Bounds /\ User!Init => User!IInv
<1> SUFFICES ASSUME User!Bounds, User!Init PROVE User!IInv
    OBVIOUS
<1>1. /\ x1 \in [Persons -> [active : BOOLEAN, email : User!Emails]]
      /\ x2 = [u \in Persons |-> User!NoUser] /\ x3 = [u \in Persons |-> Nobody]
      /\ x4 = [h \in Actors |-> User!Idle] /\ x7 = 0
      /\ x5 = [u \in Persons |-> Nobody] /\ x6 = [u \in Persons |-> Nobody]
      /\ x8 = [step |-> "idle", listed |-> {}]
    <2>1. \A s \in [Persons -> [active : {TRUE}, email : User!Emails]] : s \in [Persons -> [active : BOOLEAN, email : User!Emails]]
        OBVIOUS
    <2> QED
        BY <2>1 DEF User!Init
<1>2. User!TypeOK
    BY <1>1 DEF User!TypeOK, User!Exists, User!Keys, User!Bounds
<1>3. User!NoUser \in User!Rows
    BY DEF User!NoUser, User!Rows
<1>4. User!DraftsKeep /\ User!KeysAreNew /\ User!CodesAreApart
    BY <1>1 DEF User!DraftsKeep, User!KeysAreNew, User!CodesAreApart, User!Bounds
<1> QED
    BY <1>1, <1>2, <1>3, <1>4 DEF User!IInv

\* What a request may read before it writes anything, or the end of one that holds nothing.
LEMMA UserMoves ==
    ASSUME User!Bounds, User!IInv, NEW h \in Actors, NEW new \in User!Requests \cup {User!Idle},
           x4' = [x4 EXCEPT ![h] = new], UNCHANGED <<x1, x2, x3, x5, x6, x7, x8>>,
           \/ x4[h] = User!Idle /\ new.row = User!NoUser /\ (new.step = "upsert" => new.email \in User!Emails)
           \/ x4[h].step \in {"upsert", "orphan"} /\ new # User!Idle /\ new.row = x4[h].row /\ new.user = x4[h].user
              /\ (new.step = "upsert" => new.email \in User!Emails)
           \/ x4[h].step = "key" /\ new # User!Idle /\ new.row = x4[h].row /\ new.user = x4[h].user
              /\ new.step \in {"insert", "commit"}
    PROVE  User!IInv'
<1> DEFINE Old == x4[h]
<1>1. \A g \in Actors : x4'[g] = IF g = h THEN new ELSE x4[g]
    BY DEF User!IInv
<1>2. \A u \in Persons : (x5[u] = h => Old.step = "key") /\ x6[u] # h
    BY DEF User!IInv, User!DraftsKeep, User!KeysAreNew, User!Idle
<1>3. User!TypeOK' /\ x2' \in [Persons -> User!Rows]
    BY DEF User!IInv, User!TypeOK, User!Exists
<1>4. x4' \in [Actors -> User!Requests \cup {User!Idle}]
    BY DEF User!IInv
<1>5. User!DraftsKeep'
    BY <1>1, <1>2 DEF User!IInv, User!DraftsKeep, User!Idle, User!Exists
<1>6. User!KeysAreNew'
    BY <1>1, <1>2 DEF User!IInv, User!KeysAreNew, User!Exists
<1>7. User!CodesAreApart'
    <2>1. CASE Old = User!Idle
        <3>1. new.row.invite = Nobody /\ \A u \in Persons : x5[u] # h
            BY <1>2, <2>1 DEF User!Idle, User!NoUser
        <3> QED
            BY <1>1, <3>1 DEF User!IInv, User!CodesAreApart
    <2>2. CASE Old # User!Idle
        <3>1. new # User!Idle /\ new.row = Old.row /\ new.user = Old.user
            BY <2>2
        <3> HIDE DEF Old
        <3>2. \A g \in Actors : x4'[g].row = x4[g].row /\ x4'[g].user = x4[g].user
                                  /\ (x4'[g] # User!Idle => x4[g] # User!Idle)
            BY <1>1, <2>2, <3>1 DEF Old
        <3> QED
            BY <3>2 DEF User!IInv, User!CodesAreApart
    <2> QED
        BY <2>1, <2>2
<1> QED
    BY <1>3, <1>4, <1>5, <1>6, <1>7 DEF User!IInv

\* A request that ends leaves the others what they hold.
LEMMA UserOver ==
    ASSUME User!Bounds, User!IInv, NEW h \in Actors, User!Over(h), UNCHANGED <<x1, x2, x3, x7, x8>>
    PROVE  User!IInv'
<1>1. /\ \A g \in Actors : x4'[g] = IF g = h THEN User!Idle ELSE x4[g]
      /\ x4' \in [Actors -> User!Requests \cup {User!Idle}]
    BY DEF User!IInv, User!Over
<1>2. /\ x5' \in [Persons -> Actors \cup {Nobody}] /\ x6' \in [Persons -> Actors \cup {Nobody}]
      /\ \A u \in Persons : /\ x5'[u] = IF x5[u] = h THEN Nobody ELSE x5[u]
                            /\ x6'[u] = IF x6[u] = h THEN Nobody ELSE x6[u]
    BY DEF User!IInv, User!Over, User!TypeOK
<1>3. User!TypeOK' /\ x2' \in [Persons -> User!Rows]
    BY <1>2 DEF User!IInv, User!TypeOK, User!Exists
<1>4. User!DraftsKeep'
    BY <1>1, <1>2, UserRequest DEF User!IInv, User!DraftsKeep, User!Exists, User!Bounds
<1>5. User!KeysAreNew'
    BY <1>1, <1>2 DEF User!IInv, User!KeysAreNew, User!DraftsKeep, User!Exists, User!Bounds
<1>6. User!CodesAreApart'
    BY <1>1, <1>2, UserRequest DEF User!IInv, User!CodesAreApart, User!Bounds
<1> QED
    BY <1>1, <1>3, <1>4, <1>5, <1>6 DEF User!IInv

\* A request takes the row of its user and drafts what it will write over it.
LEMMA UserDrafts ==
    ASSUME User!Bounds, User!IInv, NEW h \in Actors, NEW new \in User!Requests,
           x4[h].step \in {"upsert", "orphan"}, new.user = x4[h].user, new.step \in {"key", "commit"},
           new.row \in User!Rows \ {User!NoUser}, x5[x4[h].user] = Nobody,
           User!Exists(x4[h].user) => User!Keeps(x2[x4[h].user], new.row),
           \A v \in Persons \ {x4[h].user} : new.row.invite # Nobody =>
              /\ x2[v].invite # new.row.invite
              /\ \A g \in Actors : x5[v] = g => x4[g].row.invite # new.row.invite,
           x4' = [x4 EXCEPT ![h] = new],
           x5' = [x5 EXCEPT ![x4[h].user] = h],
           UNCHANGED <<x1, x2, x3, x6, x7, x8>>
    PROVE  User!IInv'
<1> DEFINE w == x4[h].user
<1>0. w \in Persons /\ x4[h] # User!Idle /\ new # User!Idle
    BY UserRequest DEF User!Idle, User!Requests
<1>1. \A g \in Actors : x4'[g] = IF g = h THEN new ELSE x4[g]
    BY DEF User!IInv
<1>2. \A u \in Persons : x5[u] # h /\ x6[u] # h
    BY DEF User!IInv, User!DraftsKeep, User!KeysAreNew
<1>3. /\ x5' \in [Persons -> Actors \cup {Nobody}]
      /\ \A u \in Persons : x5'[u] = IF u = w THEN h ELSE x5[u]
    BY <1>0 DEF User!IInv, User!TypeOK
<1> HIDE DEF w
<1>4. User!TypeOK' /\ x2' \in [Persons -> User!Rows]
    BY <1>3 DEF User!IInv, User!TypeOK, User!Exists
<1>5. x4' \in [Actors -> User!Requests \cup {User!Idle}]
    BY DEF User!IInv
<1>6. User!DraftsKeep'
    <2>1. \A g \in Actors : x4'[g] # User!Idle =>
              /\ x4'[g].step = "upsert" => x4'[g].email \in User!Emails
              /\ x4'[g].row = User!NoUser \/ x5'[x4'[g].user] = g
        BY <1>0, <1>1, <1>3, UserRequest DEF w, User!IInv, User!DraftsKeep, User!Bounds
    <2>2. ASSUME NEW u \in Persons, NEW g \in Actors, x5'[u] = g
          PROVE  /\ x4'[g] # User!Idle /\ x4'[g].user = u /\ x4'[g].step \in {"key", "insert", "commit"}
                 /\ x4'[g].row # User!NoUser
                 /\ (User!Exists(u) => User!Keeps(x2[u], x4'[g].row))
        <3>1. CASE u = w
            BY <1>0, <1>1, <1>3, <2>2, <3>1 DEF w
        <3>2. CASE u # w
            BY <1>1, <1>2, <1>3, <2>2, <3>2 DEF User!IInv, User!DraftsKeep
        <3> QED
            BY <3>1, <3>2
    <2> QED
        BY <2>1, <2>2 DEF User!DraftsKeep, User!Exists, User!Keeps
<1>7. User!KeysAreNew'
    BY <1>1, <1>2, <1>3 DEF User!IInv, User!KeysAreNew, User!Exists, User!Bounds
<1>8. User!CodesAreApart'
    <2> SUFFICES ASSUME NEW g \in Actors, NEW v \in Persons, x4'[g] # User!Idle, v # x4'[g].user,
                        x4'[g].row.invite # Nobody
                 PROVE  /\ x2[v].invite # x4'[g].row.invite
                        /\ \A k \in Actors : x5'[v] = k => x4'[k].row.invite # x4'[g].row.invite
        BY DEF User!CodesAreApart
    <2>1. CASE g = h
        BY <1>0, <1>1, <1>2, <1>3, <2>1 DEF w
    <2>2. CASE g # h
        <3>1. x4'[g] = x4[g] /\ x2[v].invite # x4[g].row.invite
              /\ \A k \in Actors : x5[v] = k => x4[k].row.invite # x4[g].row.invite
            BY <1>1, <2>2 DEF User!IInv, User!CodesAreApart
        <3>2. CASE v # w
            BY <1>1, <1>2, <1>3, <3>1, <3>2
        <3>3. CASE v = w
            <4>1. x4[g].user \in Persons \ {w} /\ x4[g].row # User!NoUser
                BY <2>2, <3>1, <3>3, UserRequest DEF User!NoUser
            <4>2. x5[x4[g].user] = g
                BY <3>1, <4>1 DEF User!IInv, User!DraftsKeep
            <4>3. new.row.invite # x4[g].row.invite
                BY <3>1, <4>1, <4>2 DEF w
            <4> QED
                BY <1>1, <1>3, <2>2, <3>1, <3>3, <4>3
        <3> QED
            BY <3>2, <3>3
    <2> QED
        BY <2>1, <2>2
<1> QED
    BY <1>4, <1>5, <1>6, <1>7, <1>8 DEF User!IInv

\* Accounts elsewhere and the list of the script change nothing here.
LEMMA UserFrame ==
    ASSUME User!IInv, x1' \in [Persons -> [active : BOOLEAN, email : User!Emails]],
           x8' \in [step : {"idle", "disable", "delete", "accounts"}, listed : SUBSET Persons],
           UNCHANGED <<x2, x3, x4, x5, x6, x7>>
    PROVE  User!IInv'
<1>1. User!TypeOK'
    BY DEF User!IInv, User!TypeOK, User!Exists
<1>2. User!DraftsKeep' /\ User!KeysAreNew' /\ User!CodesAreApart'
    BY DEF User!IInv, User!DraftsKeep, User!KeysAreNew, User!CodesAreApart, User!Exists
<1> QED
    BY <1>1, <1>2 DEF User!IInv

\* Rows that no request holds may change, if they lose their code at most.
LEMMA UserRows ==
    ASSUME User!Bounds, User!IInv, UNCHANGED <<x1, x4, x5, x6, x7>>,
           x8' \in [step : {"idle", "disable", "delete", "accounts"}, listed : SUBSET Persons],
           x2' \in [Persons -> User!Rows], x3' \in [Persons -> User!Keys \cup {Nobody}],
           \A u \in Persons :
              \/ x2'[u] = x2[u] /\ x3'[u] = x3[u]
              \/ /\ x5[u] = Nobody /\ x2'[u].invite \in {x2[u].invite, Nobody}
                 /\ (User!Exists(u)' \/ x6[u] = Nobody)
                 /\ x3'[u] \in {x3[u], Nobody} /\ (x3'[u] # Nobody => User!Exists(u)')
    PROVE  User!IInv'
<1>1. ASSUME NEW u \in Persons, NEW v \in Persons, u # v, User!Exists(u)', x2'[u].invite # Nobody
      PROVE  x2'[v].invite # x2'[u].invite
    <2>1. x2'[u].invite = x2[u].invite
        BY <1>1
    <2>2. User!Exists(u) /\ x2[u].invite # Nobody
        BY <1>1, <2>1, UserRow
    <2>3. x2[v].invite # x2[u].invite
        BY <1>1, <2>2 DEF User!IInv, User!TypeOK
    <2> QED
        BY <1>1, <2>1, <2>3
<1>2. User!TypeOK'
    <2>1. ASSUME NEW u \in Persons, x3'[u] # Nobody PROVE User!Exists(u)'
        BY <2>1 DEF User!IInv, User!TypeOK, User!Exists
    <2> QED
        BY <1>1, <2>1 DEF User!IInv, User!TypeOK
<1>3. User!DraftsKeep'
    BY DEF User!IInv, User!DraftsKeep, User!Exists, User!Bounds
<1>4. User!KeysAreNew'
    BY DEF User!IInv, User!KeysAreNew, User!Exists, User!Bounds
<1>5. User!CodesAreApart'
    BY DEF User!IInv, User!CodesAreApart
<1> QED
    BY <1>2, <1>3, <1>4, <1>5 DEF User!IInv

LEMMA UserVerifies ==
    ASSUME User!Bounds, User!IInv, NEW u \in Persons, User!Verify(u)
    PROVE  User!IInv' /\ User!KeepsUsers
<1>1. /\ User!Exists(u) /\ x5[u] = Nobody /\ x2' = [x2 EXCEPT ![u].verified = TRUE]
      /\ UNCHANGED <<x1, x3, x4, x5, x6, x7, x8>>
    BY DEF User!Verify
<1>2. [x2[u] EXCEPT !.verified = TRUE] \in User!Rows \ {User!NoUser}
    BY <1>1, UserRow DEF User!Rows, User!Exists, User!NoUser, User!Emails
<1>3. /\ x2' \in [Persons -> User!Rows] /\ \A v \in Persons \ {u} : x2'[v] = x2[v]
      /\ x2'[u] = [x2[u] EXCEPT !.verified = TRUE]
    BY <1>1, <1>2 DEF User!IInv
<1>4. /\ x2'[u].invite = x2[u].invite /\ x2'[u].status = x2[u].status
      /\ x2'[u].email = x2[u].email
    <2>1. x2[u] \in User!Rows \ {User!NoUser}
        BY <1>1, UserRow DEF User!Exists
    <2> QED
        BY <1>3, <2>1 DEF User!Rows
<1>5. User!IInv'
    <2>1. x3' \in [Persons -> User!Keys \cup {Nobody}]
          /\ x8' \in [step : {"idle", "disable", "delete", "accounts"}, listed : SUBSET Persons]
        BY <1>1 DEF User!IInv, User!TypeOK
    <2>2. User!Exists(u)'
        BY <1>2, <1>3 DEF User!Exists
    <2> QED
        BY <1>1, <1>3, <1>4, <2>1, <2>2, UserRows
<1>6. User!KeepsUsers
    BY <1>1, <1>3, <1>4 DEF User!KeepsUsers
<1> QED
    BY <1>5, <1>6

LEMMA UserCleansUp == ASSUME User!Bounds, User!IInv, User!CleanUp PROVE User!IInv' /\ User!KeepsUsers
<1> DEFINE gone == {u \in x8.listed : User!Exists(u)}
<1>1. /\ x8.step \in {"disable", "delete"} /\ x8' = [x8 EXCEPT !.step = "accounts"]
      /\ \A u \in gone : x5[u] = Nobody /\ x6[u] = Nobody
      /\ UNCHANGED <<x1, x4, x5, x6, x7>>
    BY DEF User!CleanUp
<1>2. /\ x8' \in [step : {"idle", "disable", "delete", "accounts"}, listed : SUBSET Persons]
      /\ gone \subseteq Persons
    BY <1>1 DEF User!IInv, User!TypeOK
<1>3. x3 \in [Persons -> User!Keys \cup {Nobody}] /\ \A u \in Persons : x3[u] # Nobody => User!Exists(u)
    BY DEF User!IInv, User!TypeOK
<1>4. CASE x8.step = "disable"
    <2> DEFINE Off(u) == [x2[u] EXCEPT !.status = "disabled"]
    <2>1. x2' = [u \in Persons |-> IF u \in gone THEN Off(u) ELSE x2[u]] /\ x3' = x3
        BY <1>4 DEF User!CleanUp
    <2>2. ASSUME NEW u \in gone
          PROVE  Off(u) \in User!Rows \ {User!NoUser} /\ Off(u).invite = x2[u].invite /\ Off(u).email = x2[u].email
                 /\ Off(u).status = "disabled"
        <3>1. x2[u] \in User!Rows \ {User!NoUser}
            BY <1>2, UserRow DEF User!Exists
        <3> QED
            BY <3>1 DEF User!Rows, User!NoUser, User!Emails
    <2>3. x2' \in [Persons -> User!Rows]
        BY <2>1, <2>2, UserRow
    <2> HIDE DEF Off, gone
    <2>4. \A u \in Persons : \/ x2'[u] = x2[u]
                             \/ /\ x5[u] = Nobody /\ x2'[u] \in User!Rows \ {User!NoUser}
                                /\ x2'[u].invite = x2[u].invite
                                /\ x2'[u].email = x2[u].email /\ x2'[u].status = "disabled"
        BY <1>1, <2>1, <2>2
    <2>5. User!IInv'
        BY <1>1, <1>2, <1>3, <2>1, <2>3, <2>4, UserRows DEF User!Exists
    <2>6. User!KeepsUsers
        BY <2>1, <2>4 DEF User!KeepsUsers
    <2> QED
        BY <2>5, <2>6
<1>5. CASE x8.step = "delete"
    <2>1. /\ x2' = [u \in Persons |-> IF u \in gone THEN User!NoUser ELSE x2[u]]
          /\ x3' = [u \in Persons |-> IF u \in gone THEN Nobody ELSE x3[u]]
        BY <1>5 DEF User!CleanUp
    <2>2. x2' \in [Persons -> User!Rows] /\ x3' \in [Persons -> User!Keys \cup {Nobody}]
        BY <1>3, <2>1, UserRow DEF User!Rows
    <2> HIDE DEF gone
    <2>3. \A u \in Persons : \/ x2'[u] = x2[u] /\ x3'[u] = x3[u]
                             \/ /\ x5[u] = Nobody /\ x6[u] = Nobody
                                /\ x2'[u] = User!NoUser /\ x3'[u] = Nobody
        BY <1>1, <2>1
    <2>4. User!NoUser.invite = Nobody
        BY DEF User!NoUser
    <2>5. User!IInv'
        BY <1>1, <1>2, <2>2, <2>3, <2>4, UserRows
    <2>6. User!KeepsUsers
        BY <2>3 DEF User!KeepsUsers, User!Exists
    <2> QED
        BY <2>5, <2>6
<1> QED
    BY <1>1, <1>4, <1>5

LEMMA UserKeyed == ASSUME User!Bounds, User!IInv, NEW h \in Actors, User!InsertKey(h) PROVE User!IInv'
<1> DEFINE w == x4[h].user
           new == [x4[h] EXCEPT !.step = "commit", !.key = x7 + 1]
<1>1. /\ x4[h].step = "insert" /\ x6[w] = Nobody
      /\ x5[w] = h \/ (x5[w] = Nobody /\ User!Exists(w))
      /\ x3[w] = Nobody /\ x7 < MaxKeys /\ x7' = x7 + 1
      /\ x6' = [x6 EXCEPT ![w] = h]
      /\ UNCHANGED <<x1, x2, x3, x5, x8>>
    BY DEF User!InsertKey
<1>2. w \in Persons /\ x4[h] \in User!Requests /\ x4[h] # User!Idle
    BY <1>1, UserRequest DEF User!Idle
<1>3. /\ new \in User!Requests /\ new # User!Idle /\ new.step = "commit" /\ new.user = w
      /\ new.row = x4[h].row
      /\ x7 + 1 \in 0..MaxKeys
    <2>1. x7 + 1 \in User!Keys /\ x7 + 1 \in 0..MaxKeys
        <3>1. x7 \in 0..MaxKeys /\ x7 < MaxKeys /\ MaxKeys \in Nat
            BY <1>1 DEF User!IInv, User!TypeOK, User!Bounds
        <3> QED
            BY <3>1 DEF User!Keys
    <2>2. \A r \in User!Requests, k \in User!Keys :
             LET n == [r EXCEPT !.step = "commit", !.key = k]
             IN  n \in User!Requests /\ n # User!Idle /\ n.step = "commit" /\ n.user = r.user /\ n.row = r.row
        BY DEF User!Requests, User!Idle
    <2> QED
        BY <1>2, <2>1, <2>2
<1>4. \A g \in Actors : x4'[g] = IF g = h THEN new ELSE x4[g]
    BY DEF User!InsertKey, User!IInv
<1>5. /\ x6' \in [Persons -> Actors \cup {Nobody}]
      /\ \A u \in Persons : x6'[u] = IF u = w THEN h ELSE x6[u]
    BY <1>1, <1>2 DEF User!IInv, User!TypeOK
<1>6. x4' \in [Actors -> User!Requests \cup {User!Idle}]
    <2>1. x4' = [x4 EXCEPT ![h] = new]
        BY DEF User!InsertKey, User!IInv
    <2> HIDE DEF new
    <2> QED
        BY <1>3, <2>1 DEF User!IInv
<1> HIDE DEF w, new
<1>7. \A u \in Persons : (x5[u] = h => u = w) /\ x6[u] # h
    BY <1>1, <1>2 DEF User!IInv, User!DraftsKeep, User!KeysAreNew, w
<1>8. User!TypeOK'
    BY <1>1, <1>3, <1>5 DEF User!IInv, User!TypeOK, User!Exists
<1>9. User!DraftsKeep'
    <2>1. \A g \in Actors : x4'[g] # User!Idle =>
              /\ x4'[g].step = "upsert" => x4'[g].email \in User!Emails
              /\ x4'[g].row = User!NoUser \/ x5'[x4'[g].user] = g
        BY <1>1, <1>2, <1>3, <1>4 DEF User!IInv, User!DraftsKeep, w
    <2>2. ASSUME NEW u \in Persons, NEW g \in Actors, x5'[u] = g
          PROVE  /\ x4'[g] # User!Idle /\ x4'[g].user = u /\ x4'[g].step \in {"key", "insert", "commit"}
                 /\ x4'[g].row # User!NoUser
                 /\ (User!Exists(u) => User!Keeps(x2[u], x4'[g].row))
        BY <1>1, <1>3, <1>4, <1>7, <2>2 DEF User!IInv, User!DraftsKeep
    <2> QED
        BY <1>1, <2>1, <2>2 DEF User!DraftsKeep, User!Exists
<1>10. User!KeysAreNew'
    <2> SUFFICES ASSUME NEW u \in Persons, NEW g \in Actors, x6'[u] = g
                 PROVE  /\ x4'[g] # User!Idle /\ x4'[g].user = u /\ x4'[g].step = "commit"
                        /\ x3[u] = Nobody /\ (User!Exists(u) \/ x5[u] = g)
        BY <1>1 DEF User!KeysAreNew, User!Exists
    <2>1. CASE u = w
        BY <1>1, <1>3, <1>4, <1>5, <2>1
    <2>2. CASE u # w
        BY <1>4, <1>5, <1>7, <2>2 DEF User!IInv, User!KeysAreNew
    <2> QED
        BY <2>1, <2>2
<1>11. User!CodesAreApart'
    <2>1. \A g \in Actors : x4'[g].row = x4[g].row /\ x4'[g].user = x4[g].user
                              /\ (x4'[g] # User!Idle => x4[g] # User!Idle)
        BY <1>2, <1>3, <1>4 DEF w
    <2> QED
        BY <1>1, <2>1 DEF User!IInv, User!CodesAreApart
<1> QED
    BY <1>1, <1>6, <1>8, <1>9, <1>10, <1>11 DEF User!IInv

LEMMA UserCommits ==
    ASSUME User!Bounds, User!IInv, NEW h \in Actors, User!Commit(h)
    PROVE  User!IInv' /\ User!KeepsUsers
<1> DEFINE w == x4[h].user
           row == x4[h].row
<1>1. /\ x4[h].step = "commit" /\ User!Over(h) /\ UNCHANGED <<x1, x7, x8>>
      /\ x2' = IF x5[w] = h THEN [x2 EXCEPT ![w] = row] ELSE x2
      /\ x3' = IF x6[w] = h THEN [x3 EXCEPT ![w] = x4[h].key] ELSE x3
    BY DEF User!Commit
<1>2. /\ w \in Persons /\ x4[h] \in User!Requests /\ x4[h] # User!Idle /\ row \in User!Rows
      /\ x4[h].key \in User!Keys \cup {Nobody}
    BY <1>1, UserRequest DEF User!Idle
<1>3. /\ \A g \in Actors : x4'[g] = IF g = h THEN User!Idle ELSE x4[g]
      /\ x4' \in [Actors -> User!Requests \cup {User!Idle}]
    BY <1>1 DEF User!IInv, User!Over
<1>4. /\ x5' \in [Persons -> Actors \cup {Nobody}] /\ x6' \in [Persons -> Actors \cup {Nobody}]
      /\ \A u \in Persons : /\ x5'[u] = IF x5[u] = h THEN Nobody ELSE x5[u]
                            /\ x6'[u] = IF x6[u] = h THEN Nobody ELSE x6[u]
    BY <1>1 DEF User!IInv, User!Over, User!TypeOK
<1>5. /\ x2' \in [Persons -> User!Rows] /\ x3' \in [Persons -> User!Keys \cup {Nobody}]
      /\ \A u \in Persons : /\ x2'[u] = IF u = w /\ x5[w] = h THEN row ELSE x2[u]
                            /\ x3'[u] = IF u = w /\ x6[w] = h THEN x4[h].key ELSE x3[u]
    BY <1>1, <1>2 DEF User!IInv, User!TypeOK
<1>6. /\ x5[w] = h => row # User!NoUser /\ (User!Exists(w) => User!Keeps(x2[w], row))
      /\ x6[w] = h => x3[w] = Nobody /\ (User!Exists(w) \/ x5[w] = h)
    BY <1>2 DEF User!IInv, User!DraftsKeep, User!KeysAreNew
<1>7. \A u \in Persons : (x5[u] = h => u = w) /\ (x6[u] = h => u = w)
    BY <1>2 DEF User!IInv, User!DraftsKeep, User!KeysAreNew
<1> HIDE DEF w, row
<1>8. User!TypeOK'
    <2>1. ASSUME NEW u \in Persons, NEW v \in Persons, u # v, User!Exists(u)', x2'[u].invite # Nobody
          PROVE  x2'[v].invite # x2'[u].invite
        <3>1. \A v1 \in Persons \ {w} : x5[w] = h /\ row.invite # Nobody => x2[v1].invite # row.invite
            BY <1>2 DEF User!IInv, User!CodesAreApart, row, w
        <3>2. CASE x5[w] = h /\ u = w
            BY <1>5, <2>1, <3>1, <3>2
        <3>3. CASE x5[w] = h /\ v = w
            BY <1>5, <2>1, <3>1, <3>3
        <3>4. CASE x5[w] # h \/ (u # w /\ v # w)
            <4>1. x2'[u] = x2[u] /\ x2'[v] = x2[v] /\ User!Exists(u)
                BY <1>5, <2>1, <3>4 DEF User!Exists
            <4> QED
                BY <2>1, <4>1 DEF User!IInv, User!TypeOK
        <3> QED
            BY <3>2, <3>3, <3>4
    <2>2. ASSUME NEW u \in Persons, x3'[u] # Nobody PROVE User!Exists(u)'
        BY <1>5, <1>6, <2>2 DEF User!IInv, User!TypeOK, User!Exists
    <2> QED
        BY <1>1, <1>4, <1>5, <2>1, <2>2 DEF User!IInv, User!TypeOK
<1>9. User!DraftsKeep'
    <2>1. \A g \in Actors : x4'[g] # User!Idle =>
              /\ x4'[g].step = "upsert" => x4'[g].email \in User!Emails
              /\ x4'[g].row = User!NoUser \/ x5'[x4'[g].user] = g
        BY <1>3, <1>4, UserRequest DEF User!IInv, User!DraftsKeep, User!Bounds
    <2>2. ASSUME NEW u \in Persons, NEW g \in Actors, x5'[u] = g
          PROVE  /\ x4'[g] # User!Idle /\ x4'[g].user = u /\ x4'[g].step \in {"key", "insert", "commit"}
                 /\ x4'[g].row # User!NoUser
                 /\ (User!Exists(u)' => User!Keeps(x2'[u], x4'[g].row))
        <3>1. g # h /\ x5[u] = g /\ x4'[g] = x4[g]
            BY <1>3, <1>4, <2>2 DEF User!Bounds
        <3>2. x2'[u] = x2[u]
            BY <1>5, <3>1
        <3> QED
            BY <3>1, <3>2 DEF User!IInv, User!DraftsKeep, User!Exists
    <2> QED
        BY <2>1, <2>2 DEF User!DraftsKeep
<1>10. User!KeysAreNew'
    <2> SUFFICES ASSUME NEW u \in Persons, NEW g \in Actors, x6'[u] = g
                 PROVE  /\ x4'[g] # User!Idle /\ x4'[g].user = u /\ x4'[g].step = "commit"
                        /\ x3'[u] = Nobody /\ (User!Exists(u)' \/ x5'[u] = g)
        BY DEF User!KeysAreNew
    <2>1. g # h /\ x6[u] = g /\ x4'[g] = x4[g]
        BY <1>3, <1>4 DEF User!Bounds
    <2>2. x3'[u] = x3[u]
        BY <1>5, <2>1
    <2>3. User!Exists(u) => User!Exists(u)'
        BY <1>5, <1>6 DEF User!Exists
    <2> QED
        BY <1>4, <2>1, <2>2, <2>3 DEF User!IInv, User!KeysAreNew
<1>11. User!CodesAreApart'
    <2> SUFFICES ASSUME NEW g \in Actors, NEW v \in Persons, x4'[g] # User!Idle, v # x4'[g].user,
                        x4'[g].row.invite # Nobody
                 PROVE  /\ x2'[v].invite # x4'[g].row.invite
                        /\ \A k \in Actors : x5'[v] = k => x4'[k].row.invite # x4'[g].row.invite
        BY DEF User!CodesAreApart
    <2>1. x4'[g] = x4[g] /\ g # h
        BY <1>3
    <2>2. /\ x2[v].invite # x4[g].row.invite
          /\ \A k \in Actors : x5[v] = k => x4[k].row.invite # x4[g].row.invite
        BY <2>1 DEF User!IInv, User!CodesAreApart
    <2>3. x2'[v].invite # x4[g].row.invite
        BY <1>5, <2>2 DEF row
    <2> QED
        BY <1>3, <1>4, <2>1, <2>2, <2>3 DEF User!Bounds
<1>12. User!KeepsUsers
    <2> SUFFICES ASSUME NEW u \in Persons, User!Exists(u), x2'[u] # User!NoUser
                 PROVE  User!Keeps(x2[u], x2'[u]) /\ (x3[u] # Nobody => x3'[u] = x3[u])
        BY DEF User!KeepsUsers, User!Keeps
    <2>1. x3[u] # Nobody => x3'[u] = x3[u]
        BY <1>5, <1>6
    <2>2. CASE u = w /\ x5[w] = h
        BY <1>5, <1>6, <2>1, <2>2
    <2>3. CASE ~(u = w /\ x5[w] = h)
        BY <1>5, <2>1, <2>3 DEF User!Keeps
    <2> QED
        BY <2>2, <2>3
<1> QED
    BY <1>3, <1>5, <1>8, <1>9, <1>10, <1>11, <1>12 DEF User!IInv

LEMMA UserBegins ==
    ASSUME User!Bounds, User!IInv, NEW h \in Actors, NEW u \in Persons, User!Exchange(h, u) \/ User!Reconcile(h, u)
    PROVE  User!IInv'
<1> DEFINE Asked(goal, step) == [step |-> step, user |-> u, goal |-> IF step = "upsert" THEN goal ELSE "none",
                                 email |-> IF step = "upsert" THEN x1[u].email ELSE "none",
                                 tries |-> 1, row |-> User!NoUser, key |-> Nobody]
<1>1. x1[u].email \in User!Emails /\ User!NoUser \in User!Rows
    BY DEF User!IInv, User!TypeOK, User!Rows
<1>2. PICK goal \in {"key", "none"}, step \in {"upsert", "orphan", "key", "commit"} :
          x4' = [x4 EXCEPT ![h] = Asked(goal, step)]
    BY DEF User!Exchange, User!Reconcile, User!Begin
<1>3. x4[h] = User!Idle /\ UNCHANGED <<x1, x2, x3, x5, x6, x7, x8>>
    BY DEF User!Exchange, User!Reconcile
<1>4. /\ Asked(goal, step) \in User!Requests /\ Asked(goal, step).row = User!NoUser
      /\ (Asked(goal, step).step = "upsert" => Asked(goal, step).email \in User!Emails)
    BY <1>1 DEF User!Requests
<1> HIDE DEF Asked
<1> QED
    BY <1>2, <1>3, <1>4, UserMoves

LEMMA UserUpserts ==
    ASSUME User!Bounds, User!IInv, NEW h \in Actors, NEW code \in Things, User!Upsert(h, code)
    PROVE  User!IInv'
<1> DEFINE w == x4[h].user
           row == IF User!Exists(w) THEN User!Rewritten(x2[w], x4[h].email, code) ELSE User!New(x4[h].email, code)
           new == [x4[h] EXCEPT !.step = IF x4[h].goal = "key" THEN "key" ELSE "commit",
                                     !.tries = 1, !.goal = "none", !.email = "none", !.row = row]
<1>1. /\ x4[h].step = "upsert" /\ x5[w] = Nobody /\ code \in User!Drawn(h)
      /\ UNCHANGED <<x1, x2, x3, x6, x7, x8>>
      /\ x5' = [x5 EXCEPT ![w] = h]
    BY DEF User!Upsert
<1>2. w \in Persons /\ x4[h] \in User!Requests /\ x4[h] # User!Idle /\ x4[h].email \in User!Emails
    BY <1>1, UserRequest DEF User!Idle, User!IInv, User!DraftsKeep
<1>3. /\ row \in User!Rows \ {User!NoUser} /\ (User!Exists(w) => User!Keeps(x2[w], row))
      /\ row.invite \in {code, x2[w].invite}
    <2>1. CASE User!Exists(w)
        <3>1. x2[w] \in User!Rows \ {User!NoUser}
            BY <1>2, <2>1, UserRow DEF User!Exists
        <3>2. ASSUME NEW r \in User!Rows \ {User!NoUser}, NEW e \in User!Emails, NEW n, n = User!Rewritten(r, e, code)
              PROVE  n \in User!Rows \ {User!NoUser} /\ User!Keeps(r, n) /\ n.invite \in {code, r.invite}
            <4>1. r \in [email : User!Emails, status : {"active", "disabled"}, state : {"active", "orphaned"},
                         invite : Things \cup {Nobody}, verified : BOOLEAN]
                BY <3>2 DEF User!Rows
            <4>2. /\ n = [email |-> e, status |-> r.status, state |-> "active",
                          invite |-> IF r.invite = Nobody THEN code ELSE r.invite,
                          verified |-> r.verified /\ r.email = e]
                BY <3>2, <4>1 DEF User!Rewritten
            <4>3. n.email = e /\ n.status = r.status /\ n.invite = IF r.invite = Nobody THEN code ELSE r.invite
                BY <4>2
            <4>4. n.verified = (r.verified /\ r.email = e)
                BY <4>2
            <4>5. n \in User!Rows \ {User!NoUser}
                BY <4>1, <4>2 DEF User!Rows, User!NoUser, User!Emails
            <4> QED
                BY <4>3, <4>4, <4>5 DEF User!Keeps
        <3> QED
            BY <1>2, <2>1, <3>1, <3>2
    <2>2. CASE ~User!Exists(w)
        BY <1>2, <2>2 DEF User!New, User!Rows, User!NoUser, User!Emails
    <2> QED
        BY <2>1, <2>2
<1> HIDE DEF row
<1>4. new \in User!Requests /\ new.user = w /\ new.row = row /\ new.step \in {"key", "commit"}
    BY <1>2, <1>3 DEF User!Requests
<1>5. x4' = [x4 EXCEPT ![h] = new]
    BY DEF User!Upsert, row, User!IInv
<1>6. ASSUME NEW v \in Persons \ {w}, row.invite # Nobody
      PROVE  /\ x2[v].invite # row.invite
             /\ \A g \in Actors : x5[v] = g => x4[g].row.invite # row.invite
    <2>1. CASE row.invite = code
        <3>1. \A g \in Actors \ {h} : x4[g] # User!Idle => x4[g].row.invite # code
            BY <1>1 DEF User!Drawn
        <3>2. x2[v].invite # code
            BY <1>1 DEF User!Drawn
        <3>3. \A g \in Actors : x5[v] = g => g # h /\ x4[g] # User!Idle
            BY <1>1 DEF User!IInv, User!DraftsKeep
        <3> QED
            BY <2>1, <3>1, <3>2, <3>3
    <2>2. CASE row.invite = x2[w].invite
        <3>1. User!Exists(w) /\ x2[w].invite # Nobody
            BY <1>2, <1>6, <2>2, UserRow
        <3>2. x2[v].invite # x2[w].invite
            BY <1>2, <3>1 DEF User!IInv, User!TypeOK
        <3>3. ASSUME NEW g \in Actors, x5[v] = g PROVE x4[g].row.invite # x2[w].invite
            <4>1. x4[g] # User!Idle /\ x4[g].user = v
                BY <3>3 DEF User!IInv, User!DraftsKeep
            <4> QED
                BY <1>2, <3>1, <4>1 DEF User!IInv, User!CodesAreApart
        <3> QED
            BY <2>2, <3>2, <3>3
    <2> QED
        BY <1>3, <2>1, <2>2
<1> HIDE DEF new
<1> QED
    BY <1>1, <1>2, <1>3, <1>4, <1>5, <1>6, UserDrafts

LEMMA UserDeadlocks == ASSUME User!Bounds, User!IInv, NEW h \in Actors, User!Deadlock(h) PROVE User!IInv'
<1> DEFINE new == [x4[h] EXCEPT !.tries = @ + 1]
<1>1. x4[h].step = "upsert" /\ UNCHANGED <<x1, x2, x3, x7, x8>>
    BY DEF User!Deadlock
<1>2. x4[h] \in User!Requests /\ x4[h] # User!Idle /\ x4[h].email \in User!Emails
    BY <1>1, UserRequest DEF User!Idle, User!IInv, User!DraftsKeep
<1>3. CASE User!Over(h)
    BY <1>1, <1>3, UserOver
<1>4. CASE x4' = [x4 EXCEPT ![h].tries = @ + 1] /\ UNCHANGED <<x5, x6>>
    <2>1. /\ new \in User!Requests /\ new # User!Idle /\ new.row = x4[h].row /\ new.user = x4[h].user
          /\ new.email = x4[h].email
        BY <1>2 DEF User!Requests, User!Idle
    <2>2. x4' = [x4 EXCEPT ![h] = new]
        BY <1>4
    <2> HIDE DEF new
    <2> QED
        BY <1>1, <1>2, <1>4, <2>1, <2>2, UserMoves
<1> QED
    BY <1>3, <1>4 DEF User!Deadlock

LEMMA UserOrphaned == ASSUME User!Bounds, User!IInv, NEW h \in Actors, User!Orphan(h) PROVE User!IInv'
<1> DEFINE w == x4[h].user
           row == [x2[w] EXCEPT !.state = "orphaned"]
<1>1. /\ x4[h].step = "orphan" /\ x5[w] = Nobody
      /\ UNCHANGED <<x1, x2, x3, x6, x7, x8>>
    BY DEF User!Orphan
<1>2. w \in Persons /\ x4[h] \in User!Requests /\ x4[h] # User!Idle
    BY <1>1, UserRequest DEF User!Idle
<1>3. CASE User!Exists(w) /\ x2[w].state # "orphaned"
    <2> DEFINE new == [x4[h] EXCEPT !.step = "commit", !.row = row]
    <2>1. x2[w] \in User!Rows \ {User!NoUser}
        BY <1>2, <1>3, UserRow DEF User!Exists
    <2>2. row \in User!Rows \ {User!NoUser} /\ User!Keeps(x2[w], row) /\ row.invite = x2[w].invite
        <3>1. \A r \in User!Rows \ {User!NoUser} :
                 LET n == [r EXCEPT !.state = "orphaned"]
                 IN  n \in User!Rows \ {User!NoUser} /\ User!Keeps(r, n) /\ n.invite = r.invite
            BY DEF User!Rows, User!Keeps, User!NoUser, User!Emails
        <3> QED
            BY <2>1, <3>1
    <2> HIDE DEF row
    <2>3. new \in User!Requests /\ new.user = w /\ new.row = row /\ new.step = "commit"
        BY <1>2, <2>2 DEF User!Requests
    <2>4. x4' = [x4 EXCEPT ![h] = new] /\ x5' = [x5 EXCEPT ![w] = h]
        BY <1>3 DEF User!Orphan, row, User!IInv
    <2>5. ASSUME NEW v \in Persons \ {w}, row.invite # Nobody
          PROVE  /\ x2[v].invite # row.invite
                 /\ \A g \in Actors : x5[v] = g => x4[g].row.invite # row.invite
        <3>1. User!Exists(w) /\ x2[w].invite # Nobody
            BY <1>3, <2>2, <2>5
        <3>2. x2[v].invite # x2[w].invite
            BY <1>2, <3>1 DEF User!IInv, User!TypeOK
        <3>3. ASSUME NEW g \in Actors, x5[v] = g PROVE x4[g].row.invite # x2[w].invite
            <4>1. x4[g] # User!Idle /\ x4[g].user = v
                BY <3>3 DEF User!IInv, User!DraftsKeep
            <4> QED
                BY <1>2, <3>1, <4>1 DEF User!IInv, User!CodesAreApart
        <3> QED
            BY <2>2, <3>2, <3>3
    <2> HIDE DEF new
    <2> QED
        BY <1>1, <1>2, <2>2, <2>3, <2>4, <2>5, UserDrafts
<1>4. CASE ~(User!Exists(w) /\ x2[w].state # "orphaned")
    <2> DEFINE new == [x4[h] EXCEPT !.step = "commit"]
    <2>1. /\ new \in User!Requests /\ new # User!Idle /\ new.row = x4[h].row
          /\ new.user = x4[h].user /\ new.step = "commit"
        BY <1>2 DEF User!Requests, User!Idle
    <2>2. x4' = [x4 EXCEPT ![h] = new] /\ x5' = x5
        BY <1>4 DEF User!Orphan, User!Go
    <2> HIDE DEF new
    <2> QED
        BY <1>1, <2>1, <2>2, UserMoves
<1> QED
    BY <1>3, <1>4

LEMMA UserFinds == ASSUME User!Bounds, User!IInv, NEW h \in Actors, User!FindKey(h) PROVE User!IInv'
<1> DEFINE w == x4[h].user
           new == [x4[h] EXCEPT !.step = IF x3[w] = Nobody THEN "insert" ELSE "commit", !.key = x3[w]]
<1>1. /\ x4[h].step = "key" /\ UNCHANGED <<x1, x2, x3, x5, x6, x7, x8>>
    BY DEF User!FindKey
<1>2. w \in Persons /\ x4[h] \in User!Requests /\ x4[h] # User!Idle
    BY <1>1, UserRequest DEF User!Idle
<1>3. x3[w] \in User!Keys \cup {Nobody}
    BY <1>2 DEF User!IInv, User!TypeOK
<1>4. /\ new \in User!Requests /\ new # User!Idle /\ new.row = x4[h].row /\ new.user = w
      /\ new.step \in {"insert", "commit"}
    BY <1>2, <1>3 DEF User!Requests, User!Idle
<1>5. x4' = [x4 EXCEPT ![h] = new]
    BY DEF User!FindKey, User!IInv
<1> HIDE DEF new
<1> QED
    BY <1>1, <1>4, <1>5, UserMoves

LEMMA UserNext == User!Bounds /\ User!IInv /\ [User!Next]_(User!vars) => User!IInv' /\ User!KeepsUsers
<1> SUFFICES ASSUME User!Bounds, User!IInv, [User!Next]_(User!vars) PROVE User!IInv' /\ User!KeepsUsers
    OBVIOUS
<1>1. ASSUME UNCHANGED <<x2, x3>> PROVE User!KeepsUsers
    BY <1>1 DEF User!KeepsUsers
<1>2. ASSUME NEW u \in Persons, NEW a \in [active : BOOLEAN, email : User!Emails], User!Account(u, a)
      PROVE User!IInv' /\ User!KeepsUsers
    <2>1. /\ x1' = [x1 EXCEPT ![u] = a]
          /\ UNCHANGED <<x2, x3, x4, x5, x6, x7, x8>>
        BY <1>2 DEF User!Account
    <2>2. /\ x1' \in [Persons -> [active : BOOLEAN, email : User!Emails]]
          /\ x8' \in [step : {"idle", "disable", "delete", "accounts"}, listed : SUBSET Persons]
        BY <1>2, <2>1 DEF User!IInv, User!TypeOK
    <2> QED
        BY <1>1, <2>1, <2>2, UserFrame
<1>3. ASSUME NEW u \in Persons, User!Verify(u) PROVE User!IInv' /\ User!KeepsUsers
    BY <1>3, UserVerifies
<1>4. ASSUME NEW h \in Actors, NEW u \in Persons, User!Exchange(h, u) \/ User!Reconcile(h, u)
      PROVE User!IInv' /\ User!KeepsUsers
    <2>1. UNCHANGED <<x2, x3>>
        BY <1>4 DEF User!Exchange, User!Reconcile
    <2> QED
        BY <1>1, <1>4, <2>1, UserBegins
<1>5. ASSUME NEW h \in Actors, NEW code \in Things, User!Upsert(h, code)
      PROVE User!IInv' /\ User!KeepsUsers
    <2>1. UNCHANGED <<x2, x3>>
        BY <1>5 DEF User!Upsert
    <2> QED
        BY <1>1, <1>5, <2>1, UserUpserts
<1>6. ASSUME NEW h \in Actors, User!Deadlock(h) \/ User!Orphan(h) \/ User!FindKey(h) \/ User!InsertKey(h)
      PROVE User!IInv' /\ User!KeepsUsers
    <2>1. UNCHANGED <<x2, x3>>
        BY <1>6 DEF User!Deadlock, User!Orphan, User!FindKey, User!InsertKey
    <2> QED
        BY <1>1, <1>6, <2>1, UserDeadlocks, UserOrphaned, UserFinds, UserKeyed
<1>7. ASSUME NEW h \in Actors, User!Commit(h) PROVE User!IInv' /\ User!KeepsUsers
    BY <1>7, UserCommits
<1>8. ASSUME NEW h \in Actors, User!Abort(h) PROVE User!IInv' /\ User!KeepsUsers
    BY <1>1, <1>8, UserOver DEF User!Abort
<1>9. ASSUME NEW action \in {"disable", "delete"}, User!List(action) PROVE User!IInv' /\ User!KeepsUsers
    <2>1. UNCHANGED <<x1, x2, x3, x4, x5, x6, x7>>
        BY <1>9 DEF User!List
    <2>2. /\ x1' \in [Persons -> [active : BOOLEAN, email : User!Emails]]
          /\ x8' \in [step : {"idle", "disable", "delete", "accounts"}, listed : SUBSET Persons]
        BY <1>9, <2>1 DEF User!IInv, User!TypeOK, User!List
    <2> QED
        BY <1>1, <2>1, <2>2, UserFrame
<1>10. ASSUME User!CleanUp PROVE User!IInv' /\ User!KeepsUsers
    BY <1>10, UserCleansUp
<1>11. ASSUME NEW reached \in BOOLEAN, User!SwitchOff(reached) PROVE User!IInv' /\ User!KeepsUsers
    <2>1. UNCHANGED <<x2, x3, x4, x5, x6, x7>>
        BY <1>11 DEF User!SwitchOff
    <2>2. x8' \in [step : {"idle", "disable", "delete", "accounts"}, listed : SUBSET Persons]
        BY <1>11 DEF User!IInv, User!TypeOK, User!SwitchOff
    <2>3. x1' \in [Persons -> [active : BOOLEAN, email : User!Emails]]
        <3>1. \A a \in [active : BOOLEAN, email : User!Emails] :
                 [a EXCEPT !.active = FALSE] \in [active : BOOLEAN, email : User!Emails]
            OBVIOUS
        <3>2. x1 \in [Persons -> [active : BOOLEAN, email : User!Emails]]
            BY DEF User!IInv, User!TypeOK
        <3> QED
            BY <1>11, <3>1, <3>2 DEF User!SwitchOff
    <2> QED
        BY <1>1, <2>1, <2>2, <2>3, UserFrame
<1>12. CASE UNCHANGED User!vars
    <2>1. UNCHANGED <<x2, x3, x4, x5, x6, x7>> /\ UNCHANGED <<x1, x8>>
        BY <1>12 DEF User!vars
    <2>2. /\ x1' \in [Persons -> [active : BOOLEAN, email : User!Emails]]
          /\ x8' \in [step : {"idle", "disable", "delete", "accounts"}, listed : SUBSET Persons]
        BY <2>1 DEF User!IInv, User!TypeOK
    <2> QED
        BY <1>1, <2>1, <2>2, UserFrame
<1> QED
    BY <1>2, <1>3, <1>4, <1>5, <1>6, <1>7, <1>8, <1>9, <1>10, <1>11, <1>12 DEF User!Next

-----------------------------------------------------------------------------
(*****************************************************************************)
(* Jobs of the queue.  x1 is the job, x2 are the requests of operators, x3   *)
(* is the ledger, x4 the audit trail.                                        *)
(*                                                                           *)
(* Ledger and audit grow together, so a decision stands at the same place in *)
(* both, and what precedes a new one is what preceded the check of its queue.*)
(*****************************************************************************)
LEMMA JobInit == Job!Init => Job!IInv
<1> SUFFICES ASSUME Job!Init PROVE Job!IInv
    OBVIOUS
<1>1. x1 \in Job!Jobs /\ x2 = [o \in Actors |-> Job!Idle] /\ x3 = <<>> /\ x4 = <<>>
    BY DEF Job!Init, Job!Jobs, Job!Ended
<1>2. Job!TypeOK
    BY <1>1 DEF Job!TypeOK, Job!Jobs, Job!ToSet
<1>3. Job!BooksAgree
    BY <1>1 DEF Job!BooksAgree, Job!LastPromotion
<1> QED
    BY <1>1, <1>2, <1>3 DEF Job!IInv

\* What changes no books and no priority.
LEMMA JobMoves ==
    ASSUME Job!IInv, x1' \in Job!Jobs, x1'.priority = x1.priority, UNCHANGED <<x3, x4>>,
           NEW o \in Actors, NEW new \in {Job!Idle} \cup [step : {"checked"}, action : {"promote", "cancel"},
                                                         priority : Job!Priorities, before : Job!Jobs],
           new = Job!Idle \/ new.before.status \notin Job!Ended,
           x2' = [x2 EXCEPT ![o] = new]
    PROVE  Job!IInv'
<1>1. x2' \in [Actors -> {Job!Idle} \cup [step : {"checked"}, action : {"promote", "cancel"},
                                              priority : Job!Priorities, before : Job!Jobs]]
    BY DEF Job!IInv
<1>2. Job!TypeOK'
    BY DEF Job!IInv, Job!TypeOK, Job!Jobs
<1>3. Job!BooksAgree'
    BY DEF Job!IInv, Job!BooksAgree, Job!LastPromotion
<1> QED
    BY <1>1, <1>2, <1>3 DEF Job!IInv

\* A decision is written down: the queue of a cancellation is that of the last promotion, if any.
LEMMA JobRecords ==
    ASSUME Job!IInv, NEW o \in Actors, x2[o].step = "checked", NEW queue \in {"interactive", "background"},
           Job!Recorded(o, queue), x1' \in Job!Jobs,
           \/ x2[o].action = "promote" /\ x1'.priority = x2[o].priority
           \/ x2[o].action = "cancel" /\ x1'.priority = x1.priority /\ queue = Job!Queue(x1.priority)
    PROVE  Job!IInv'
<1> DEFINE entry == [action |-> x2[o].action, queue |-> queue]
           decision == [action |-> x2[o].action, before |-> x2[o].before, priority |-> x2[o].priority]
<1>1. x2[o] \in [step : {"checked"}, action : {"promote", "cancel"}, priority : Job!Priorities, before : Job!Jobs]
    BY DEF Job!IInv, Job!Idle
<1>2. /\ entry \in [action : {"promote", "cancel"}, queue : {"interactive", "background"}]
      /\ decision \in Job!Decisions
      /\ entry.action = decision.action /\ entry.queue = queue /\ decision.priority = x2[o].priority
      /\ decision.action = x2[o].action
    BY <1>1 DEF Job!Decisions
<1>3. x3' = Append(x3, entry) /\ x4' = Append(x4, decision) /\ x2' = [x2 EXCEPT ![o] = Job!Idle]
    BY DEF Job!Recorded
<1> HIDE DEF entry, decision
<1>0. PICK n \in Nat : n = Len(x4)
    BY DEF Job!IInv
<1>4. /\ x3 \in Seq([action : {"promote", "cancel"}, queue : {"interactive", "background"}])
      /\ x4 \in Seq(Job!Decisions) /\ n \in Nat /\ Len(x3) = n /\ Len(x4) = n
    BY <1>0 DEF Job!IInv, Job!BooksAgree
<1>5. /\ x3' \in Seq([action : {"promote", "cancel"}, queue : {"interactive", "background"}])
      /\ x4' \in Seq(Job!Decisions) /\ Len(x3') = n + 1 /\ Len(x4') = n + 1
      /\ DOMAIN x3' = 1..(n + 1) /\ DOMAIN x4' = 1..(n + 1) /\ DOMAIN x3 = 1..n /\ DOMAIN x4 = 1..n
      /\ \A i \in 1..n : x3'[i] = x3[i] /\ x4'[i] = x4[i]
      /\ x3'[n + 1] = entry /\ x4'[n + 1] = decision
    BY <1>2, <1>3, <1>4
<1>5a. n \in Nat /\ DOMAIN x3 = 1..n /\ DOMAIN x4 = 1..n /\ DOMAIN x3' = 1..(n + 1) /\ DOMAIN x4' = 1..(n + 1)
    BY <1>4, <1>5
<1>5b. \A i \in 1..n : x4'[i] = x4[i]
    BY <1>5
<1>5c. n + 1 \in 1..(n + 1) /\ x4'[n + 1] = decision /\ decision.action = x2[o].action
       /\ decision.priority = x2[o].priority
    BY <1>2, <1>4, <1>5
<1>5d. \A i \in 1..n : x3'[i] = x3[i]
    BY <1>5
<1>5e. x3'[n + 1] = entry /\ entry.queue = queue /\ entry.action = x2[o].action
    BY <1>2, <1>5
<1>5f. Len(x4) = n /\ Len(x4') = n + 1 /\ Len(x3') = n + 1
    BY <1>4, <1>5
<1>6. Job!TypeOK'
    <2>1. \A i \in 1..(n + 1) : x3'[i].queue \in {"interactive", "background"}
        <3>1. \A i \in 1..n : x3[i].queue \in {"interactive", "background"}
            BY <1>5a DEF Job!IInv, Job!TypeOK, Job!ToSet
        <3>2. \A i \in 1..(n + 1) : i \in 1..n \/ i = n + 1
            BY <1>5a
        <3> QED
            BY <1>5d, <1>5e, <3>1, <3>2
    <2>2. \A p \in Actors : x2'[p] = Job!Idle \/ x2'[p].before.status \notin Job!Ended
        BY <1>3 DEF Job!IInv, Job!TypeOK
    <2> QED
        BY <1>5a, <2>1, <2>2 DEF Job!TypeOK, Job!ToSet, Job!Jobs
<1>7. ASSUME NEW m \in 0..n, NEW k \in 1..n PROVE Job!LastPromotion(k, m)' <=> Job!LastPromotion(k, m)
    <2>1. \A i \in 1..m : x4'[i] = x4[i]
        BY <1>5a, <1>5b
    <2>2. \A later \in (k + 1)..m : later \in 1..m
        BY <1>5a
    <2> QED
        BY <1>5a, <2>1, <2>2 DEF Job!LastPromotion
<1>8. ASSUME NEW k \in 1..(n + 1), Job!LastPromotion(k, n + 1)' PROVE x1'.priority = x4'[k].priority
    <2>1. CASE x2[o].action = "promote"
        <3>1. k = n + 1
            <4>1. ASSUME k # n + 1 PROVE n + 1 \in (k + 1)..(n + 1)
                BY <1>5a, <4>1
            <4> QED
                BY <1>5c, <1>8, <2>1, <4>1 DEF Job!LastPromotion
        <3> QED
            BY <1>5c, <2>1, <3>1
    <2>2. CASE x2[o].action = "cancel"
        <3>1. k # n + 1
            BY <1>5c, <1>8, <2>2 DEF Job!LastPromotion
        <3>2. k \in 1..n /\ n \in 0..n /\ \A later \in (k + 1)..n : later \in (k + 1)..(n + 1)
            BY <1>5a, <3>1
        <3>3. Job!LastPromotion(k, n)'
            BY <1>8, <3>2 DEF Job!LastPromotion
        <3>4. Job!LastPromotion(k, n)
            BY <1>7, <3>2, <3>3
        <3>5. x1.priority = x4[k].priority
            BY <1>5a, <1>5f, <3>2, <3>4 DEF Job!IInv, Job!BooksAgree
        <3> QED
            BY <1>5b, <2>2, <3>2, <3>5
    <2> QED
        BY <1>1, <2>1, <2>2
<1>9. ASSUME NEW i \in 1..(n + 1), x3'[i].action = "cancel", NEW k \in 1..(n + 1), Job!LastPromotion(k, i - 1)'
      PROVE  x3'[i].queue = Job!Queue(x4'[k].priority)
    <2>1. k \in 1..n /\ i - 1 \in 0..n
        <3>1. k \in 1..(i - 1)
            BY <1>9 DEF Job!LastPromotion
        <3> QED
            BY <1>5a, <3>1
    <2>2. Job!LastPromotion(k, i - 1)
        BY <1>7, <1>9, <2>1
    <2>3. CASE i \in 1..n
        <3>1. x3[i].queue = Job!Queue(x4[k].priority)
            BY <1>5a, <1>5d, <1>9, <2>1, <2>2, <2>3 DEF Job!IInv, Job!BooksAgree
        <3> QED
            BY <1>5b, <1>5d, <2>1, <2>3, <3>1
    <2>4. CASE i = n + 1
        <3>1. i - 1 = n
            BY <1>5a, <2>4
        <3>2. x1.priority = x4[k].priority
            BY <1>5a, <1>5f, <2>1, <2>2, <3>1 DEF Job!IInv, Job!BooksAgree
        <3>3. x2[o].action = "cancel"
            BY <1>5e, <1>9, <2>4
        <3> QED
            BY <1>5b, <1>5e, <2>1, <2>4, <3>2, <3>3
    <2> QED
        BY <1>5a, <2>3, <2>4
<1>10. \A i \in 1..(n + 1) : x3'[i].action = x4'[i].action
    <2>1. \A i \in 1..n : x3[i].action = x4[i].action
        BY <1>5 DEF Job!IInv, Job!BooksAgree
    <2> QED
        BY <1>5a, <1>5b, <1>5c, <1>5d, <1>5e, <2>1
<1>11. Job!BooksAgree'
    BY <1>5a, <1>5f, <1>8, <1>9, <1>10 DEF Job!BooksAgree, Job!LastPromotion
<1>12. x2' \in [Actors -> {Job!Idle} \cup [step : {"checked"}, action : {"promote", "cancel"},
                                               priority : Job!Priorities, before : Job!Jobs]]
    BY <1>3 DEF Job!IInv
<1> QED
    BY <1>5, <1>6, <1>11, <1>12 DEF Job!IInv

LEMMA JobNext == Job!IInv /\ [Job!Next]_(Job!vars) => Job!IInv'
<1> SUFFICES ASSUME Job!IInv, [Job!Next]_(Job!vars) PROVE Job!IInv'
    OBVIOUS
<1> USE DEF Job!Queue
<1>1. x1 \in Job!Jobs
    BY DEF Job!IInv, Job!TypeOK, Job!Jobs
<1>2. ASSUME NEW status \in {"running", "completed", "failed"}, Job!Work(status) PROVE Job!IInv'
    <2>1. x1' \in Job!Jobs /\ x1'.priority = x1.priority /\ UNCHANGED <<x2, x3, x4>>
        BY <1>1, <1>2 DEF Job!Work, Job!Jobs, Job!Ended
    <2>2. Job!TypeOK'
        BY <2>1 DEF Job!IInv, Job!TypeOK, Job!Jobs
    <2>3. Job!BooksAgree'
        BY <2>1 DEF Job!IInv, Job!BooksAgree, Job!LastPromotion
    <2> QED
        BY <2>1, <2>2, <2>3 DEF Job!IInv
<1>3. ASSUME NEW o \in Actors, NEW action \in {"promote", "cancel"}, NEW p \in Job!Priorities, Job!Ask(o, action, p)
      PROVE  Job!IInv'
    <2> DEFINE new == [step |-> "checked", action |-> action, priority |-> p, before |-> x1]
    <2>1. /\ x2' = [x2 EXCEPT ![o] = new] /\ UNCHANGED <<x1, x3, x4>>
          /\ new.before.status \notin Job!Ended
        BY <1>3 DEF Job!Ask
    <2>2. new \in [step : {"checked"}, action : {"promote", "cancel"}, priority : Job!Priorities, before : Job!Jobs]
        BY <1>1
    <2> HIDE DEF new
    <2> QED
        BY <1>1, <2>1, <2>2, JobMoves
<1>4. ASSUME NEW o \in Actors, x2[o].step = "checked"
      PROVE  x2[o] \in [step : {"checked"}, action : {"promote", "cancel"}, priority : Job!Priorities, before : Job!Jobs]
    BY <1>4 DEF Job!IInv, Job!Idle
<1>5. ASSUME NEW o \in Actors, Job!Promote(o) PROVE Job!IInv'
    <2>1. x1' \in Job!Jobs /\ x1'.priority = x2[o].priority
        BY <1>1, <1>4, <1>5 DEF Job!Promote, Job!Jobs
    <2> QED
        BY <1>5, <2>1, JobRecords DEF Job!Promote
<1>6. ASSUME NEW o \in Actors, Job!Cancel(o) PROVE Job!IInv'
    <2>1. x1' \in Job!Jobs /\ x1'.priority = x1.priority
        BY <1>1, <1>6 DEF Job!Cancel, Job!Jobs, Job!Ended
    <2> QED
        BY <1>6, <2>1, JobRecords DEF Job!Cancel, Job!QueueOfCancel
<1>7. ASSUME NEW o \in Actors, Job!Abort(o) PROVE Job!IInv'
    BY <1>1, <1>7, JobMoves DEF Job!Abort
<1>8. CASE UNCHANGED Job!vars
    <2>1. UNCHANGED <<x1, x2, x3, x4>>
        BY <1>8 DEF Job!vars
    <2>2. Job!TypeOK' /\ Job!BooksAgree'
        BY <2>1 DEF Job!IInv, Job!TypeOK, Job!BooksAgree, Job!LastPromotion
    <2> QED
        BY <2>1, <2>2 DEF Job!IInv
<1> QED
    BY <1>1, <1>2, <1>3, <1>5, <1>6, <1>7, <1>8 DEF Job!Next, Job!Jobs
=============================================================================
