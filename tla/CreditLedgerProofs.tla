------------------------- MODULE CreditLedgerProofs -------------------------
(***************************************************************************)
(* Proofs about CreditLedger, for any users, handlers, prices, grants and  *)
(* period.                                                                 *)
(*                                                                         *)
(* LedgerExplainsBalance holds because a handler keeps the row of the      *)
(* account from its upsert to its end: the rows it has written carry on    *)
(* from a committed balance that nobody else changes (AccountInv).         *)
(* NoOverdraft needs more: that the check of the balance at the beginning  *)
(* of a charge still covers the events that are left, which is so only if  *)
(* prices do not change in between (FixedPrices).                          *)
(*                                                                         *)
(* What the replay of the ledger computes plays no part in either: the     *)
(* buckets only restrict what handlers do.  BucketsCoverBalance is about   *)
(* the replay itself.  The replay is a fold over the rows in the order of  *)
(* their times, and each step of it a fold over buckets; what they compute *)
(* is shown with Induction, from how many points each turn takes or adds,  *)
(* which does not depend on the order.                                     *)
(*                                                                         *)
(* GrantExpiresOnce is about the replay and about what handlers do with    *)
(* it: how much the bucket of a grant can still hold after its expiries,   *)
(* whichever order they are replayed in, and that no other handler can     *)
(* expire it between a replay and the commit (GrantInv).                   *)
(*                                                                         *)
(* NoOverdraft at any prices, BucketsMatchBalance and                      *)
(* ExpiryTakesOnlyUnspentPoints hold of transactions of which no two are   *)
(* open on one account at a time (Serially): read in the order of their    *)
(* times, the rows never take what is not there (SerialInv).               *)
(***************************************************************************)
EXTENDS CreditLedger, Induction, SequenceTheorems, TLAPS

(***************************************************************************)
(* A chain of balances goes on with a row that records the balance it      *)
(* leads to.                                                               *)
(***************************************************************************)
LEMMA ChainAppend ==
    ASSUME NEW start, NEW rs, NEW e, IsSeq(rs), IsChain(start, rs),
           e.after = EndOf(start, rs) + e.delta
    PROVE  /\ IsChain(start, Append(rs, e))
           /\ EndOf(start, Append(rs, e)) = e.after
<1>1. Len(rs) \in Nat /\ DOMAIN rs = 1..Len(rs) /\ (rs = <<>> <=> Len(rs) = 0)
    BY LenProperties, EmptySeq DEF IsSeq
<1>2. /\ Append(rs, e) # <<>>
      /\ Len(Append(rs, e)) = Len(rs) + 1
      /\ Append(rs, e)[Len(rs) + 1] = e
      /\ \A i \in 1..Len(rs) : Append(rs, e)[i] = rs[i]
      /\ DOMAIN Append(rs, e) = 1..(Len(rs) + 1)
  <2>1. Append(rs, e) # <<>>
    BY AppendIsSeq
  <2>2. Len(Append(rs, e)) = Len(rs) + 1
    BY AppendIsSeq
  <2>3. Append(rs, e)[Len(rs) + 1] = e
    BY AppendIsSeq
  <2>4. \A i \in 1..Len(rs) : Append(rs, e)[i] = rs[i]
    BY AppendIsSeq
  <2>5. DOMAIN Append(rs, e) = 1..(Len(rs) + 1)
    BY AppendIsSeq
  <2> QED
    BY <2>1, <2>2, <2>3, <2>4, <2>5
<1>3. ASSUME NEW i \in DOMAIN Append(rs, e)
      PROVE  Append(rs, e)[i].after =
                (IF i = 1 THEN start ELSE Append(rs, e)[i - 1].after)
                    + Append(rs, e)[i].delta
  <2>1. CASE i \in 1..Len(rs)
    BY <1>1, <1>2, <2>1 DEF IsChain
  <2>2. CASE i = Len(rs) + 1
    <3>1. CASE Len(rs) = 0
      BY <1>1, <1>2, <2>2, <3>1 DEF EndOf
    <3>2. CASE Len(rs) # 0
      <4>1. i # 1 /\ i - 1 = Len(rs) /\ Len(rs) \in 1..Len(rs)
        BY <1>1, <2>2, <3>2
      <4>2. Append(rs, e)[i - 1] = rs[Len(rs)] /\ Append(rs, e)[i] = e
        BY <1>2, <2>2, <4>1
      <4>3. EndOf(start, rs) = rs[Len(rs)].after
        BY <1>1, <3>2 DEF EndOf
      <4> QED
        BY <4>1, <4>2, <4>3
    <3> QED
      BY <3>1, <3>2
  <2> QED
    BY <1>1, <1>2, <2>1, <2>2
<1> QED
    BY <1>2, <1>3 DEF IsChain, EndOf

(***************************************************************************)
(* A chain from where another ends makes one chain with it: what a commit  *)
(* appends.                                                                *)
(***************************************************************************)
LEMMA ChainConcat ==
    ASSUME NEW start, NEW rs, NEW ss, IsSeq(rs), IsSeq(ss),
           IsChain(start, rs), IsChain(EndOf(start, rs), ss)
    PROVE  /\ IsChain(start, rs \o ss)
           /\ EndOf(start, rs \o ss) = EndOf(EndOf(start, rs), ss)
<1> DEFINE all == rs \o ss
<1>1. /\ Len(rs) \in Nat /\ DOMAIN rs = 1..Len(rs) /\ (rs = <<>> <=> Len(rs) = 0)
      /\ Len(ss) \in Nat /\ DOMAIN ss = 1..Len(ss) /\ (ss = <<>> <=> Len(ss) = 0)
    BY LenProperties, EmptySeq DEF IsSeq
<1>2. /\ IsSeq(all)
      /\ Len(all) = Len(rs) + Len(ss)
      /\ DOMAIN all = 1..(Len(rs) + Len(ss))
      /\ \A i \in 1..Len(rs) : all[i] = rs[i]
      /\ \A i \in 1..Len(ss) : all[Len(rs) + i] = ss[i]
    BY ConcatIsSeq
<1>3. all = <<>> <=> Len(all) = 0
    BY <1>2, LenProperties, EmptySeq DEF IsSeq
<1>4. ASSUME NEW i \in DOMAIN all
      PROVE  all[i].after = (IF i = 1 THEN start ELSE all[i - 1].after) + all[i].delta
  <2>1. CASE i \in 1..Len(rs)
    BY <1>1, <1>2, <2>1 DEF IsChain
  <2>2. CASE i \in (Len(rs) + 1)..(Len(rs) + Len(ss))
    <3> DEFINE j == i - Len(rs)
    <3>1. /\ j \in 1..Len(ss)
          /\ all[i] = ss[j]
          /\ ss[j].after = (IF j = 1 THEN EndOf(start, rs) ELSE ss[j - 1].after) + ss[j].delta
      <4>1. j \in 1..Len(ss) /\ i = Len(rs) + j
        BY <1>1, <2>2
      <4> QED
        BY <4>1, <1>1, <1>2 DEF IsChain
    <3>2. (IF i = 1 THEN start ELSE all[i - 1].after)
             = (IF j = 1 THEN EndOf(start, rs) ELSE ss[j - 1].after)
      <4>1. CASE j = 1 /\ Len(rs) = 0
        BY <1>1, <2>2, <4>1 DEF EndOf
      <4>2. CASE j = 1 /\ Len(rs) # 0
        BY <1>1, <1>2, <2>2, <4>2 DEF EndOf
      <4>3. CASE j # 1
        <5>1. j - 1 \in 1..Len(ss) /\ i - 1 = Len(rs) + (j - 1) /\ i # 1
          BY <1>1, <2>2, <3>1, <4>3
        <5> QED
          BY <1>2, <4>3, <5>1
      <4> QED
        BY <4>1, <4>2, <4>3
    <3> QED
      BY <3>1, <3>2
  <2> QED
    BY <1>1, <1>2, <2>1, <2>2
<1>5. EndOf(start, all) = EndOf(EndOf(start, rs), ss)
  <2>1. CASE Len(ss) = 0
    BY <1>1, <1>2, <1>3, <2>1 DEF EndOf
  <2>2. CASE Len(ss) # 0
    BY <1>1, <1>2, <1>3, <2>2 DEF EndOf
  <2> QED
    BY <2>1, <2>2
<1> QED
    BY <1>4, <1>5 DEF IsChain

-----------------------------------------------------------------------------
(***************************************************************************)
(* The inductive invariant behind LedgerExplainsBalance.                   *)
(***************************************************************************)
Typed ==
    /\ balance \in [Users -> Int]
    /\ lock \in [Users -> Handlers \cup {NoHandler}]
    /\ step \in [Handlers -> Steps]
    /\ total \in [Handlers -> Int]
    /\ charged \in [Handlers -> Nat]
    /\ DOMAIN task = Handlers /\ DOMAIN rows = Handlers /\ DOMAIN ledger = Users
    /\ \A u \in Users : IsSeq(ledger[u])
    /\ \A h \in Handlers : IsSeq(rows[h])

\* What a handler was asked to do names a known user and a legal amount.
Asked(h) ==
    step[h] # "idle" =>
        /\ User(h) \in Users
        /\ task[h].type = "charge" => task[h].quotes \in Charges
        /\ task[h].type \in {"grant", "refund"} => task[h].points \in Nat \ {0}
        /\ task[h].type = "adjust" => task[h].points \in Int
        /\ step[h] = "charging" => task[h].type = "charge"

\* A handler past the upsert of the account holds its row.
Holds(h) == step[h] \notin {"idle", "begun"} => lock[User(h)] = h

\* A handler writes no row before it has looked for lapsed points.
NothingWrittenYet(h) ==
    step[h] \in {"idle", "begun", "ensured", "scanned"} => rows[h] = <<>>

(***************************************************************************)
(* The rows a handler has written carry on from the committed balance, and *)
(* its running total is where they end.                                    *)
(***************************************************************************)
CarriesOn(h) ==
    /\ IsChain(balance[User(h)], rows[h])
    /\ rows[h] # <<>> \/ step[h] \in {"expiring", "charging"} =>
          total[h] = EndOf(balance[User(h)], rows[h])

(***************************************************************************)
(* The inductive invariant: types, and, for each handler, what it was      *)
(* asked, the row it holds and the chain its rows carry on.                *)
(***************************************************************************)
AccountInv ==
    /\ Typed
    /\ \A h \in Handlers : Asked(h) /\ Holds(h) /\ NothingWrittenYet(h) /\ CarriesOn(h)
    /\ LedgerExplainsBalance

\* No rows are a chain that ends where it starts.
LEMMA EmptyRows ==
    /\ IsSeq(<<>>)
    /\ \A start : IsChain(start, <<>>) /\ EndOf(start, <<>>) = start
<1>1. IsSeq(<<>>)
    BY EmptySeq DEF IsSeq
<1>2. \A start : IsChain(start, <<>>) /\ EndOf(start, <<>>) = start
    BY DEF IsChain, EndOf
<1> QED
    BY <1>1, <1>2

\* The invariant holds of accounts without points or rows.
LEMMA InitAccount == Init => AccountInv
<1> SUFFICES ASSUME Init PROVE AccountInv
    OBVIOUS
<1>1. Typed
    BY EmptyRows DEF Init, Typed, Steps
<1>2. \A h \in Handlers : Asked(h) /\ Holds(h) /\ NothingWrittenYet(h)
    BY DEF Init, Asked, Holds, NothingWrittenYet
<1>3. \A h \in Handlers : CarriesOn(h)
    BY EmptyRows DEF Init, CarriesOn
<1>4. LedgerExplainsBalance
    BY EmptyRows DEF Init, LedgerExplainsBalance
<1> QED
    BY <1>1, <1>2, <1>3, <1>4 DEF AccountInv

(***************************************************************************)
(* A step inside a transaction, from the upsert on: it changes no other    *)
(* handler's variables and nothing that is committed, and it has the row.  *)
(***************************************************************************)
InTransaction(h, s) ==
    /\ step[h] # "idle"
    /\ LockAccount(h)
    /\ step' = [step EXCEPT ![h] = s]
    /\ s = "charging" => task[h].type = "charge"
    /\ \A g \in Handlers \ {h} : rows'[g] = rows[g] /\ total'[g] = total[g]
    /\ UNCHANGED <<balance, ledger, task>>

(***************************************************************************)
(* A step inside a transaction keeps the invariant if the handler's own    *)
(* rows still carry on from the balance.                                   *)
(***************************************************************************)
LEMMA InTransactionKeepsAccount ==
    ASSUME AccountInv, NEW h \in Handlers, NEW s \in Steps \ {"idle", "begun"},
           InTransaction(h, s),
           total' \in [Handlers -> Int], charged' \in [Handlers -> Nat],
           DOMAIN rows' = Handlers, IsSeq(rows'[h]),
           NothingWrittenYet(h)', CarriesOn(h)'
    PROVE  AccountInv'
<1>1. Typed'
    BY DEF AccountInv, Typed, InTransaction, LockAccount, Asked
<1>2. ASSUME NEW g \in Handlers
      PROVE  (Asked(g) /\ Holds(g) /\ NothingWrittenYet(g) /\ CarriesOn(g))'
  <2>1. CASE g = h
    <3>1. Asked(h)'
      BY DEF AccountInv, Typed, Asked, InTransaction, User
    <3>2. Holds(h)'
      BY DEF AccountInv, Typed, Asked, Holds, InTransaction, LockAccount, User
    <3> QED
      BY <2>1, <3>1, <3>2
  <2>2. CASE g # h
    <3>1. step'[g] = step[g] /\ rows'[g] = rows[g] /\ total'[g] = total[g] /\ User(g)' = User(g)
      BY <2>2 DEF AccountInv, Typed, InTransaction, User
    <3>2. Asked(g)' /\ NothingWrittenYet(g)' /\ CarriesOn(g)'
      BY <3>1 DEF AccountInv, Asked, NothingWrittenYet, CarriesOn, InTransaction
    <3>3. Holds(g)'
      <4>1. SUFFICES ASSUME step[g] \notin {"idle", "begun"} PROVE lock'[User(g)] = g
        BY <3>1 DEF Holds
      <4>2. lock[User(g)] = g /\ User(g) \in Users
        BY <4>1 DEF AccountInv, Holds, Asked
      <4>3. User(g) # User(h)
        BY <2>2, <4>2, ConstantsAssumption DEF InTransaction, LockAccount
      <4> QED
        BY <4>2, <4>3 DEF AccountInv, Typed, InTransaction, LockAccount
    <3> QED
      BY <3>2, <3>3
  <2> QED
    BY <2>1, <2>2
<1>3. LedgerExplainsBalance'
    BY DEF AccountInv, LedgerExplainsBalance, InTransaction
<1> QED
    BY <1>1, <1>2, <1>3 DEF AccountInv

\* A handler past the upsert that leaves the locks alone has the row.
LEMMA KeepsRow ==
    ASSUME AccountInv, NEW h \in Handlers, step[h] \notin {"idle", "begun"}, lock' = lock
    PROVE  LockAccount(h)
BY DEF AccountInv, Typed, Holds, Asked, LockAccount

\* What a handler reads as the balance is where its rows end.
LEMMA ReadBalanceIsEnd ==
    ASSUME AccountInv, NEW h \in Handlers, step[h] # "idle"
    PROVE  /\ ReadBalance(h) = EndOf(balance[User(h)], rows[h])
           /\ ReadBalance(h) \in Int
BY DEF AccountInv, Typed, Asked, CarriesOn, ReadBalance, EndOf

(***************************************************************************)
(* A row written with the balance it leads to carries on the chain.        *)
(***************************************************************************)
LEMMA WriteCarriesOn ==
    ASSUME AccountInv, NEW h \in Handlers, step[h] # "idle",
           NEW kind, NEW delta, NEW ref, NEW lapse, NEW alloc,
           Write(h, kind, delta, ref, lapse, alloc),
           total'[h] = EndOf(balance[User(h)], rows[h]) + delta,
           UNCHANGED <<balance, task>>
    PROVE  /\ DOMAIN rows' = Handlers
           /\ IsSeq(rows'[h])
           /\ rows'[h] # <<>>
           /\ \A g \in Handlers \ {h} : rows'[g] = rows[g]
           /\ CarriesOn(h)'
           /\ \E e : rows'[h] = Append(rows[h], e) /\ e.after = total'[h]
<1>1. PICK tie \in Ties :
          rows' = [rows EXCEPT ![h] =
                       Append(@, Row(h, kind, delta, ref, tie, lapse, alloc))]
    BY DEF Write
<1> DEFINE e == Row(h, kind, delta, ref, tie, lapse, alloc)
<1>2. e.after = total'[h] /\ e.delta = delta
    BY DEF Row
<1>3. DOMAIN rows = Handlers /\ IsSeq(rows[h]) /\ IsChain(balance[User(h)], rows[h])
    BY DEF AccountInv, Typed, CarriesOn
<1>4. rows'[h] = Append(rows[h], e)
    BY <1>1, <1>3, Zenon
<1> HIDE DEF e
<1>5. IsSeq(rows'[h]) /\ rows'[h] # <<>>
  <2>1. IsSeq(Append(rows[h], e))
    BY <1>3, AppendIsSeq
  <2>2. Append(rows[h], e) # <<>>
    BY <1>3, AppendIsSeq
  <2> QED
    BY <1>4, <2>1, <2>2
<1>6. /\ IsChain(balance[User(h)], rows'[h])
      /\ EndOf(balance[User(h)], rows'[h]) = total'[h]
    BY <1>2, <1>3, <1>4, ChainAppend
<1>7. CarriesOn(h)'
    BY <1>6 DEF CarriesOn, User
<1> QED
    BY <1>1, <1>2, <1>3, <1>4, <1>5, <1>7

\* The upsert of the account keeps the invariant of the account.
LEMMA EnsureAccountKeepsAccount ==
    ASSUME AccountInv, NEW h \in Handlers, EnsureAccount(h)
    PROVE  AccountInv'
<1>1. InTransaction(h, "ensured")
    BY DEF EnsureAccount, InTransaction, Goto
<1>2. NothingWrittenYet(h)' /\ CarriesOn(h)'
    BY EmptyRows DEF AccountInv, Typed, EnsureAccount, Goto, NothingWrittenYet, CarriesOn, User
<1> QED
    BY <1>1, <1>2, InTransactionKeepsAccount DEF AccountInv, Typed, EnsureAccount, Steps

\* Looking for lapsed points keeps the invariant of the account.
LEMMA ScanExpiredKeepsAccount ==
    ASSUME AccountInv, NEW h \in Handlers, ScanExpired(h)
    PROVE  AccountInv'
<1>1. InTransaction(h, "scanned")
    BY KeepsRow DEF ScanExpired, InTransaction, Goto
<1>2. NothingWrittenYet(h)' /\ CarriesOn(h)'
    BY EmptyRows DEF AccountInv, Typed, ScanExpired, Goto, NothingWrittenYet, CarriesOn, User
<1> QED
    BY <1>1, <1>2, InTransactionKeepsAccount DEF AccountInv, Typed, ScanExpired, Steps

\* Finding none keeps the invariant of the account.
LEMMA NothingExpiredKeepsAccount ==
    ASSUME AccountInv, NEW h \in Handlers, NothingExpired(h)
    PROVE  AccountInv'
<1>1. InTransaction(h, "ready")
    BY KeepsRow DEF NothingExpired, InTransaction, Goto
<1>2. NothingWrittenYet(h)' /\ CarriesOn(h)'
    BY EmptyRows DEF AccountInv, Typed, NothingExpired, Goto, NothingWrittenYet, CarriesOn, User
<1> QED
    BY <1>1, <1>2, InTransactionKeepsAccount DEF AccountInv, Typed, NothingExpired, Steps

\* Locking the row before an expiry keeps the invariant of the account.
LEMMA LockForExpiryKeepsAccount ==
    ASSUME AccountInv, NEW h \in Handlers, LockForExpiry(h)
    PROVE  AccountInv'
<1>1. InTransaction(h, "expiring")
    BY DEF AccountInv, Typed, LockForExpiry, InTransaction, LockAccount, Goto
<1>2. total' \in [Handlers -> Int] /\ total'[h] = balance[User(h)]
    BY DEF AccountInv, Typed, Asked, LockForExpiry
<1>3. NothingWrittenYet(h)' /\ CarriesOn(h)'
    BY <1>2, EmptyRows
    DEF AccountInv, Typed, LockForExpiry, Goto, NothingWrittenYet, CarriesOn, User
<1> QED
    BY <1>1, <1>2, <1>3, InTransactionKeepsAccount DEF AccountInv, Typed, LockForExpiry, Steps

\* Expiring one bucket keeps the invariant of the account.
LEMMA ExpireBucketKeepsAccount ==
    ASSUME AccountInv, NEW h \in Handlers, ExpireBucket(h)
    PROVE  AccountInv'
<1>1. PICK points \in 1..total[h], tie \in Ties :
          /\ total' = [total EXCEPT ![h] = @ - points]
          /\ rows' = [rows EXCEPT ![h] =
                Append(@, Row(h, "subscription_expire", -points, Head(due[h]).id, tie,
                              Never, <<>>))]
    BY DEF ExpireBucket
<1>2. /\ total[h] \in Int /\ total' \in [Handlers -> Int]
      /\ total'[h] = total[h] + (-points)
      /\ \A g \in Handlers \ {h} : total'[g] = total[g]
    BY <1>1 DEF AccountInv, Typed
<1>3. total[h] = EndOf(balance[User(h)], rows[h])
    BY DEF AccountInv, CarriesOn, ExpireBucket
<1>4. Write(h, "subscription_expire", -points, Head(due[h]).id, Never, <<>>)
    BY <1>1 DEF Write
<1>5. step[h] = "expiring" /\ UNCHANGED <<balance, ledger, lock, step, task, charged>>
    BY DEF ExpireBucket
<1>6. /\ DOMAIN rows' = Handlers /\ IsSeq(rows'[h]) /\ CarriesOn(h)'
      /\ \A g \in Handlers \ {h} : rows'[g] = rows[g]
    BY <1>2, <1>3, <1>4, <1>5, WriteCarriesOn
<1>7. InTransaction(h, "expiring")
    BY <1>2, <1>5, <1>6, KeepsRow DEF AccountInv, Typed, InTransaction
<1>8. NothingWrittenYet(h)'
    BY <1>5 DEF NothingWrittenYet
<1> QED
    BY <1>2, <1>5, <1>6, <1>7, <1>8, InTransactionKeepsAccount DEF AccountInv, Typed, Steps

\* Ending the expiry keeps the invariant of the account.
LEMMA ExpiryDoneKeepsAccount ==
    ASSUME AccountInv, NEW h \in Handlers, ExpiryDone(h)
    PROVE  AccountInv'
<1>1. InTransaction(h, "ready")
    BY KeepsRow DEF ExpiryDone, InTransaction, Goto
<1>2. NothingWrittenYet(h)' /\ CarriesOn(h)'
    BY DEF AccountInv, Typed, ExpiryDone, Goto, NothingWrittenYet, CarriesOn, User
<1> QED
    BY <1>1, <1>2, InTransactionKeepsAccount DEF AccountInv, Typed, ExpiryDone, Steps

\* Showing the account keeps the invariant of the account.
LEMMA ViewAccountKeepsAccount ==
    ASSUME AccountInv, NEW h \in Handlers, ViewAccount(h)
    PROVE  AccountInv'
<1>1. /\ total' \in [Handlers -> Int]
      /\ total'[h] = EndOf(balance[User(h)], rows[h])
      /\ \A g \in Handlers \ {h} : total'[g] = total[g]
    BY ReadBalanceIsEnd DEF AccountInv, Typed, ViewAccount
<1>2. InTransaction(h, "written")
    BY <1>1, KeepsRow DEF ViewAccount, InTransaction, Goto
<1>3. NothingWrittenYet(h)' /\ CarriesOn(h)'
    BY <1>1 DEF AccountInv, Typed, ViewAccount, Goto, NothingWrittenYet, CarriesOn, User
<1> QED
    BY <1>1, <1>2, <1>3, InTransactionKeepsAccount DEF AccountInv, Typed, ViewAccount, Steps

(***************************************************************************)
(* Grants, adjustments and refunds: one row for the difference asked for.  *)
(***************************************************************************)
LEMMA OneRowKeepsAccount ==
    ASSUME AccountInv, NEW h \in Handlers, step[h] = "ready", LockAccount(h),
           NEW delta \in Int, NEW kind, NEW ref, NEW lapse, NEW alloc,
           total' = [total EXCEPT ![h] = ReadBalance(h) + delta],
           Write(h, kind, delta, ref, lapse, alloc),
           Goto(h, "written"),
           UNCHANGED <<balance, ledger, task, charged>>
    PROVE  AccountInv'
<1>1. /\ total' \in [Handlers -> Int]
      /\ total'[h] = EndOf(balance[User(h)], rows[h]) + delta
      /\ \A g \in Handlers \ {h} : total'[g] = total[g]
    BY ReadBalanceIsEnd DEF AccountInv, Typed
<1>2. /\ DOMAIN rows' = Handlers /\ IsSeq(rows'[h]) /\ CarriesOn(h)'
      /\ \A g \in Handlers \ {h} : rows'[g] = rows[g]
    BY <1>1, WriteCarriesOn
<1>3. InTransaction(h, "written")
    BY <1>1, <1>2 DEF InTransaction, Goto
<1>4. NothingWrittenYet(h)'
    BY DEF AccountInv, Typed, NothingWrittenYet, Goto
<1> QED
    BY <1>1, <1>2, <1>3, <1>4, InTransactionKeepsAccount DEF AccountInv, Typed, Steps

\* A grant keeps the invariant of the account.
LEMMA GrantPointsKeepsAccount ==
    ASSUME AccountInv, NEW h \in Handlers, GrantPoints(h)
    PROVE  AccountInv'
<1>1. task[h].points \in Int
    BY DEF AccountInv, Asked, GrantPoints
<1> QED
    BY <1>1, OneRowKeepsAccount DEF GrantPoints

\* An adjustment keeps the invariant of the account.
LEMMA AdjustPointsKeepsAccount ==
    ASSUME AccountInv, NEW h \in Handlers, AdjustPoints(h)
    PROVE  AccountInv'
<1>1. task[h].points \in Int
    BY DEF AccountInv, Asked, AdjustPoints
<1> QED
    BY <1>1, OneRowKeepsAccount DEF AdjustPoints

\* A refund keeps the invariant of the account.
LEMMA RefundPointsKeepsAccount ==
    ASSUME AccountInv, NEW h \in Handlers, RefundPoints(h)
    PROVE  AccountInv'
<1>1. task[h].points \in Int
    BY DEF AccountInv, Asked, RefundPoints
<1> QED
    BY <1>1, OneRowKeepsAccount DEF RefundPoints

(***************************************************************************)
(* The check of the balance of a charge keeps the invariant of the         *)
(* account.                                                                *)
(***************************************************************************)
LEMMA CheckFundsKeepsAccount ==
    ASSUME AccountInv, NEW h \in Handlers, CheckFunds(h)
    PROVE  AccountInv'
<1>1. /\ total' \in [Handlers -> Int]
      /\ total'[h] = EndOf(balance[User(h)], rows[h])
      /\ \A g \in Handlers \ {h} : total'[g] = total[g]
    BY ReadBalanceIsEnd DEF AccountInv, Typed, CheckFunds
<1>2. InTransaction(h, "charging")
    BY <1>1 DEF CheckFunds, InTransaction, Goto
<1>3. NothingWrittenYet(h)' /\ CarriesOn(h)'
    BY <1>1 DEF AccountInv, Typed, CheckFunds, Goto, NothingWrittenYet, CarriesOn, User
<1> QED
    BY <1>1, <1>2, <1>3, InTransactionKeepsAccount DEF AccountInv, Typed, CheckFunds, Steps

\* The points of the next event of a charge are well defined.
LEMMA EventPointsType ==
    ASSUME AccountInv, NEW h \in Handlers, step[h] = "charging", EventsLeft(h),
           NEW q \in task[h].quotes
    PROVE  /\ q \in Seq(Nat) /\ charged[h] + 1 \in DOMAIN q
           /\ EventPoints(q, charged[h] + 1) \in Int
           /\ charged[h] = 0 => EventPoints(q, charged[h] + 1) = q[1]
           /\ charged[h] # 0 =>
                 /\ charged[h] \in DOMAIN q
                 /\ EventPoints(q, charged[h] + 1) = q[charged[h] + 1] - q[charged[h]]
<1>1. task[h].quotes \in Charges
    BY DEF AccountInv, Asked
<1>2. charged[h] \in Nat
    BY DEF AccountInv, Typed
<1>3. q \in Seq(Nat) /\ charged[h] < Len(q)
    BY <1>1, ConstantsAssumption DEF EventsLeft, IsQuote
<1>4. charged[h] + 1 \in DOMAIN q /\ (charged[h] # 0 => charged[h] \in DOMAIN q)
    BY <1>2, <1>3
<1>5. q[charged[h] + 1] \in Nat /\ (charged[h] # 0 => q[charged[h]] \in Nat)
    BY <1>3, <1>4, ElementOfSeq
<1> QED
    BY <1>2, <1>3, <1>4, <1>5 DEF EventPoints

\* Charging one event keeps the invariant of the account.
LEMMA ChargeEventKeepsAccount ==
    ASSUME AccountInv, NEW h \in Handlers, ChargeEvent(h)
    PROVE  AccountInv'
<1>1. /\ step[h] = "charging" /\ EventsLeft(h)
      /\ UNCHANGED <<balance, ledger, lock, step, task>>
      /\ charged' \in [Handlers -> Nat]
    BY DEF AccountInv, Typed, ChargeEvent
<1>2. PICK q \in task[h].quotes :
          LET points == EventPoints(q, charged[h] + 1)
              preview == Preview(Visible(h), points)
          IN  /\ total' = [total EXCEPT ![h] = @ - points]
              /\ Write(h, "consume", -points, began[h], Never, preview.taken)
    BY DEF ChargeEvent
<1> DEFINE points == EventPoints(q, charged[h] + 1)
<1>3. points \in Int
    BY <1>1, EventPointsType
<1>4. total' = [total EXCEPT ![h] = @ - points]
    BY <1>2
<1>5. Write(h, "consume", -points, began[h], Never, Preview(Visible(h), points).taken)
    BY <1>2
<1> HIDE DEF points
<1>6. total[h] = EndOf(balance[User(h)], rows[h])
    BY <1>1 DEF AccountInv, CarriesOn
<1>7. /\ total' \in [Handlers -> Int]
      /\ total'[h] = EndOf(balance[User(h)], rows[h]) + (-points)
      /\ \A g \in Handlers \ {h} : total'[g] = total[g]
    BY <1>3, <1>4, <1>6 DEF AccountInv, Typed
<1>8. /\ DOMAIN rows' = Handlers /\ IsSeq(rows'[h]) /\ CarriesOn(h)'
      /\ \A g \in Handlers \ {h} : rows'[g] = rows[g]
    BY <1>1, <1>5, <1>7, WriteCarriesOn
<1>9. InTransaction(h, "charging")
    BY <1>1, <1>7, <1>8, KeepsRow DEF AccountInv, Typed, Asked, InTransaction
<1>10. NothingWrittenYet(h)'
    BY <1>1 DEF NothingWrittenYet
<1> QED
    BY <1>1, <1>7, <1>8, <1>9, <1>10, InTransactionKeepsAccount DEF Steps

\* The end of a charge keeps the invariant of the account.
LEMMA ChargeDoneKeepsAccount ==
    ASSUME AccountInv, NEW h \in Handlers, ChargeDone(h)
    PROVE  AccountInv'
<1>1. InTransaction(h, "written")
    BY KeepsRow DEF ChargeDone, InTransaction, Goto
<1>2. NothingWrittenYet(h)' /\ CarriesOn(h)'
    BY DEF AccountInv, Typed, ChargeDone, Goto, NothingWrittenYet, CarriesOn, User
<1> QED
    BY <1>1, <1>2, InTransactionKeepsAccount DEF AccountInv, Typed, ChargeDone, Steps

(***************************************************************************)
(* A transaction ends: only its own account may have changed, and that it  *)
(* holds the row keeps every other handler's view of its account intact.   *)
(***************************************************************************)
LEMMA EndKeepsAccount ==
    ASSUME AccountInv, NEW h \in Handlers, step[h] # "idle", End(h),
           balance' \in [Users -> Int], DOMAIN ledger' = Users,
           \A u \in Users : IsSeq(ledger'[u]),
           LedgerExplainsBalance',
           lock[User(h)] = h \/ balance' = balance,
           \A u \in Users \ {User(h)} : balance'[u] = balance[u]
    PROVE  AccountInv'
<1>1. /\ User(h) \in Users
      /\ lock' = [lock EXCEPT ![User(h)] = IF @ = h THEN NoHandler ELSE @]
      /\ step' = [step EXCEPT ![h] = "idle"]
      /\ task' = [task EXCEPT ![h] = NoTask]
      /\ total' = [total EXCEPT ![h] = 0]
      /\ rows' = [rows EXCEPT ![h] = <<>>]
      /\ charged' = [charged EXCEPT ![h] = 0]
    BY DEF AccountInv, Asked, End, Goto
<1>2. Typed'
    BY <1>1, EmptyRows DEF AccountInv, Typed, Steps
<1>3. ASSUME NEW g \in Handlers
      PROVE  (Asked(g) /\ Holds(g) /\ NothingWrittenYet(g) /\ CarriesOn(g))'
  <2>1. CASE g = h
    BY <1>1, <2>1, EmptyRows
    DEF AccountInv, Typed, Asked, Holds, NothingWrittenYet, CarriesOn
  <2>2. CASE g # h
    <3>1. /\ step'[g] = step[g] /\ rows'[g] = rows[g] /\ total'[g] = total[g]
          /\ task'[g] = task[g]
      BY <1>1, <2>2 DEF AccountInv, Typed
    <3>2. Asked(g)' /\ NothingWrittenYet(g)'
      BY <3>1 DEF AccountInv, Asked, NothingWrittenYet, User
    <3>3. Holds(g)'
      BY <1>1, <2>2, <3>1 DEF AccountInv, Typed, Asked, Holds, User
    <3>4. CarriesOn(g)'
      <4>1. CASE step[g] \in {"idle", "begun"}
        BY <3>1, <4>1, EmptyRows DEF AccountInv, NothingWrittenYet, CarriesOn
      <4>2. CASE step[g] \notin {"idle", "begun"}
        <5>1. lock[User(g)] = g /\ User(g) \in Users
          BY <4>2 DEF AccountInv, Holds, Asked
        <5>2. balance'[User(g)] = balance[User(g)]
          BY <2>2, <5>1
        <5> QED
          BY <3>1, <5>2 DEF AccountInv, CarriesOn, User
      <4> QED
        BY <4>1, <4>2
    <3> QED
      BY <3>2, <3>3, <3>4
  <2> QED
    BY <2>1, <2>2
<1> QED
    BY <1>2, <1>3 DEF AccountInv

\* A commit keeps the invariant of the account.
LEMMA CommitKeepsAccount ==
    ASSUME AccountInv, NEW h \in Handlers, Commit(h)
    PROVE  AccountInv'
<1> DEFINE u == User(h)
<1>1. /\ step[h] = "written" /\ u \in Users /\ lock[u] = h
      /\ IsSeq(ledger[u]) /\ IsSeq(rows[h])
      /\ IsChain(0, ledger[u]) /\ balance[u] = EndOf(0, ledger[u])
      /\ IsChain(balance[u], rows[h])
    BY DEF AccountInv, Typed, Asked, Holds, CarriesOn, LedgerExplainsBalance, Commit
<1>2. /\ balance' = [balance EXCEPT ![u] = IF rows[h] = <<>> THEN @ ELSE total[h]]
      /\ ledger' = [ledger EXCEPT ![u] = @ \o rows[h]]
      /\ End(h)
    BY DEF Commit
<1>3. balance' \in [Users -> Int] /\ DOMAIN ledger' = Users
    BY <1>1, <1>2 DEF AccountInv, Typed
<1>4. balance'[u] = EndOf(balance[u], rows[h])
    BY <1>1, <1>2 DEF AccountInv, Typed, CarriesOn, EndOf
<1>5. ledger'[u] = ledger[u] \o rows[h]
    BY <1>1, <1>2 DEF AccountInv, Typed
<1>6. IsSeq(ledger'[u])
    BY <1>1, <1>5, ConcatIsSeq
<1>7. IsChain(0, ledger'[u]) /\ balance'[u] = EndOf(0, ledger'[u])
    BY <1>1, <1>4, <1>5, ChainConcat
<1>8. \A v \in Users \ {u} : ledger'[v] = ledger[v] /\ balance'[v] = balance[v]
    BY <1>2 DEF AccountInv, Typed
<1>9. LedgerExplainsBalance'
    BY <1>7, <1>8 DEF AccountInv, LedgerExplainsBalance
<1>10. \A v \in Users : IsSeq(ledger'[v])
    BY <1>6, <1>8 DEF AccountInv, Typed
<1> QED
    BY <1>1, <1>2, <1>3, <1>8, <1>9, <1>10, EndKeepsAccount

\* A refusal or a crash keeps the invariant of the account.
LEMMA RollbackKeepsAccount ==
    ASSUME AccountInv, NEW h \in Handlers, step[h] # "idle", End(h), UNCHANGED database
    PROVE  AccountInv'
<1>1. balance' = balance /\ ledger' = ledger
    BY DEF database
<1>2. LedgerExplainsBalance'
    BY <1>1 DEF AccountInv, LedgerExplainsBalance
<1> QED
    BY <1>1, <1>2, EndKeepsAccount DEF AccountInv, Typed

\* The passing of time keeps the invariant of the account.
LEMMA TickKeepsAccount ==
    ASSUME AccountInv, Tick
    PROVE  AccountInv'
<1>1. Typed'
    BY DEF AccountInv, Typed, Tick
<1>2. \A h \in Handlers : (Asked(h) /\ Holds(h) /\ NothingWrittenYet(h) /\ CarriesOn(h))'
    BY DEF AccountInv, Asked, Holds, NothingWrittenYet, CarriesOn, Tick, User
<1>3. LedgerExplainsBalance'
    BY DEF AccountInv, LedgerExplainsBalance, Tick
<1> QED
    BY <1>1, <1>2, <1>3 DEF AccountInv

\* A request that begins keeps the invariant of the account.
LEMMA BeginKeepsAccount ==
    ASSUME AccountInv, NEW h \in Handlers, Begin(h)
    PROVE  AccountInv'
<1>0. PICK u \in Users : \E t \in Requests(u) : task' = [task EXCEPT ![h] = t]
    BY DEF Begin
<1>1. PICK t \in Requests(u) : task' = [task EXCEPT ![h] = t]
    BY <1>0
<1>2. /\ t.user \in Users
      /\ t.type = "charge" => t.quotes \in Charges
      /\ t.type \in {"grant", "refund"} => t.points \in Nat \ {0}
      /\ t.type = "adjust" => t.points \in Int
  <2>1. CASE t \in [type : {"charge"}, user : {u}, quotes : Charges]
    BY <2>1
  <2>2. CASE t \in {[type |-> "grant", user |-> u, kind |-> g.kind, points |-> g.points] :
                        g \in Grants}
    BY <2>2, ConstantsAssumption
  <2>3. CASE t \in [type : {"refund"}, user : {u}, ref : ConsumedRefs(u), points : Refunds]
    BY <2>3, ConstantsAssumption
  <2>4. CASE t \in [type : {"adjust"}, user : {u}, points : Adjustments]
    BY <2>4, ConstantsAssumption
  <2>5. CASE t \in [type : {"view"}, user : {u}]
    BY <2>5
  <2> QED
    BY <1>1, <2>1, <2>2, <2>3, <2>4, <2>5 DEF Requests
<1>3. /\ step[h] = "idle" /\ step' = [step EXCEPT ![h] = "begun"]
      /\ UNCHANGED <<balance, ledger, lock, total, rows, charged>>
    BY DEF Begin, Goto
<1>4. Typed'
    BY <1>1, <1>3 DEF AccountInv, Typed, Steps
<1>5. ASSUME NEW g \in Handlers
      PROVE  (Asked(g) /\ Holds(g) /\ NothingWrittenYet(g) /\ CarriesOn(g))'
  <2>1. CASE g = h
    <3>1. task'[h] = t /\ step'[h] = "begun" /\ rows'[h] = <<>>
      BY <1>1, <1>3 DEF AccountInv, Typed, NothingWrittenYet
    <3> QED
      BY <1>2, <2>1, <3>1, EmptyRows
      DEF Asked, Holds, NothingWrittenYet, CarriesOn, User
  <2>2. CASE g # h
    <3>1. task'[g] = task[g] /\ step'[g] = step[g]
      BY <1>1, <1>3, <2>2 DEF AccountInv, Typed
    <3> QED
      BY <1>3, <3>1 DEF AccountInv, Asked, Holds, NothingWrittenYet, CarriesOn, User
  <2> QED
    BY <2>1, <2>2
<1>6. LedgerExplainsBalance'
    BY <1>3 DEF AccountInv, LedgerExplainsBalance
<1> QED
    BY <1>4, <1>5, <1>6 DEF AccountInv

(***************************************************************************)
(* Every step of a handler, of time, and every stutter keeps the           *)
(* invariant.                                                              *)
(***************************************************************************)
LEMMA NextKeepsAccount == AccountInv /\ [Next]_vars => AccountInv'
<1> SUFFICES ASSUME AccountInv, [Next]_vars PROVE AccountInv'
    OBVIOUS
<1>1. CASE UNCHANGED vars
  <2>1. Typed'
    BY <1>1 DEF AccountInv, Typed, vars
  <2>2. \A h \in Handlers : (Asked(h) /\ Holds(h) /\ NothingWrittenYet(h) /\ CarriesOn(h))'
    BY <1>1 DEF AccountInv, Asked, Holds, NothingWrittenYet, CarriesOn, User, vars
  <2>3. LedgerExplainsBalance'
    BY <1>1 DEF AccountInv, LedgerExplainsBalance, vars
  <2> QED
    BY <2>1, <2>2, <2>3 DEF AccountInv
<1>2. CASE Tick
    BY <1>2, TickKeepsAccount
<1>3. ASSUME NEW h \in Handlers, Begin(h) PROVE AccountInv'
    BY <1>3, BeginKeepsAccount
<1>4. ASSUME NEW h \in Handlers, EnsureAccount(h) PROVE AccountInv'
    BY <1>4, EnsureAccountKeepsAccount
<1>5. ASSUME NEW h \in Handlers, Expire(h) PROVE AccountInv'
    BY <1>5, ScanExpiredKeepsAccount, NothingExpiredKeepsAccount, LockForExpiryKeepsAccount,
       ExpireBucketKeepsAccount, ExpiryDoneKeepsAccount DEF Expire
<1>6. ASSUME NEW h \in Handlers, Operate(h) PROVE AccountInv'
    BY <1>6, ViewAccountKeepsAccount, GrantPointsKeepsAccount, AdjustPointsKeepsAccount,
       RefundPointsKeepsAccount, CheckFundsKeepsAccount, ChargeEventKeepsAccount,
       ChargeDoneKeepsAccount DEF Operate
<1>7. ASSUME NEW h \in Handlers, Commit(h) PROVE AccountInv'
    BY <1>7, CommitKeepsAccount
<1>8. ASSUME NEW h \in Handlers, Refuse(h) PROVE AccountInv'
  <2>1. step[h] # "idle" /\ End(h) /\ UNCHANGED database
    BY <1>8 DEF Refuse
  <2> QED
    BY <2>1, RollbackKeepsAccount
<1>9. ASSUME NEW h \in Handlers, Crash(h) PROVE AccountInv'
  <2>1. step[h] # "idle" /\ End(h) /\ UNCHANGED database
    BY <1>9 DEF Crash
  <2> QED
    BY <2>1, RollbackKeepsAccount
<1> QED
    BY <1>1, <1>2, <1>3, <1>4, <1>5, <1>6, <1>7, <1>8, <1>9 DEF Next, Progress

(***************************************************************************)
(* For any users, handlers, charges, grants and bounds, the account and    *)
(* its ledger always tell the same story: no handler overwrites what       *)
(* another has committed (LedgerExplainsBalance of CreditLedger).          *)
(***************************************************************************)
THEOREM LedgerAlwaysExplainsBalance == Spec => []LedgerExplainsBalance
<1>1. AccountInv => LedgerExplainsBalance
    BY DEF AccountInv
<1> QED
    BY <1>1, InitAccount, NextKeepsAccount, PTL DEF Spec

(***************************************************************************)
(* Two transactions never work on one account at the same time             *)
(* (OneTransactionPerAccount of CreditLedger): the upsert at the beginning *)
(* of each of them (_ensure_credit_account) takes the row of the account,  *)
(* and only the end of the transaction gives it back.                      *)
(***************************************************************************)
THEOREM AccountsAreNotShared == Spec => []OneTransactionPerAccount
<1>1. AccountInv => OneTransactionPerAccount
  <2> SUFFICES ASSUME AccountInv, NEW g \in Handlers, NEW h \in Handlers, g # h,
                      {step[g], step[h]} \cap {"idle", "begun"} = {}, User(g) = User(h)
               PROVE  FALSE
    BY DEF OneTransactionPerAccount
  <2>1. lock[User(g)] = g /\ lock[User(h)] = h
    BY DEF AccountInv, Holds
  <2> QED
    BY <2>1
<1> QED
    BY <1>1, InitAccount, NextKeepsAccount, PTL DEF Spec

-----------------------------------------------------------------------------
(***************************************************************************)
(* NoOverdraft, when prices do not change while a charge runs.             *)
(***************************************************************************)
FixedPrices == \A c \in Charges : \A q, r \in c : q = r

\* What the first n events of a quote have cost.
Spent(q, n) == IF n = 0 THEN 0 ELSE q[n]

(***************************************************************************)
(* The total of a handler is never negative, and while it charges events   *)
(* the total and what the events so far have cost cover the whole charge.  *)
(***************************************************************************)
Covered(h) ==
    /\ total[h] >= 0
    /\ step[h] = "charging" =>
          \A q \in task[h].quotes : total[h] + Spent(q, charged[h]) >= Last(q)

\* No row of a sequence records a balance below zero.
NoRowBelowZero(rs) == \A i \in DOMAIN rs : rs[i].after >= 0

\* The inductive invariant behind NoOverdraft, on top of AccountInv.
Solvent ==
    /\ \A u \in Users : balance[u] >= 0 /\ NoRowBelowZero(ledger[u])
    /\ \A h \in Handlers : NoRowBelowZero(rows[h]) /\ Covered(h)

\* One more row that is not below zero.
LEMMA NoRowBelowZeroAppend ==
    ASSUME NEW rs, NEW e, IsSeq(rs), NoRowBelowZero(rs), e.after >= 0
    PROVE  NoRowBelowZero(Append(rs, e))
<1>1. Len(rs) \in Nat /\ DOMAIN rs = 1..Len(rs)
    BY LenProperties DEF IsSeq
<1>2. DOMAIN Append(rs, e) = 1..(Len(rs) + 1)
    BY AppendIsSeq
<1>3. Append(rs, e)[Len(rs) + 1] = e
    BY AppendIsSeq
<1>4. \A i \in 1..Len(rs) : Append(rs, e)[i] = rs[i]
    BY AppendIsSeq
<1> QED
    BY <1>1, <1>2, <1>3, <1>4 DEF NoRowBelowZero

\* Rows that are not below zero, followed by such rows.
LEMMA NoRowBelowZeroConcat ==
    ASSUME NEW rs, NEW ss, IsSeq(rs), IsSeq(ss), NoRowBelowZero(rs), NoRowBelowZero(ss)
    PROVE  NoRowBelowZero(rs \o ss)
<1>1. /\ Len(rs) \in Nat /\ DOMAIN rs = 1..Len(rs)
      /\ Len(ss) \in Nat /\ DOMAIN ss = 1..Len(ss)
    BY LenProperties DEF IsSeq
<1>2. DOMAIN (rs \o ss) = 1..(Len(rs) + Len(ss))
    BY ConcatIsSeq
<1>3. \A i \in 1..Len(rs) : (rs \o ss)[i] = rs[i]
    BY ConcatIsSeq
<1>4. \A i \in 1..Len(ss) : (rs \o ss)[Len(rs) + i] = ss[i]
    BY ConcatIsSeq
<1>5. \A i \in 1..(Len(rs) + Len(ss)) :
          i \in 1..Len(rs) \/ (i - Len(rs) \in 1..Len(ss) /\ i = Len(rs) + (i - Len(rs)))
    BY <1>1
<1> QED
    BY <1>1, <1>2, <1>3, <1>4, <1>5 DEF NoRowBelowZero

\* Accounts without points are not below zero.
LEMMA InitSolvent == Init => Solvent
BY DEF Init, Solvent, NoRowBelowZero, Covered

\* A step of a transaction that leaves the variables of the others alone.
LEMMA InTransactionKeepsSolvent ==
    ASSUME AccountInv, Solvent, NEW h \in Handlers, NEW s \in Steps,
           InTransaction(h, s),
           \A g \in Handlers \ {h} : charged'[g] = charged[g],
           NoRowBelowZero(rows'[h]), Covered(h)'
    PROVE  Solvent'
<1>1. \A u \in Users : balance'[u] >= 0 /\ NoRowBelowZero(ledger'[u])
    BY DEF Solvent, InTransaction
<1>2. ASSUME NEW g \in Handlers \ {h} PROVE NoRowBelowZero(rows'[g]) /\ Covered(g)'
    BY <1>2 DEF AccountInv, Typed, Solvent, InTransaction, Covered
<1> QED
    BY <1>1, <1>2 DEF Solvent

\* What a handler reads as the balance is not negative.
LEMMA ReadBalanceSolvent ==
    ASSUME AccountInv, Solvent, NEW h \in Handlers, step[h] # "idle"
    PROVE  ReadBalance(h) >= 0
BY DEF AccountInv, Asked, Solvent, Covered, ReadBalance

\* The upsert of the account leaves no balance below zero.
LEMMA EnsureAccountKeepsSolvent ==
    ASSUME AccountInv, Solvent, NEW h \in Handlers, EnsureAccount(h)
    PROVE  Solvent'
<1>1. InTransaction(h, "ensured")
    BY DEF EnsureAccount, InTransaction, Goto
<1>2. NoRowBelowZero(rows'[h]) /\ Covered(h)'
    BY DEF AccountInv, Typed, Solvent, EnsureAccount, Goto, Covered
<1> QED
    BY <1>1, <1>2, InTransactionKeepsSolvent DEF EnsureAccount, Steps

\* Looking for lapsed points leaves no balance below zero.
LEMMA ScanExpiredKeepsSolvent ==
    ASSUME AccountInv, Solvent, NEW h \in Handlers, ScanExpired(h)
    PROVE  Solvent'
<1>1. InTransaction(h, "scanned")
    BY KeepsRow DEF ScanExpired, InTransaction, Goto
<1>2. NoRowBelowZero(rows'[h]) /\ Covered(h)'
    BY DEF AccountInv, Typed, Solvent, ScanExpired, Goto, Covered
<1> QED
    BY <1>1, <1>2, InTransactionKeepsSolvent DEF ScanExpired, Steps

\* Finding none leaves no balance below zero.
LEMMA NothingExpiredKeepsSolvent ==
    ASSUME AccountInv, Solvent, NEW h \in Handlers, NothingExpired(h)
    PROVE  Solvent'
<1>1. InTransaction(h, "ready")
    BY KeepsRow DEF NothingExpired, InTransaction, Goto
<1>2. NoRowBelowZero(rows'[h]) /\ Covered(h)'
    BY DEF AccountInv, Typed, Solvent, NothingExpired, Goto, Covered
<1> QED
    BY <1>1, <1>2, InTransactionKeepsSolvent DEF NothingExpired, Steps

\* Locking the row before an expiry leaves no balance below zero.
LEMMA LockForExpiryKeepsSolvent ==
    ASSUME AccountInv, Solvent, NEW h \in Handlers, LockForExpiry(h)
    PROVE  Solvent'
<1>1. InTransaction(h, "expiring")
    BY DEF AccountInv, Typed, LockForExpiry, InTransaction, LockAccount, Goto
<1>2. NoRowBelowZero(rows'[h]) /\ Covered(h)'
    BY DEF AccountInv, Typed, Asked, Solvent, LockForExpiry, Goto, Covered
<1> QED
    BY <1>1, <1>2, InTransactionKeepsSolvent DEF LockForExpiry, Steps

(***************************************************************************)
(* A written row is solvent when the total it records is.                  *)
(***************************************************************************)
LEMMA WriteSolvent ==
    ASSUME AccountInv, Solvent, NEW h \in Handlers, step[h] # "idle",
           NEW kind, NEW delta, NEW ref, NEW lapse, NEW alloc,
           Write(h, kind, delta, ref, lapse, alloc),
           total'[h] = EndOf(balance[User(h)], rows[h]) + delta,
           total'[h] >= 0,
           UNCHANGED <<balance, task>>
    PROVE  /\ NoRowBelowZero(rows'[h])
           /\ \A g \in Handlers \ {h} : rows'[g] = rows[g]
<1>1. PICK e : rows'[h] = Append(rows[h], e) /\ e.after = total'[h]
    BY WriteCarriesOn
<1>2. IsSeq(rows[h]) /\ NoRowBelowZero(rows[h])
    BY DEF AccountInv, Typed, Solvent
<1>3. NoRowBelowZero(rows'[h])
    BY <1>1, <1>2, NoRowBelowZeroAppend
<1>4. \A g \in Handlers \ {h} : rows'[g] = rows[g]
    BY WriteCarriesOn
<1> QED
    BY <1>3, <1>4

\* Expiring one bucket leaves no balance below zero.
LEMMA ExpireBucketKeepsSolvent ==
    ASSUME AccountInv, Solvent, NEW h \in Handlers, ExpireBucket(h)
    PROVE  Solvent'
<1>1. PICK points \in 1..total[h], tie \in Ties :
          /\ total' = [total EXCEPT ![h] = @ - points]
          /\ rows' = [rows EXCEPT ![h] =
                Append(@, Row(h, "subscription_expire", -points, Head(due[h]).id, tie,
                              Never, <<>>))]
    BY DEF ExpireBucket
<1>2. /\ total'[h] = EndOf(balance[User(h)], rows[h]) + (-points)
      /\ total'[h] >= 0
      /\ \A g \in Handlers \ {h} : total'[g] = total[g]
    BY <1>1 DEF AccountInv, Typed, CarriesOn, ExpireBucket
<1>3. Write(h, "subscription_expire", -points, Head(due[h]).id, Never, <<>>)
    BY <1>1 DEF Write
<1>4. step[h] = "expiring" /\ UNCHANGED <<balance, ledger, lock, step, task, charged>>
    BY DEF ExpireBucket
<1>5. NoRowBelowZero(rows'[h]) /\ \A g \in Handlers \ {h} : rows'[g] = rows[g]
    BY <1>2, <1>3, <1>4, WriteSolvent
<1>6. InTransaction(h, "expiring")
    BY <1>2, <1>4, <1>5, KeepsRow DEF AccountInv, Typed, InTransaction
<1>7. Covered(h)'
    BY <1>2, <1>4 DEF Covered
<1> QED
    BY <1>4, <1>5, <1>6, <1>7, InTransactionKeepsSolvent DEF Steps

\* Ending the expiry leaves no balance below zero.
LEMMA ExpiryDoneKeepsSolvent ==
    ASSUME AccountInv, Solvent, NEW h \in Handlers, ExpiryDone(h)
    PROVE  Solvent'
<1>1. InTransaction(h, "ready")
    BY KeepsRow DEF ExpiryDone, InTransaction, Goto
<1>2. NoRowBelowZero(rows'[h]) /\ Covered(h)'
    BY DEF AccountInv, Typed, Solvent, ExpiryDone, Goto, Covered
<1> QED
    BY <1>1, <1>2, InTransactionKeepsSolvent DEF ExpiryDone, Steps

\* Showing the account leaves no balance below zero.
LEMMA ViewAccountKeepsSolvent ==
    ASSUME AccountInv, Solvent, NEW h \in Handlers, ViewAccount(h)
    PROVE  Solvent'
<1>1. total'[h] >= 0 /\ \A g \in Handlers \ {h} : total'[g] = total[g]
    BY ReadBalanceSolvent DEF AccountInv, Typed, ViewAccount
<1>2. InTransaction(h, "written")
    BY <1>1, KeepsRow DEF ViewAccount, InTransaction, Goto
<1>3. NoRowBelowZero(rows'[h]) /\ Covered(h)'
    BY <1>1 DEF AccountInv, Typed, Solvent, ViewAccount, Goto, Covered
<1> QED
    BY <1>2, <1>3, InTransactionKeepsSolvent DEF ViewAccount, Steps

\* An operation of one row leaves no balance below zero.
LEMMA OneRowKeepsSolvent ==
    ASSUME AccountInv, Solvent, NEW h \in Handlers, step[h] = "ready", LockAccount(h),
           NEW delta \in Int, NEW kind, NEW ref, NEW lapse, NEW alloc,
           ReadBalance(h) + delta >= 0,
           total' = [total EXCEPT ![h] = ReadBalance(h) + delta],
           Write(h, kind, delta, ref, lapse, alloc),
           Goto(h, "written"),
           UNCHANGED <<balance, ledger, task, charged>>
    PROVE  Solvent'
<1>1. /\ total'[h] = EndOf(balance[User(h)], rows[h]) + delta
      /\ total'[h] >= 0
      /\ \A g \in Handlers \ {h} : total'[g] = total[g]
    BY ReadBalanceIsEnd DEF AccountInv, Typed
<1>2. NoRowBelowZero(rows'[h]) /\ \A g \in Handlers \ {h} : rows'[g] = rows[g]
    BY <1>1, WriteSolvent
<1>3. InTransaction(h, "written")
    BY <1>1, <1>2 DEF InTransaction, Goto
<1>4. Covered(h)'
    BY <1>1 DEF AccountInv, Typed, Covered, Goto
<1> QED
    BY <1>2, <1>3, <1>4, InTransactionKeepsSolvent DEF Steps

\* A grant leaves no balance below zero.
LEMMA GrantPointsKeepsSolvent ==
    ASSUME AccountInv, Solvent, NEW h \in Handlers, GrantPoints(h)
    PROVE  Solvent'
<1>1. task[h].points \in Int /\ ReadBalance(h) + task[h].points >= 0
    BY ReadBalanceIsEnd, ReadBalanceSolvent DEF AccountInv, Asked, GrantPoints
<1> QED
    BY <1>1, OneRowKeepsSolvent DEF GrantPoints

\* An adjustment leaves no balance below zero.
LEMMA AdjustPointsKeepsSolvent ==
    ASSUME AccountInv, Solvent, NEW h \in Handlers, AdjustPoints(h)
    PROVE  Solvent'
<1>1. task[h].points \in Int /\ ReadBalance(h) + task[h].points >= 0
    BY DEF AccountInv, Asked, AdjustPoints
<1> QED
    BY <1>1, OneRowKeepsSolvent DEF AdjustPoints

\* A refund leaves no balance below zero.
LEMMA RefundPointsKeepsSolvent ==
    ASSUME AccountInv, Solvent, NEW h \in Handlers, RefundPoints(h)
    PROVE  Solvent'
<1>1. task[h].points \in Int /\ ReadBalance(h) + task[h].points >= 0
    BY ReadBalanceIsEnd, ReadBalanceSolvent DEF AccountInv, Asked, RefundPoints
<1> QED
    BY <1>1, OneRowKeepsSolvent DEF RefundPoints

\* The check of the balance of a charge leaves no balance below zero.
LEMMA CheckFundsKeepsSolvent ==
    ASSUME FixedPrices, AccountInv, Solvent, NEW h \in Handlers, CheckFunds(h)
    PROVE  Solvent'
<1>1. /\ step[h] = "ready" /\ task[h].type = "charge" /\ LockAccount(h)
      /\ total' = [total EXCEPT ![h] = ReadBalance(h)]
      /\ charged' = [charged EXCEPT ![h] = 0]
      /\ step' = [step EXCEPT ![h] = "charging"]
      /\ UNCHANGED <<balance, ledger, task, rows>>
    BY DEF CheckFunds, Goto
<1>2. PICK q \in task[h].quotes : ReadBalance(h) >= Last(q)
    BY DEF CheckFunds
<1>3. \A r \in task[h].quotes : r = q
    BY <1>1 DEF FixedPrices, AccountInv, Asked
<1>4. /\ total'[h] = ReadBalance(h) /\ charged'[h] = 0
      /\ \A g \in Handlers \ {h} : total'[g] = total[g] /\ charged'[g] = charged[g]
    BY <1>1 DEF AccountInv, Typed
<1>5. total'[h] \in Int /\ total'[h] >= 0
    BY <1>1, <1>4, ReadBalanceIsEnd, ReadBalanceSolvent
<1>6. Covered(h)'
    BY <1>1, <1>2, <1>3, <1>4, <1>5 DEF Covered, Spent
<1>7. InTransaction(h, "charging")
    BY <1>1, <1>4 DEF InTransaction
<1>8. NoRowBelowZero(rows'[h])
    BY <1>1 DEF Solvent
<1> QED
    BY <1>4, <1>6, <1>7, <1>8, InTransactionKeepsSolvent DEF Steps

\* A running total of a quote is at most its last.
LEMMA QuoteRuns ==
    ASSUME AccountInv, NEW h \in Handlers, step[h] = "charging", EventsLeft(h),
           NEW q \in task[h].quotes
    PROVE  q[charged[h] + 1] <= Last(q)
<1>1. task[h].quotes \in Charges
    BY DEF AccountInv, Asked
<1>2. IsQuote(q)
    BY <1>1, ConstantsAssumption
<1>3. q \in Seq(Nat) /\ charged[h] + 1 \in DOMAIN q
    BY EventPointsType
<1>4. Len(q) \in DOMAIN q /\ charged[h] + 1 <= Len(q)
    BY <1>3
<1> QED
    BY <1>2, <1>3, <1>4 DEF IsQuote, Last

\* Charging one event leaves no balance below zero.
LEMMA ChargeEventKeepsSolvent ==
    ASSUME FixedPrices, AccountInv, Solvent, NEW h \in Handlers, ChargeEvent(h)
    PROVE  Solvent'
<1>1. /\ step[h] = "charging" /\ EventsLeft(h)
      /\ UNCHANGED <<balance, ledger, lock, step, task>>
      /\ charged' = [charged EXCEPT ![h] = @ + 1]
    BY DEF ChargeEvent
<1>2. PICK q \in task[h].quotes :
          LET points == EventPoints(q, charged[h] + 1)
              preview == Preview(Visible(h), points)
          IN  /\ total' = [total EXCEPT ![h] = @ - points]
              /\ Write(h, "consume", -points, began[h], Never, preview.taken)
    BY DEF ChargeEvent
<1> DEFINE points == EventPoints(q, charged[h] + 1)
<1>3. total' = [total EXCEPT ![h] = @ - points]
    BY <1>2
<1>4. Write(h, "consume", -points, began[h], Never, Preview(Visible(h), points).taken)
    BY <1>2
<1>5. /\ q \in Seq(Nat) /\ charged[h] + 1 \in DOMAIN q /\ points \in Int
      /\ charged[h] = 0 => points = q[1]
      /\ charged[h] # 0 =>
            charged[h] \in DOMAIN q /\ points = q[charged[h] + 1] - q[charged[h]]
    BY <1>1, EventPointsType
<1> HIDE DEF points
<1>6. /\ q[charged[h] + 1] \in Nat /\ (charged[h] # 0 => q[charged[h]] \in Nat)
      /\ Last(q) \in Nat /\ q[charged[h] + 1] <= Last(q)
  <2>1. q[charged[h] + 1] <= Last(q)
    BY <1>1, QuoteRuns
  <2>2. Last(q) \in Nat
    BY <1>5, ElementOfSeq DEF Last
  <2> QED
    BY <1>5, <2>1, <2>2, ElementOfSeq
<1>7. total[h] + Spent(q, charged[h]) >= Last(q)
    BY <1>1 DEF Solvent, Covered
<1>8. points = q[charged[h] + 1] - Spent(q, charged[h])
    BY <1>5, <1>6 DEF Spent
<1>9. /\ total[h] \in Int /\ charged[h] \in Nat
      /\ total'[h] = total[h] + (-points)
      /\ charged'[h] = charged[h] + 1
      /\ \A g \in Handlers \ {h} : total'[g] = total[g] /\ charged'[g] = charged[g]
    BY <1>1, <1>3, <1>5 DEF AccountInv, Typed
<1>10. Spent(q, charged[h]) \in Int
    BY <1>6 DEF Spent
<1>11. total'[h] + q[charged[h] + 1] >= Last(q)
  <2>1. \A t, a, b, l \in Int : t + a >= l => (t + (-(b - a))) + b >= l
    OBVIOUS
  <2>2. q[charged[h] + 1] \in Int /\ Last(q) \in Int
    BY <1>6
  <2>3. (total[h] + (-(q[charged[h] + 1] - Spent(q, charged[h])))) + q[charged[h] + 1] >= Last(q)
    BY <1>7, <1>9, <1>10, <2>1, <2>2
  <2> QED
    BY <1>8, <1>9, <2>3
<1>12. total'[h] \in Int /\ total'[h] >= 0
    BY <1>5, <1>6, <1>9, <1>11
<1>13. Covered(h)'
  <2>1. charged'[h] # 0 /\ Spent(q, charged'[h]) = q[charged[h] + 1]
    BY <1>9 DEF Spent
  <2>2. \A r \in task[h].quotes : r = q
    BY <1>1 DEF FixedPrices, AccountInv, Asked
  <2> QED
    BY <1>1, <1>11, <1>12, <2>1, <2>2 DEF Covered
<1>14. total'[h] = EndOf(balance[User(h)], rows[h]) + (-points)
    BY <1>1, <1>9 DEF AccountInv, CarriesOn
<1>15. NoRowBelowZero(rows'[h]) /\ \A g \in Handlers \ {h} : rows'[g] = rows[g]
    BY <1>1, <1>4, <1>12, <1>14, WriteSolvent
<1>16. InTransaction(h, "charging")
    BY <1>1, <1>9, <1>15, KeepsRow DEF AccountInv, Typed, Asked, InTransaction
<1> QED
    BY <1>9, <1>13, <1>15, <1>16, InTransactionKeepsSolvent DEF Steps

\* The end of a charge leaves no balance below zero.
LEMMA ChargeDoneKeepsSolvent ==
    ASSUME AccountInv, Solvent, NEW h \in Handlers, ChargeDone(h)
    PROVE  Solvent'
<1>1. InTransaction(h, "written")
    BY KeepsRow DEF ChargeDone, InTransaction, Goto
<1>2. NoRowBelowZero(rows'[h]) /\ Covered(h)'
    BY DEF AccountInv, Typed, Solvent, ChargeDone, Goto, Covered
<1> QED
    BY <1>1, <1>2, InTransactionKeepsSolvent DEF ChargeDone, Steps

\* The end of a transaction leaves no balance below zero.
LEMMA EndKeepsSolvent ==
    ASSUME AccountInv, Solvent, NEW h \in Handlers, step[h] # "idle", End(h),
           \A u \in Users : balance'[u] >= 0 /\ NoRowBelowZero(ledger'[u])
    PROVE  Solvent'
<1>1. ASSUME NEW g \in Handlers PROVE NoRowBelowZero(rows'[g]) /\ Covered(g)'
  <2>1. CASE g = h
    BY <2>1 DEF AccountInv, Typed, NoRowBelowZero, Covered, End, Goto
  <2>2. CASE g # h
    BY <2>2 DEF AccountInv, Typed, Solvent, Covered, End, Goto
  <2> QED
    BY <2>1, <2>2
<1> QED
    BY <1>1 DEF Solvent

\* A commit leaves no balance below zero.
LEMMA CommitKeepsSolvent ==
    ASSUME AccountInv, Solvent, NEW h \in Handlers, Commit(h)
    PROVE  Solvent'
<1> DEFINE u == User(h)
<1>1. /\ step[h] = "written" /\ u \in Users /\ total[h] >= 0
      /\ IsSeq(ledger[u]) /\ IsSeq(rows[h])
      /\ NoRowBelowZero(ledger[u]) /\ NoRowBelowZero(rows[h])
    BY DEF AccountInv, Typed, Asked, Solvent, Covered, Commit
<1>2. /\ balance' = [balance EXCEPT ![u] = IF rows[h] = <<>> THEN @ ELSE total[h]]
      /\ ledger' = [ledger EXCEPT ![u] = @ \o rows[h]]
      /\ End(h)
    BY DEF Commit
<1>3. balance'[u] >= 0 /\ \A v \in Users \ {u} : balance'[v] = balance[v]
    BY <1>1, <1>2 DEF AccountInv, Typed, Solvent
<1>4. NoRowBelowZero(ledger[u] \o rows[h])
    BY <1>1, NoRowBelowZeroConcat
<1>5. NoRowBelowZero(ledger'[u]) /\ \A v \in Users \ {u} : ledger'[v] = ledger[v]
    BY <1>1, <1>2, <1>4 DEF AccountInv, Typed
<1>6. \A v \in Users : balance'[v] >= 0 /\ NoRowBelowZero(ledger'[v])
    BY <1>3, <1>5 DEF Solvent
<1> QED
    BY <1>1, <1>2, <1>6, EndKeepsSolvent

\* A refusal or a crash leaves no balance below zero.
LEMMA RollbackKeepsSolvent ==
    ASSUME AccountInv, Solvent, NEW h \in Handlers, step[h] # "idle", End(h),
           UNCHANGED database
    PROVE  Solvent'
BY EndKeepsSolvent DEF Solvent, database

\* At fixed prices every step keeps accounts from going below zero.
LEMMA NextKeepsSolvent ==
    ASSUME FixedPrices
    PROVE  AccountInv /\ Solvent /\ [Next]_vars => Solvent'
<1> SUFFICES ASSUME AccountInv, Solvent, [Next]_vars PROVE Solvent'
    OBVIOUS
<1>1. CASE UNCHANGED vars
    BY <1>1 DEF Solvent, Covered, vars
<1>2. CASE Tick
    BY <1>2 DEF Solvent, Covered, Tick
<1>3. ASSUME NEW h \in Handlers, Begin(h) PROVE Solvent'
  <2>1. UNCHANGED <<balance, ledger, total, rows, charged>>
    BY <1>3 DEF Begin
  <2>2. \A g \in Handlers : step'[g] = "charging" =>
            step[g] = "charging" /\ task'[g] = task[g]
    BY <1>3 DEF Begin, Goto, AccountInv, Typed
  <2> QED
    BY <2>1, <2>2 DEF Solvent, Covered
<1>4. ASSUME NEW h \in Handlers, EnsureAccount(h) PROVE Solvent'
    BY <1>4, EnsureAccountKeepsSolvent
<1>5. ASSUME NEW h \in Handlers, Expire(h) PROVE Solvent'
    BY <1>5, ScanExpiredKeepsSolvent, NothingExpiredKeepsSolvent, LockForExpiryKeepsSolvent,
       ExpireBucketKeepsSolvent, ExpiryDoneKeepsSolvent DEF Expire
<1>6. ASSUME NEW h \in Handlers, Operate(h) PROVE Solvent'
    BY <1>6, ViewAccountKeepsSolvent, GrantPointsKeepsSolvent, AdjustPointsKeepsSolvent,
       RefundPointsKeepsSolvent, CheckFundsKeepsSolvent, ChargeEventKeepsSolvent,
       ChargeDoneKeepsSolvent DEF Operate
<1>7. ASSUME NEW h \in Handlers, Commit(h) PROVE Solvent'
    BY <1>7, CommitKeepsSolvent
<1>8. ASSUME NEW h \in Handlers, Refuse(h) PROVE Solvent'
  <2>1. step[h] # "idle" /\ End(h) /\ UNCHANGED database
    BY <1>8 DEF Refuse
  <2> QED
    BY <2>1, RollbackKeepsSolvent
<1>9. ASSUME NEW h \in Handlers, Crash(h) PROVE Solvent'
  <2>1. step[h] # "idle" /\ End(h) /\ UNCHANGED database
    BY <1>9 DEF Crash
  <2> QED
    BY <2>1, RollbackKeepsSolvent
<1> QED
    BY <1>1, <1>2, <1>3, <1>4, <1>5, <1>6, <1>7, <1>8, <1>9 DEF Next, Progress

(***************************************************************************)
(* As long as prices do not change while a charge runs, no row ever leaves *)
(* an account below zero, whatever the buckets hold (NoOverdraft of        *)
(* CreditLedger): the check of the balance under the row lock is enough.   *)
(***************************************************************************)
THEOREM NoOverdraftAtFixedPrices ==
    ASSUME FixedPrices
    PROVE  Spec => []NoOverdraft
<1>1. Init => AccountInv /\ Solvent
    BY InitAccount, InitSolvent
<1>2. AccountInv /\ Solvent /\ [Next]_vars => (AccountInv /\ Solvent)'
    BY NextKeepsAccount, NextKeepsSolvent
<1>3. AccountInv /\ Solvent => NoOverdraft
    BY DEF Solvent, NoRowBelowZero, NoOverdraft
<1> QED
    BY <1>1, <1>2, <1>3, PTL DEF Spec

-----------------------------------------------------------------------------
(* Buckets and the points in them. *)

Bucket == [id : Nat, kind : Kinds, source : Sources, left : Nat, lapse : Nat, at : Nat]

Lefts(buckets) == [i \in DOMAIN buckets |-> buckets[i].left]

\* The points in each bucket.
LEMMA LeftsAre ==
    ASSUME NEW buckets \in Seq(Bucket)
    PROVE  /\ Len(buckets) \in Nat /\ DOMAIN buckets = 1 .. Len(buckets)
           /\ \A i \in 1 .. Len(buckets) : /\ buckets[i] \in Bucket
                                          /\ Lefts(buckets)[i] = buckets[i].left
                                          /\ Lefts(buckets)[i] \in Int /\ Lefts(buckets)[i] \in Nat
<1> DEFINE n == Len(buckets)
<1>1. n \in Nat /\ DOMAIN buckets = 1 .. n
    OBVIOUS
<1> HIDE DEF n
<1>2. ASSUME NEW i \in 1 .. n
      PROVE  buckets[i] \in Bucket /\ Lefts(buckets)[i] = buckets[i].left
    <2>1. buckets[i] \in Bucket
        BY <1>1
    <2>2. Lefts(buckets)[i] = buckets[i].left
        BY <1>1 DEF Lefts
    <2> QED
        BY <2>1, <2>2
<1>3. \A b \in Bucket : b.left \in Nat /\ b.left \in Int
    BY DEF Bucket
<1> QED
    BY <1>1, <1>2, <1>3 DEF n

\* What a fold that adds up values of the elements of a sequence returns.
LEMMA PointsInIsSigma ==
    ASSUME NEW buckets \in Seq(Bucket)
    PROVE  /\ PointsIn(buckets) = Sigma(1 .. Len(buckets), Lefts(buckets))
           /\ PointsIn(buckets) \in Int
<1> DEFINE n == Len(buckets)
           v == Lefts(buckets)
           IsIter(f) == f = [S \in SUBSET DOMAIN buckets |->
                                IF S = {} THEN 0 ELSE f[S \ {Max(S)}] + buckets[Max(S)].left]
           iter == CHOOSE f : IsIter(f)
<1>1. n \in Nat /\ DOMAIN buckets = 1 .. n /\ \A i \in 1 .. n : v[i] = buckets[i].left /\ v[i] \in Int
    BY LeftsAre
<1>2. PointsIn(buckets) = iter[DOMAIN buckets]
    BY DEF PointsIn, FoldLeft, MapThenFoldSet, Max
<1>3. ASSUME NEW f PROVE IsIter(f) <=> Sums(f, n, v)
    <2>1. \A S \in SUBSET (1 .. n) : S # {} => Max(S) \in 1 .. n
        BY <1>1, MaxOf
    <2> HIDE DEF v, n
    <2>2. \A S \in SUBSET (1 .. n) : S # {} => buckets[Max(S)].left = v[Max(S)]
        BY <1>1, <2>1
    <2>3. [S \in SUBSET (1 .. n) |-> IF S = {} THEN 0 ELSE f[S \ {Max(S)}] + buckets[Max(S)].left]
             = [S \in SUBSET (1 .. n) |-> IF S = {} THEN 0 ELSE f[S \ {Max(S)}] + v[Max(S)]]
        BY <2>2
    <2> QED
        BY <1>1, <2>3 DEF Sums
<1> HIDE DEF IsIter, n, v
<1>4. (\E f : Sums(f, n, v)) => Sums(iter, n, v)
    BY <1>3
<1>5. iter[1 .. n] = Sigma(1 .. n, v) /\ Sigma(1 .. n, v) \in Int
    BY <1>1, <1>4, ChosenSum
<1> QED
    BY <1>1, <1>2, <1>5 DEF n, v

-----------------------------------------------------------------------------
(* The points in buckets with certain identifiers. *)

Helds(G, buckets) == [k \in DOMAIN buckets |-> IF buckets[k].id \in G THEN buckets[k].left ELSE 0]
Held(G, buckets) == Sigma(DOMAIN buckets, Helds(G, buckets))

\* Each bucket holds a number of them.
LEMMA HeldsAre ==
    ASSUME NEW buckets \in Seq(Bucket), NEW G
    PROVE  /\ IsFiniteSet(DOMAIN buckets)
           /\ \A k \in DOMAIN buckets :
                 /\ Helds(G, buckets)[k] = IF buckets[k].id \in G THEN buckets[k].left ELSE 0
                 /\ Helds(G, buckets)[k] \in Nat /\ buckets[k].left \in Nat /\ buckets[k].id \in Nat
<1>1. \A k \in DOMAIN buckets : buckets[k] \in Bucket
    OBVIOUS
<1>2. \A b \in Bucket : b.left \in Nat /\ b.id \in Nat
    BY DEF Bucket
<1>3. IsFiniteSet(DOMAIN buckets)
    <2>1. Len(buckets) \in Nat /\ DOMAIN buckets = 1 .. Len(buckets)
        BY LeftsAre
    <2> QED
        BY <2>1, AllFinite
<1> QED
    BY <1>1, <1>2, <1>3 DEF Helds

\* A bucket holds no more than all do, and all of them hold all points.
LEMMA HeldIs ==
    ASSUME NEW buckets \in Seq(Bucket), NEW G
    PROVE  /\ Held(G, buckets) \in Nat
           /\ \A k \in DOMAIN buckets : buckets[k].id \in G => buckets[k].left <= Held(G, buckets)
           /\ (\A k \in DOMAIN buckets : buckets[k].id \in G => buckets[k].left = 0) => Held(G, buckets) = 0
           /\ Held(Nat, buckets) = PointsIn(buckets)
<1> DEFINE v == Helds(G, buckets)
           D == DOMAIN buckets
<1>1. /\ IsFiniteSet(D)
      /\ \A k \in D : /\ v[k] = IF buckets[k].id \in G THEN buckets[k].left ELSE 0
                      /\ v[k] \in Nat /\ buckets[k].left \in Nat /\ buckets[k].id \in Nat
    BY HeldsAre
<1>2. Sigma(D, v) \in Nat /\ \A k \in D : v[k] <= Sigma(D, v)
    <2> HIDE DEF D, v
    <2> QED
        BY <1>1, SigmaOfNats
<1>3. ASSUME \A k \in D : buckets[k].id \in G => buckets[k].left = 0 PROVE Sigma(D, v) = 0
    <2>1. \A k \in D : v[k] = 0
        BY <1>1, <1>3
    <2> HIDE DEF D, v
    <2> QED
        BY <1>1, <2>1, SigmaOfZeros
<1>4. Held(Nat, buckets) = PointsIn(buckets)
    <2> DEFINE w == Helds(Nat, buckets)
               u == Lefts(buckets)
    <2>1. \A k \in D : u[k] = buckets[k].left /\ u[k] \in Int /\ D = 1 .. Len(buckets)
        BY LeftsAre
    <2>2. \A k \in D : w[k] = u[k]
        BY <1>1, <2>1, HeldsAre
    <2> HIDE DEF w, u, D
    <2>3. Sigma(D, w) = Sigma(D, u)
        BY <1>1, <2>1, <2>2, SigmaOfSame
    <2>4. D = 1 .. Len(buckets)
        BY LeftsAre DEF D
    <2> QED
        BY <2>3, <2>4, PointsInIsSigma DEF Held, w, u, D
<1> QED
    BY <1>1, <1>2, <1>3, <1>4 DEF Held

\* Two lists of buckets one after the other.
LEMMA HeldOfBoth ==
    ASSUME NEW b \in Seq(Bucket), NEW c \in Seq(Bucket), NEW G
    PROVE  Held(G, b \o c) = Held(G, b) + Held(G, c)
<1> DEFINE n == Len(b)
           m == Len(c)
           s == b \o c
<1>1. /\ s \in Seq(Bucket) /\ DOMAIN s = 1 .. n + m /\ n \in Nat /\ m \in Nat
      /\ DOMAIN b = 1 .. n /\ DOMAIN c = 1 .. m
    <2>1. s \in Seq(Bucket) /\ Len(s) = n + m /\ n \in Nat /\ m \in Nat
        BY ConcatProperties
    <2> HIDE DEF s
    <2> QED
        BY <2>1, LeftsAre
<1>2. /\ \A i \in 1 .. n : s[i] = b[i]
      /\ \A i \in 1 .. m : s[n + i] = c[i]
    OBVIOUS
<1> HIDE DEF n, m, s
<1>3. \A i \in 1 .. n : Helds(G, b)[i] \in Int /\ Helds(G, s)[i] = Helds(G, b)[i]
    <2>1. \A i \in 1 .. n : i \in 1 .. n + m
        BY <1>1
    <2>2. /\ \A i \in 1 .. n : /\ Helds(G, b)[i] = IF b[i].id \in G THEN b[i].left ELSE 0
                              /\ Helds(G, b)[i] \in Int
          /\ \A i \in 1 .. n + m : Helds(G, s)[i] = IF s[i].id \in G THEN s[i].left ELSE 0
        BY <1>1, HeldsAre
    <2> QED
        BY <1>2, <2>1, <2>2
<1>4. \A i \in 1 .. m : Helds(G, c)[i] \in Int /\ Helds(G, s)[n + i] = Helds(G, c)[i]
    <2>1. \A i \in 1 .. m : n + i \in 1 .. n + m
        BY <1>1
    <2>2. /\ \A i \in 1 .. m : /\ Helds(G, c)[i] = IF c[i].id \in G THEN c[i].left ELSE 0
                              /\ Helds(G, c)[i] \in Int
          /\ \A i \in 1 .. n + m : Helds(G, s)[i] = IF s[i].id \in G THEN s[i].left ELSE 0
        BY <1>1, HeldsAre
    <2> QED
        BY <1>2, <2>1, <2>2
<1>5. AllInts(Helds(G, b), n) /\ AllInts(Helds(G, c), m) /\ Joined(Helds(G, s), n, Helds(G, b), m, Helds(G, c))
    BY <1>3, <1>4 DEF AllInts, Joined
<1>6. Sigma(1 .. n + m, Helds(G, s)) = Sigma(1 .. n, Helds(G, b)) + Sigma(1 .. m, Helds(G, c))
    BY <1>1, <1>5, SigmaOfBoth
<1> QED
    BY <1>1, <1>6 DEF Held, s

\* One bucket.
LEMMA HeldOfOne ==
    ASSUME NEW b \in Bucket, NEW G
    PROVE  Held(G, <<b>>) = IF b.id \in G THEN b.left ELSE 0
<1> DEFINE s == <<b>>
<1>1. s \in Seq(Bucket) /\ DOMAIN s = {1} /\ s[1] = b
    OBVIOUS
<1> HIDE DEF s
<1>2. IsFiniteSet({1}) /\ \A k \in {1} : Helds(G, s)[k] \in Int
    BY <1>1, HeldsAre
<1>3. Sigma({1}, Helds(G, s)) = Sigma({1} \ {1}, Helds(G, s)) + Helds(G, s)[1] /\ Sigma({}, Helds(G, s)) = 0
    BY <1>2, SigmaTakes
<1>4. {1} \ {1} = {} /\ Helds(G, s)[1] = IF b.id \in G THEN b.left ELSE 0
    BY <1>1, HeldsAre
<1> QED
    BY <1>1, <1>2, <1>3, <1>4 DEF Held, s

\* All points of two lists.
LEMMA PointsOfBoth ==
    ASSUME NEW b \in Seq(Bucket), NEW c \in Seq(Bucket)
    PROVE  b \o c \in Seq(Bucket) /\ PointsIn(b \o c) = PointsIn(b) + PointsIn(c)
<1>1. b \o c \in Seq(Bucket)
    BY ConcatProperties
<1>2. Held(Nat, b \o c) = Held(Nat, b) + Held(Nat, c)
    BY HeldOfBoth
<1>3. PointsIn(b) = Held(Nat, b) /\ PointsIn(c) = Held(Nat, c)
    BY HeldIs
<1>4. PointsIn(b \o c) = Held(Nat, b \o c)
    BY <1>1, HeldIs
<1> QED
    BY <1>1, <1>2, <1>3, <1>4

\* All points of one bucket.
LEMMA PointsOfOne ==
    ASSUME NEW b \in Bucket
    PROVE  <<b>> \in Seq(Bucket) /\ PointsIn(<<b>>) = b.left
<1> DEFINE s == <<b>>
<1>1. s \in Seq(Bucket) /\ b.id \in Nat
    BY DEF Bucket
<1>2. Held(Nat, s) = b.left
    BY <1>1, HeldOfOne
<1> HIDE DEF s
<1>3. PointsIn(s) = b.left
    BY <1>1, <1>2, HeldIs
<1> QED
    BY <1>1, <1>3 DEF s

\* A bucket with other points.
LEMMA PointsOfChanged ==
    ASSUME NEW buckets \in Seq(Bucket), NEW i \in DOMAIN buckets, NEW left \in Nat
    PROVE  LET new == [buckets EXCEPT ![i].left = left]
           IN  /\ new \in Seq(Bucket) /\ DOMAIN new = DOMAIN buckets
               /\ PointsIn(new) = PointsIn(buckets) - buckets[i].left + left
<1> DEFINE new == [buckets EXCEPT ![i].left = left]
           n == Len(buckets)
<1>1. /\ n \in Nat /\ DOMAIN buckets = 1 .. n /\ IsFiniteSet(1 .. n)
      /\ \A j \in 1 .. n : Lefts(buckets)[j] = buckets[j].left /\ Lefts(buckets)[j] \in Nat
    <2>1. n \in Nat /\ DOMAIN buckets = 1 .. n
        OBVIOUS
    <2>2. IsFiniteSet(1 .. n)
        BY <2>1, AllFinite
    <2>3. \A j \in 1 .. n : Lefts(buckets)[j] = buckets[j].left /\ Lefts(buckets)[j] \in Nat
        BY LeftsAre
    <2> QED
        BY <2>1, <2>2, <2>3
<1>2. [buckets[i] EXCEPT !.left = left] \in Bucket
    <2>1. buckets[i] \in Bucket
        OBVIOUS
    <2> QED
        BY <2>1 DEF Bucket
<1>3. new \in [1 .. n -> Bucket]
    <2> HIDE DEF n
    <2>1. buckets \in [1 .. n -> Bucket]
        BY <1>1 DEF n
    <2> QED
        BY <1>2, <2>1
<1>4. new \in Seq(Bucket) /\ Len(new) = n
    <2> HIDE DEF new, n
    <2> QED
        BY <1>1, <1>3
<1>5. new[i].left = left /\ \A j \in (1 .. n) \ {i} : new[j] = buckets[j]
    <2>1. new[i] = [buckets[i] EXCEPT !.left = left]
        OBVIOUS
    <2>2. buckets[i] \in Bucket
        OBVIOUS
    <2>3. new[i].left = left
        BY <2>1, <2>2 DEF Bucket
    <2> QED
        BY <1>1, <2>3
<1> HIDE DEF new
<1>6. \A j \in 1 .. n : Lefts(new)[j] = new[j].left
    BY <1>4, LeftsAre
<1>7. Sigma(1 .. n, Lefts(new)) = Sigma(1 .. n, Lefts(buckets)) - Lefts(buckets)[i] + Lefts(new)[i]
    <2>1. i \in 1 .. n /\ Lefts(new)[i] \in Int
        BY <1>1, <1>5, <1>6
    <2>2. \A j \in (1 .. n) \ {i} : Lefts(new)[j] = Lefts(buckets)[j]
        BY <1>1, <1>5, <1>6
    <2>3. \A j \in 1 .. n : Lefts(buckets)[j] \in Int
        BY <1>1
    <2> DEFINE D == 1 .. n
               v == Lefts(buckets)
               w == Lefts(new)
    <2>4. IsFiniteSet(D) /\ i \in D /\ w[i] \in Int
        BY <1>1, <2>1
    <2>5. \A j \in D : v[j] \in Int
        BY <2>3
    <2>6. \A j \in D \ {i} : w[j] = v[j]
        BY <2>2
    <2> HIDE DEF n, D, v, w
    <2>7. Sigma(D, w) = Sigma(D, v) - v[i] + w[i]
        BY <2>4, <2>5, <2>6, SigmaOfChanged
    <2> QED
        BY <2>7 DEF D, v, w
<1>8. i \in 1 .. n
    BY <1>1
<1>9. PointsIn(new) = PointsIn(buckets) - buckets[i].left + left
    BY <1>1, <1>4, <1>5, <1>6, <1>7, <1>8, PointsInIsSigma
<1>10. DOMAIN new = DOMAIN buckets
    BY <1>1, <1>4
<1> QED
    BY <1>4, <1>9, <1>10 DEF new

\* No buckets hold no points.
LEMMA NoPoints == <<>> \in Seq(Bucket) /\ PointsIn(<<>>) = 0
<1>1. <<>> \in Seq(Bucket) /\ Len(<<>>) = 0
    OBVIOUS
<1>2. 1 .. 0 = {}
    OBVIOUS
<1>3. IsFiniteSet({})
    BY FS_EmptySet
<1>4. Sigma({}, Lefts(<<>>)) = 0
    BY <1>3, SigmaTakes
<1> QED
    BY <1>1, <1>2, <1>4, PointsInIsSigma

-----------------------------------------------------------------------------
(* The last of a set, in an order. *)

\* The rows of a ledger, as far as their order goes.
Stamped(rs) == \A i \in DOMAIN rs : i \in Nat /\ rs[i].at \in Nat /\ rs[i].tie \in Nat

LastRow(rs, T) == Latest(T, LAMBDA i, j : Earlier(rs, i, j))

\* The last of some rows, in the order of the replay, is one of them, and no other is later.
LEMMA LastRowIs ==
    ASSUME NEW rs, IsFiniteSet(DOMAIN rs), Stamped(rs), NEW T \in SUBSET DOMAIN rs, T # {}
    PROVE  /\ LastRow(rs, T) \in T
           /\ \A j \in T : LastRow(rs, T) = j \/ Earlier(rs, j, LastRow(rs, T))
<1> DEFINE S == DOMAIN rs
           R == {p \in S \X S : Earlier(rs, p[1], p[2])}
<1>1. \A i, j \in S : <<i, j>> \in R <=> Earlier(rs, i, j)
    OBVIOUS
<1>2. InLine(R, S)
    <2> HIDE DEF R
    <2>1. \A i, j \in S : i = j \/ <<i, j>> \in R \/ <<j, i>> \in R
        <3>1. \A i, j \in S : i = j \/ Earlier(rs, i, j) \/ Earlier(rs, j, i)
            BY DEF Stamped, Earlier
        <3> QED
            BY <1>1, <3>1
    <2>2. \A i, j, k \in S : <<i, j>> \in R /\ <<j, k>> \in R => <<i, k>> \in R
        BY <1>1 DEF Stamped, Earlier
    <2> QED
        BY <2>1, <2>2 DEF InLine
<1> HIDE DEF R, S
<1>3. \E i \in T : \A j \in T : i = j \/ <<j, i>> \in R
    BY <1>2, LastExists DEF S
<1>4. \E i \in T : \A j \in T : i = j \/ Earlier(rs, j, i)
    BY <1>1, <1>3 DEF S
<1> QED
    BY <1>4 DEF Latest, LastRow

\* Before Consumed and Visited can be shown to order, some facts about their keys.
Keyed(buckets) == \A i \in DOMAIN buckets :
    i \in Nat /\ buckets[i].lapse \in Nat /\ buckets[i].at \in Nat /\ buckets[i].id \in Nat

\* A bucket can be compared with another.
LEMMA BucketsKeyed ==
    ASSUME NEW buckets \in Seq(Bucket)
    PROVE  Keyed(buckets) /\ IsFiniteSet(DOMAIN buckets)
<1>1. /\ Len(buckets) \in Nat /\ DOMAIN buckets = 1 .. Len(buckets)
      /\ \A i \in 1 .. Len(buckets) : buckets[i] \in Bucket
    BY LeftsAre
<1>2. \A b \in Bucket : b.lapse \in Nat /\ b.at \in Nat /\ b.id \in Nat
    BY DEF Bucket
<1>3. IsFiniteSet(DOMAIN buckets)
    BY <1>1, AllFinite
<1>4. \A i \in 1 .. Len(buckets) : i \in Nat
    BY <1>1
<1> QED
    BY <1>1, <1>2, <1>3, <1>4 DEF Keyed

\* The order of consumption puts all buckets in a line (_ordered_consumption_buckets).
LEMMA ConsumedInLine ==
    ASSUME NEW buckets, Keyed(buckets)
    PROVE  /\ \A i, j \in DOMAIN buckets : i = j \/ Consumed(buckets, i, j) \/ Consumed(buckets, j, i)
           /\ \A i, j, k \in DOMAIN buckets :
                 Consumed(buckets, i, j) /\ Consumed(buckets, j, k) => Consumed(buckets, i, k)
<1>1. \A i, j \in DOMAIN buckets : i = j \/ Consumed(buckets, i, j) \/ Consumed(buckets, j, i)
    BY DEF Keyed, Consumed, ConsumedBefore
<1>2. \A i, j, k \in DOMAIN buckets :
          Consumed(buckets, i, j) /\ Consumed(buckets, j, k) => Consumed(buckets, i, k)
    BY DEF Keyed, Consumed, ConsumedBefore
<1> QED
    BY <1>1, <1>2

LastConsumed(buckets, T) == Latest(T, LAMBDA i, j : Consumed(buckets, i, j))

\* The last of some buckets, in the order of consumption, is one of them.
LEMMA LastConsumedIs ==
    ASSUME NEW buckets \in Seq(Bucket), NEW T \in SUBSET DOMAIN buckets, T # {}
    PROVE  LastConsumed(buckets, T) \in T
<1> DEFINE S == DOMAIN buckets
           R == {p \in S \X S : Consumed(buckets, p[1], p[2])}
<1>1. \A i, j \in S : <<i, j>> \in R <=> Consumed(buckets, i, j)
    OBVIOUS
<1>0. Keyed(buckets) /\ IsFiniteSet(S)
    BY BucketsKeyed
<1> HIDE DEF R, S
<1>2. InLine(R, S)
    BY <1>0, <1>1, ConsumedInLine DEF InLine, S
<1>3. \E i \in T : \A j \in T : i = j \/ <<j, i>> \in R
    BY <1>0, <1>2, LastExists DEF S
<1>4. \E i \in T : \A j \in T : i = j \/ Consumed(buckets, j, i)
    BY <1>1, <1>3 DEF S
<1> QED
    BY <1>4 DEF Latest, LastConsumed

LastVisited(buckets, id, source, T) == Latest(T, LAMBDA i, j : Visited(buckets, id, source, i, j))

\* The last of some buckets, in the order of allocation, is one of them, and no other is later.
LEMMA LastVisitedIs ==
    ASSUME NEW buckets \in Seq(Bucket), NEW id, NEW source, NEW T \in SUBSET DOMAIN buckets, T # {}
    PROVE  LET last == LastVisited(buckets, id, source, T)
           IN  last \in T /\ \A j \in T : last = j \/ Visited(buckets, id, source, j, last)
<1> DEFINE S == DOMAIN buckets
           R == {p \in S \X S : Visited(buckets, id, source, p[1], p[2])}
           Class(k) == IF buckets[k].id = id THEN 1 ELSE IF buckets[k].source = source THEN 2 ELSE 3
<1>1. \A i, j \in S : <<i, j>> \in R <=> Visited(buckets, id, source, i, j)
    OBVIOUS
<1>0. Keyed(buckets) /\ IsFiniteSet(S)
    BY BucketsKeyed
<1>2. \A i, j \in S : Visited(buckets, id, source, i, j) <=>
          \/ Class(i) < Class(j)
          \/ Class(i) = 1 /\ Class(j) = 1 /\ i < j
          \/ Class(i) # 1 /\ Class(i) = Class(j) /\ Consumed(buckets, i, j)
    BY DEF Visited
<1>3. \A i \in S : Class(i) \in {1, 2, 3}
    OBVIOUS
<1> HIDE DEF R, S, Class
<1>4. \A i \in S : i \in Nat
    BY <1>0 DEF Keyed, S
<1>5. \A i, j \in S : i = j \/ Visited(buckets, id, source, i, j) \/ Visited(buckets, id, source, j, i)
    BY <1>0, <1>2, <1>3, <1>4, ConsumedInLine DEF S
<1>6. \A i, j, k \in S : Consumed(buckets, i, j) /\ Consumed(buckets, j, k) => Consumed(buckets, i, k)
    BY <1>0, ConsumedInLine DEF S
<1>7. \A i, j, k \in S : Visited(buckets, id, source, i, j) /\ Visited(buckets, id, source, j, k)
                             => Visited(buckets, id, source, i, k)
    BY <1>2, <1>3, <1>4, <1>6
<1>8. InLine(R, S)
    BY <1>1, <1>5, <1>7 DEF InLine
<1>9. \E i \in T : \A j \in T : i = j \/ <<j, i>> \in R
    BY <1>0, <1>8, LastExists DEF S
<1>10. \E i \in T : \A j \in T : i = j \/ Visited(buckets, id, source, j, i)
    BY <1>1, <1>9 DEF S
<1> QED
    BY <1>10 DEF Latest, LastVisited

-----------------------------------------------------------------------------
(* Taking points from buckets. *)

\* The smaller of two numbers.
LEMMA SmallerIs ==
    ASSUME NEW m \in Nat, NEW n \in Nat
    PROVE  Smaller(m, n) \in Nat /\ Smaller(m, n) <= m /\ Smaller(m, n) <= n
BY DEF Smaller

\* What taking some of the points asked for leaves: the same buckets, less what was taken.
Drawn(state, buckets, points) ==
    /\ state.buckets \in Seq(Bucket) /\ DOMAIN state.buckets = DOMAIN buckets
    /\ state.rest \in 0 .. points
    /\ state.taken \in Seq(Allocation)
    /\ PointsIn(state.buckets) = PointsIn(buckets) - (points - state.rest)

States == [buckets : Seq(Bucket), rest : Nat, taken : Seq(Allocation)]

\* One bucket's turn.
TakeFrom(state, i) ==
    LET taken == Smaller(state.buckets[i].left, state.rest)
        b == state.buckets[i]
    IN  IF taken = 0 THEN state
        ELSE [buckets |-> [state.buckets EXCEPT ![i].left = @ - taken],
              rest    |-> state.rest - taken,
              taken   |-> Append(state.taken,
                                 [id |-> b.id, source |-> b.source,
                                  points |-> taken, lapse |-> b.lapse])]

\* A turn takes what it allocates, and no more than is left or wanted.
LEMMA TakeFromDraws ==
    ASSUME NEW buckets \in Seq(Bucket), NEW points \in Nat, NEW state \in States,
           Drawn(state, buckets, points), NEW i \in DOMAIN buckets
    PROVE  TakeFrom(state, i) \in States /\ Drawn(TakeFrom(state, i), buckets, points)
<1> DEFINE taken == Smaller(state.buckets[i].left, state.rest)
           b == state.buckets[i]
           left == b.left - taken
           new == [state.buckets EXCEPT ![i].left = left]
           a == [id |-> b.id, source |-> b.source, points |-> taken, lapse |-> b.lapse]
<1>1. /\ state.buckets \in Seq(Bucket) /\ state.rest \in Nat /\ state.taken \in Seq(Allocation)
      /\ i \in DOMAIN state.buckets /\ DOMAIN state.buckets = DOMAIN buckets
      /\ state.rest <= points
      /\ PointsIn(state.buckets) = PointsIn(buckets) - (points - state.rest)
    BY DEF States, Drawn
<1>2. b \in Bucket
    BY <1>1
<1>3. b.left \in Nat /\ b.id \in Nat /\ b.source \in Sources /\ b.lapse \in Nat
    BY <1>2 DEF Bucket
<1> HIDE DEF b
<1>4. taken \in Nat /\ taken <= b.left /\ taken <= state.rest
    BY <1>1, <1>3, SmallerIs DEF b
<1> HIDE DEF taken
<1>5. left \in Nat
    BY <1>3, <1>4
<1>6. a \in Allocation
    BY <1>3, <1>4 DEF Allocation
<1> HIDE DEF left, a
<1>7. /\ new \in Seq(Bucket) /\ DOMAIN new = DOMAIN buckets
      /\ PointsIn(new) = PointsIn(state.buckets) - b.left + left
    <2> DEFINE old == state.buckets
    <2>1. old \in Seq(Bucket) /\ i \in DOMAIN old /\ old[i] = b /\ DOMAIN old = DOMAIN buckets
        BY <1>1 DEF b
    <2> HIDE DEF old
    <2> DEFINE changed == [old EXCEPT ![i].left = left]
    <2>2. /\ changed \in Seq(Bucket) /\ DOMAIN changed = DOMAIN old
          /\ PointsIn(changed) = PointsIn(old) - old[i].left + left
        BY <1>5, <2>1, PointsOfChanged
    <2>3. changed = new
        BY DEF old
    <2> HIDE DEF changed, new
    <2> QED
        BY <2>1, <2>2, <2>3 DEF old
<1>8. Append(state.taken, a) \in Seq(Allocation)
    BY <1>1, <1>6
<1>9. CASE taken = 0
    BY <1>9 DEF TakeFrom, taken
<1>10. CASE taken # 0
    <2>1. TakeFrom(state, i) = [buckets |-> new, rest |-> state.rest - taken, taken |-> Append(state.taken, a)]
        BY <1>10 DEF TakeFrom, taken, a, b, left
    <2>2. PointsIn(buckets) \in Int /\ PointsIn(state.buckets) \in Int
        BY <1>1, PointsInIsSigma
    <2>3. state.rest - taken \in Nat /\ state.rest - taken <= points
        BY <1>1, <1>4
    <2>4. PointsIn(new) = PointsIn(buckets) - (points - (state.rest - taken))
        BY <1>1, <1>3, <1>4, <1>7, <2>2 DEF left
    <2> HIDE DEF new
    <2>5. TakeFrom(state, i) \in States
        BY <1>7, <1>8, <2>1, <2>3 DEF States
    <2>6. Drawn(TakeFrom(state, i), buckets, points)
        BY <1>7, <1>8, <2>1, <2>3, <2>4 DEF Drawn
    <2> QED
        BY <2>5, <2>6
<1> QED
    BY <1>9, <1>10

\* The buckets that have a turn, and the state before the first.
Takers(buckets, points) == {i \in DOMAIN buckets : points > 0 /\ buckets[i].left > 0}
Untaken(buckets, points) == [buckets |-> buckets, rest |-> points, taken |-> <<>>]

\* The state after the turns of each set of buckets.
AllocatesInTurn(iter, buckets, points, id, source) ==
    /\ iter[{}] = Untaken(buckets, points)
    /\ \A T \in SUBSET Takers(buckets, points) :
          /\ iter[T] \in States /\ Drawn(iter[T], buckets, points)
          /\ T # {} => iter[T] = TakeFrom(iter[T \ {LastVisited(buckets, id, source, T)}],
                                         LastVisited(buckets, id, source, T))

\* _allocate_points_from_buckets goes from state to state, one bucket at a time.
LEMMA AllocateTurns ==
    ASSUME NEW buckets \in Seq(Bucket), NEW points \in Nat, NEW id, NEW source
    PROVE  \E iter : /\ Allocate(buckets, points, id, source) = iter[Takers(buckets, points)]
                     /\ AllocatesInTurn(iter, buckets, points, id, source)
<1> DEFINE S == Takers(buckets, points)
           start == Untaken(buckets, points)
           Choice(T) == LastVisited(buckets, id, source, T)
           last == [T \in SUBSET S |-> Choice(T)]
           A == {state \in States : Drawn(state, buckets, points)}
           F == [i \in S |-> [state \in A |-> TakeFrom(state, i)]]
           IsIter(f) == f = [T \in SUBSET S |-> IF T = {} THEN start
                                                ELSE TakeFrom(f[T \ {Choice(T)}], Choice(T))]
           iter == CHOOSE f : IsIter(f)
<1>1. Allocate(buckets, points, id, source) = iter[S]
    BY DEF Allocate, InTurn, MapThenFoldSet, TakeFrom, LastVisited, Takers, Untaken
<1>2. S \in SUBSET DOMAIN buckets /\ IsFiniteSet(S)
    BY BucketsKeyed, FS_Subset DEF Takers
<1>3. start \in A
    <2>1. <<>> \in Seq(Allocation)
        OBVIOUS
    <2>2. PointsIn(buckets) = PointsIn(buckets) - (points - points)
        BY PointsInIsSigma
    <2>3. start.buckets = buckets /\ start.rest = points /\ start.taken = <<>>
        BY DEF Untaken
    <2>4. points \in 0 .. points
        OBVIOUS
    <2>5. start \in States
        BY <2>1 DEF States, Untaken
    <2> HIDE DEF start
    <2>6. Drawn(start, buckets, points)
        BY <2>1, <2>2, <2>3, <2>4 DEF Drawn
    <2> QED
        BY <2>5, <2>6
<1>4. \A T \in SUBSET S : T # {} => Choice(T) \in T
    BY <1>2, LastVisitedIs
<1> HIDE DEF S, start, Choice
<1>5. F \in [S -> [A -> A]]
    <2>1. \A i \in S, state \in A : TakeFrom(state, i) \in A
        BY <1>2, TakeFromDraws
    <2> HIDE DEF A
    <2> QED
        BY <2>1
<1> HIDE DEF A
<1>6. Chooses(last, S)
    BY <1>4 DEF Chooses
<1>7. PICK f : TakesInTurn(f, S, start, A, F, last)
    <2> HIDE DEF F, last
    <2> QED
        BY <1>2, <1>3, <1>5, <1>6, TurnsExist
<1>8. IsIter(f)
    <2>1. ASSUME NEW T \in SUBSET S, T # {}
          PROVE  f[T] = TakeFrom(f[T \ {Choice(T)}], Choice(T))
        <3>1. f[T] = F[last[T]][f[T \ {last[T]}]]
            BY <1>7, <2>1 DEF TakesInTurn
        <3>2. last[T] = Choice(T) /\ Choice(T) \in S
            BY <1>4, <2>1
        <3>3. f[T \ {Choice(T)}] \in A
            BY <1>7 DEF TakesInTurn
        <3> HIDE DEF last
        <3> QED
            BY <3>1, <3>2, <3>3
    <2>2. f = [T \in SUBSET S |-> f[T]] /\ f[{}] = start
        BY <1>7 DEF TakesInTurn
    <2> DEFINE Step(T) == TakeFrom(f[T \ {Choice(T)}], Choice(T))
    <2> HIDE DEF Step
    <2>3. f = [T \in SUBSET S |-> IF T = {} THEN start ELSE Step(T)]
        BY <2>1, <2>2 DEF Step
    <2> QED
        BY <2>3 DEF Step
<1>9. IsIter(iter)
    <2> HIDE DEF IsIter
    <2> QED
        BY <1>8
<1> HIDE DEF iter
<1> DEFINE family == {T \in SUBSET S : iter[T] \in A}
<1>10. \A T \in SUBSET S : iter[T] = IF T = {} THEN start ELSE TakeFrom(iter[T \ {Choice(T)}], Choice(T))
    BY <1>9
<1>11. {} \in family
    BY <1>3, <1>10
<1>12. HasWithRest(family, last, S)
    <2>1. ASSUME NEW T \in SUBSET S, T # {}, T \ {last[T]} \in family PROVE T \in family
        <3>1. last[T] = Choice(T) /\ Choice(T) \in S
            BY <1>4, <2>1
        <3>2. iter[T] = TakeFrom(iter[T \ {Choice(T)}], Choice(T))
            BY <1>10, <2>1
        <3>3. iter[T \ {Choice(T)}] \in A
            BY <2>1, <3>1
        <3>4. TakeFrom(iter[T \ {Choice(T)}], Choice(T)) \in A
            BY <1>2, <3>1, <3>3, TakeFromDraws DEF A
        <3> QED
            BY <3>2, <3>4
    <2> QED
        BY <2>1 DEF HasWithRest
<1> HIDE DEF family, last
<1>13. SUBSET S \subseteq family
    BY <1>2, <1>6, <1>11, <1>12, TakingOff
<1>14. \A T \in SUBSET S : iter[T] \in States /\ Drawn(iter[T], buckets, points)
    BY <1>13 DEF family, A
<1>15. \A T \in SUBSET S : T # {} => iter[T] = TakeFrom(iter[T \ {Choice(T)}], Choice(T))
    BY <1>10
<1>16. iter[{}] = start
    BY <1>10
<1>17. AllocatesInTurn(iter, buckets, points, id, source)
    BY <1>14, <1>15, <1>16 DEF AllocatesInTurn, S, start, Choice
<1> QED
    BY <1>1, <1>17 DEF S

\* It takes from the buckets exactly what it allocates.
LEMMA AllocateDraws ==
    ASSUME NEW buckets \in Seq(Bucket), NEW points \in Nat, NEW id, NEW source
    PROVE  Drawn(Allocate(buckets, points, id, source), buckets, points)
<1>1. PICK iter : /\ Allocate(buckets, points, id, source) = iter[Takers(buckets, points)]
                  /\ AllocatesInTurn(iter, buckets, points, id, source)
    BY AllocateTurns
<1>2. Takers(buckets, points) \in SUBSET Takers(buckets, points)
    OBVIOUS
<1> QED
    BY <1>1, <1>2 DEF AllocatesInTurn

-----------------------------------------------------------------------------
(* What a negative row takes. *)

\* Buckets from which some of the points wanted have been paid.
Paid(state, points, wanted) ==
    /\ state.buckets \in Seq(Bucket) /\ state.rest \in 0 .. wanted
    /\ PointsIn(state.buckets) = points - (wanted - state.rest)

Payments == [buckets : Seq(Bucket), rest : Nat]

\* The turn of one allocation recorded with the row.
PayFrom(state, a) ==
    LET wanted == Smaller(state.rest, a.points)
        drawn  == Allocate(state.buckets, wanted, a.id, a.source)
    IN  [buckets |-> drawn.buckets, rest |-> state.rest - (wanted - drawn.rest)]

\* The turn of a recorded allocation takes what it pays.
LEMMA PayFromPays ==
    ASSUME NEW points \in Int, NEW wanted \in Nat, NEW state \in Payments, Paid(state, points, wanted),
           NEW a \in Allocation
    PROVE  PayFrom(state, a) \in Payments /\ Paid(PayFrom(state, a), points, wanted)
<1> DEFINE asked == Smaller(state.rest, a.points)
           drawn == Allocate(state.buckets, asked, a.id, a.source)
           old == state.buckets
<1>1. /\ old \in Seq(Bucket) /\ state.rest \in Nat /\ state.rest <= wanted
      /\ PointsIn(old) = points - (wanted - state.rest)
    BY DEF Payments, Paid
<1>2. a.points \in Nat
    BY DEF Allocation
<1>3. asked \in Nat /\ asked <= state.rest
    BY <1>1, <1>2, SmallerIs
<1>4. PayFrom(state, a) = [buckets |-> drawn.buckets, rest |-> state.rest - (asked - drawn.rest)]
    BY DEF PayFrom
<1> HIDE DEF asked
<1>5. Drawn(drawn, old, asked)
    BY <1>1, <1>3, AllocateDraws
<1> HIDE DEF drawn, old
<1>6. /\ drawn.buckets \in Seq(Bucket) /\ drawn.rest \in Nat /\ drawn.rest <= asked
      /\ PointsIn(drawn.buckets) = PointsIn(old) - (asked - drawn.rest)
    BY <1>3, <1>5 DEF Drawn
<1> DEFINE rest == state.rest - (asked - drawn.rest)
<1>7. rest \in Nat /\ rest <= wanted
    <2>1. \A w, r, k, d \in Nat : r <= w /\ k <= r /\ d <= k => r - (k - d) \in Nat /\ r - (k - d) <= w
        OBVIOUS
    <2> QED
        BY <1>1, <1>3, <1>6, <2>1
<1>8. PointsIn(drawn.buckets) = points - (wanted - rest)
    <2>1. \A w, r, k, d \in Nat : (points - (w - r)) - (k - d) = points - (w - (r - (k - d)))
        OBVIOUS
    <2> QED
        BY <1>1, <1>3, <1>6, <2>1
<1> HIDE DEF rest
<1>9. PayFrom(state, a) = [buckets |-> drawn.buckets, rest |-> rest]
    BY <1>4 DEF rest
<1>10. PayFrom(state, a) \in Payments
    BY <1>6, <1>7, <1>9 DEF Payments
<1>11. rest \in 0 .. wanted
    BY <1>7
<1> QED
    BY <1>6, <1>8, <1>9, <1>10, <1>11 DEF Paid

\* The turns of all of them.
PayAll(start, alloc) == FoldLeft(PayFrom, start, alloc)

\* The state after the turns of each set of allocations.
PaysInTurn(iter, start, alloc, points, wanted) ==
    /\ iter[{}] = start
    /\ \A T \in SUBSET (1 .. Len(alloc)) :
          /\ iter[T] \in Payments /\ Paid(iter[T], points, wanted)
          /\ T # {} => iter[T] = PayFrom(iter[T \ {Max(T)}], alloc[Max(T)])

\* All of them go from state to state.
LEMMA PayTurns ==
    ASSUME NEW points \in Int, NEW wanted \in Nat, NEW start \in Payments, Paid(start, points, wanted),
           NEW alloc \in Seq(Allocation)
    PROVE  \E iter : /\ PayAll(start, alloc) = iter[1 .. Len(alloc)]
                     /\ PaysInTurn(iter, start, alloc, points, wanted)
<1> DEFINE n == Len(alloc)
           D == 1 .. n
           A == {state \in Payments : Paid(state, points, wanted)}
           last == [T \in SUBSET D |-> Max(T)]
           F == [i \in D |-> [state \in A |-> PayFrom(state, alloc[i])]]
           IsIter(f) == f = [T \in SUBSET D |-> IF T = {} THEN start
                                                ELSE PayFrom(f[T \ {Max(T)}], alloc[Max(T)])]
           iter == CHOOSE f : IsIter(f)
<1>1. n \in Nat /\ DOMAIN alloc = D /\ \A i \in D : alloc[i] \in Allocation
    OBVIOUS
<1>2. PayAll(start, alloc) = iter[D]
    <2>1. PayAll(start, alloc) = iter[DOMAIN alloc]
        BY <1>1 DEF PayAll, FoldLeft, MapThenFoldSet, Max
    <2> QED
        BY <1>1, <2>1
<1>3. IsFiniteSet(D)
    BY <1>1, AllFinite
<1>4. \A T \in SUBSET D : T # {} => Max(T) \in T
    BY <1>1, MaxOf
<1> HIDE DEF D
<1>5. F \in [D -> [A -> A]]
    <2>1. \A i \in D, state \in A : PayFrom(state, alloc[i]) \in A
        BY <1>1, PayFromPays
    <2> HIDE DEF A
    <2> QED
        BY <2>1
<1>6. start \in A
    OBVIOUS
<1> HIDE DEF A
<1>7. Chooses(last, D)
    BY <1>4 DEF Chooses
<1>8. PICK f : TakesInTurn(f, D, start, A, F, last)
    <2> HIDE DEF F, last
    <2> QED
        BY <1>3, <1>5, <1>6, <1>7, TurnsExist
<1>9. IsIter(f)
    <2> DEFINE Step(T) == PayFrom(f[T \ {Max(T)}], alloc[Max(T)])
    <2>1. ASSUME NEW T \in SUBSET D, T # {} PROVE f[T] = Step(T)
        <3>1. f[T] = F[last[T]][f[T \ {last[T]}]]
            BY <1>8, <2>1 DEF TakesInTurn
        <3>2. last[T] = Max(T) /\ Max(T) \in D
            BY <1>4, <2>1
        <3>3. f[T \ {Max(T)}] \in A
            BY <1>8 DEF TakesInTurn
        <3> HIDE DEF last
        <3> QED
            BY <3>1, <3>2, <3>3
    <2>2. f = [T \in SUBSET D |-> f[T]] /\ f[{}] = start
        BY <1>8 DEF TakesInTurn
    <2> HIDE DEF Step
    <2>3. f = [T \in SUBSET D |-> IF T = {} THEN start ELSE Step(T)]
        BY <2>1, <2>2
    <2> QED
        BY <2>3 DEF Step
<1>10. IsIter(iter)
    <2> HIDE DEF IsIter
    <2> QED
        BY <1>9
<1> HIDE DEF iter
<1> DEFINE family == {T \in SUBSET D : iter[T] \in A}
<1>11. \A T \in SUBSET D : iter[T] = IF T = {} THEN start ELSE PayFrom(iter[T \ {Max(T)}], alloc[Max(T)])
    BY <1>10
<1>12. {} \in family
    BY <1>6, <1>11
<1>13. HasWithRest(family, last, D)
    <2>1. ASSUME NEW T \in SUBSET D, T # {}, T \ {last[T]} \in family PROVE T \in family
        <3>1. last[T] = Max(T) /\ Max(T) \in D
            BY <1>4, <2>1
        <3>2. iter[T] = PayFrom(iter[T \ {Max(T)}], alloc[Max(T)])
            BY <1>11, <2>1
        <3>3. iter[T \ {Max(T)}] \in A
            BY <2>1, <3>1
        <3>4. PayFrom(iter[T \ {Max(T)}], alloc[Max(T)]) \in A
            BY <1>1, <3>1, <3>3, PayFromPays DEF A
        <3> QED
            BY <3>2, <3>4
    <2> QED
        BY <2>1 DEF HasWithRest
<1> HIDE DEF family, last
<1>14. SUBSET D \subseteq family
    BY <1>3, <1>7, <1>12, <1>13, TakingOff
<1>15. \A T \in SUBSET D : iter[T] \in Payments /\ Paid(iter[T], points, wanted)
    BY <1>14 DEF family, A
<1>16. iter[{}] = start
    BY <1>11
<1>17. PaysInTurn(iter, start, alloc, points, wanted)
    BY <1>11, <1>15, <1>16 DEF PaysInTurn, D
<1> QED
    BY <1>2, <1>17 DEF D

\* So the turns of all of them take what they pay.
LEMMA PayAllPays ==
    ASSUME NEW points \in Int, NEW wanted \in Nat, NEW start \in Payments, Paid(start, points, wanted),
           NEW alloc \in Seq(Allocation)
    PROVE  Paid(PayAll(start, alloc), points, wanted)
<1>1. PICK iter : /\ PayAll(start, alloc) = iter[1 .. Len(alloc)]
                  /\ PaysInTurn(iter, start, alloc, points, wanted)
    BY PayTurns
<1>2. 1 .. Len(alloc) \in SUBSET (1 .. Len(alloc))
    OBVIOUS
<1> QED
    BY <1>1, <1>2 DEF PaysInTurn

\* A negative row takes no more than its points.
LEMMA DrainTakes ==
    ASSUME NEW buckets \in Seq(Bucket), NEW row, row.delta \in Int, row.delta < 0,
           row.alloc \in Seq(Allocation)
    PROVE  /\ DrainBuckets(buckets, row) \in Seq(Bucket)
           /\ PointsIn(DrainBuckets(buckets, row)) >= PointsIn(buckets) + row.delta
<1> DEFINE wanted == -row.delta
           points == PointsIn(buckets)
           targeted == IF row.kind = "subscription_expire"
                       THEN Allocate(buckets, -row.delta, row.ref, NoSource)
                       ELSE [buckets |-> buckets, rest |-> -row.delta]
           start == [buckets |-> targeted.buckets, rest |-> targeted.rest]
           recorded == PayAll(start, row.alloc)
           final == Allocate(recorded.buckets, recorded.rest, NoId, NoSource)
<1>1. DrainBuckets(buckets, row) = final.buckets
    BY DEF DrainBuckets, PayAll, PayFrom
<1>2. wanted \in Nat /\ points \in Int
    BY PointsInIsSigma
<1>3. Paid(targeted, points, wanted)
    <2>1. CASE row.kind = "subscription_expire"
        <3> DEFINE drawn == Allocate(buckets, wanted, row.ref, NoSource)
        <3>1. targeted = drawn
            BY <2>1
        <3> HIDE DEF wanted
        <3>2. Drawn(drawn, buckets, wanted)
            BY <1>2, AllocateDraws
        <3> HIDE DEF drawn, targeted
        <3> QED
            BY <3>1, <3>2 DEF Drawn, Paid
    <2>2. CASE row.kind # "subscription_expire"
        <3>1. targeted.buckets = buckets /\ targeted.rest = wanted
            BY <2>2
        <3>2. wanted \in 0 .. wanted /\ points = points - (wanted - wanted)
            BY <1>2
        <3> HIDE DEF wanted, targeted
        <3> QED
            BY <3>1, <3>2 DEF Paid
    <2> QED
        BY <2>1, <2>2
<1> HIDE DEF targeted, wanted
<1>4. start \in Payments /\ Paid(start, points, wanted)
    <2>1. targeted.buckets \in Seq(Bucket) /\ targeted.rest \in Nat
        BY <1>2, <1>3 DEF Paid
    <2> QED
        BY <1>3, <2>1 DEF Paid, Payments
<1> HIDE DEF start, points
<1>5. Paid(recorded, points, wanted)
    BY <1>2, <1>4, PayAllPays
<1> HIDE DEF recorded
<1>6. recorded.buckets \in Seq(Bucket) /\ recorded.rest \in Nat
    BY <1>2, <1>5 DEF Paid
<1>7. Drawn(final, recorded.buckets, recorded.rest)
    BY <1>6, AllocateDraws
<1> HIDE DEF final
<1>8. /\ final.buckets \in Seq(Bucket) /\ final.rest \in Nat
      /\ PointsIn(final.buckets) = PointsIn(recorded.buckets) - (recorded.rest - final.rest)
    BY <1>6, <1>7 DEF Drawn
<1>9. PointsIn(recorded.buckets) = points - (wanted - recorded.rest)
    BY <1>5 DEF Paid
<1>10. PointsIn(final.buckets) >= points - wanted
    BY <1>2, <1>6, <1>8, <1>9
<1> QED
    BY <1>1, <1>2, <1>8, <1>10 DEF points, wanted

-----------------------------------------------------------------------------
(* What a positive row adds. *)

PointsOf(alloc) == [i \in DOMAIN alloc |-> alloc[i].points]

\* The points of each allocation.
LEMMA PointsAre ==
    ASSUME NEW alloc \in Seq(Allocation)
    PROVE  /\ Len(alloc) \in Nat /\ DOMAIN alloc = 1 .. Len(alloc)
           /\ \A i \in 1 .. Len(alloc) : /\ alloc[i] \in Allocation
                                        /\ PointsOf(alloc)[i] = alloc[i].points
                                        /\ PointsOf(alloc)[i] \in Int
<1> DEFINE n == Len(alloc)
<1>1. n \in Nat /\ DOMAIN alloc = 1 .. n
    OBVIOUS
<1> HIDE DEF n
<1>2. ASSUME NEW i \in 1 .. n
      PROVE  alloc[i] \in Allocation /\ PointsOf(alloc)[i] = alloc[i].points
    <2>1. alloc[i] \in Allocation
        BY <1>1
    <2>2. PointsOf(alloc)[i] = alloc[i].points
        BY <1>1 DEF PointsOf
    <2> QED
        BY <2>1, <2>2
<1>3. \A a \in Allocation : a.points \in Int
    BY DEF Allocation
<1> QED
    BY <1>1, <1>2, <1>3 DEF n

\* The points given back by a refund.
GivenBack(alloc) == SumOver(alloc, LAMBDA a : a.points)

\* They are a total.
LEMMA GivenBackIsSigma ==
    ASSUME NEW alloc \in Seq(Allocation)
    PROVE  GivenBack(alloc) = Sigma(1 .. Len(alloc), PointsOf(alloc)) /\ GivenBack(alloc) \in Int
<1> DEFINE n == Len(alloc)
           v == PointsOf(alloc)
           IsIter(f) == f = [S \in SUBSET DOMAIN alloc |->
                                IF S = {} THEN 0 ELSE f[S \ {Max(S)}] + alloc[Max(S)].points]
           iter == CHOOSE f : IsIter(f)
<1>1. n \in Nat /\ DOMAIN alloc = 1 .. n /\ \A i \in 1 .. n : v[i] = alloc[i].points /\ v[i] \in Int
    BY PointsAre
<1>2. GivenBack(alloc) = iter[DOMAIN alloc]
    BY DEF GivenBack, SumOver, FoldLeft, MapThenFoldSet, Max
<1>3. ASSUME NEW f PROVE IsIter(f) <=> Sums(f, n, v)
    <2>1. \A S \in SUBSET (1 .. n) : S # {} => Max(S) \in 1 .. n
        BY <1>1, MaxOf
    <2> HIDE DEF v, n
    <2>2. \A S \in SUBSET (1 .. n) : S # {} => alloc[Max(S)].points = v[Max(S)]
        BY <1>1, <2>1
    <2>3. [S \in SUBSET (1 .. n) |-> IF S = {} THEN 0 ELSE f[S \ {Max(S)}] + alloc[Max(S)].points]
             = [S \in SUBSET (1 .. n) |-> IF S = {} THEN 0 ELSE f[S \ {Max(S)}] + v[Max(S)]]
        BY <2>2
    <2> QED
        BY <1>1, <2>3 DEF Sums
<1> HIDE DEF IsIter, n, v
<1>4. (\E f : Sums(f, n, v)) => Sums(iter, n, v)
    BY <1>3
<1>5. iter[1 .. n] = Sigma(1 .. n, v) /\ Sigma(1 .. n, v) \in Int
    BY <1>1, <1>4, ChosenSum
<1> QED
    BY <1>1, <1>2, <1>5 DEF n, v

\* What a refund opens.
Reopened(row) ==
    [i \in DOMAIN row.alloc |->
        [id |-> row.alloc[i].id, kind |-> "refund", source |-> row.alloc[i].source,
         left |-> row.alloc[i].points, lapse |-> row.alloc[i].lapse, at |-> row.at]]

\* The buckets a refund opens hold what its allocations say.
LEMMA ReopenedHolds ==
    ASSUME NEW row, row.at \in Nat, row.alloc \in Seq(Allocation)
    PROVE  Reopened(row) \in Seq(Bucket) /\ PointsIn(Reopened(row)) = GivenBack(row.alloc)
<1> DEFINE alloc == row.alloc
           n == Len(alloc)
           new == Reopened(row)
<1>1. /\ n \in Nat /\ DOMAIN alloc = 1 .. n
      /\ \A i \in 1 .. n : alloc[i] \in Allocation /\ PointsOf(alloc)[i] = alloc[i].points
                           /\ PointsOf(alloc)[i] \in Int
    BY PointsAre
<1> HIDE DEF n
<1>2. ASSUME NEW i \in 1 .. n PROVE new[i] \in Bucket /\ new[i].left = alloc[i].points
    <2>1. new[i] = [id |-> alloc[i].id, kind |-> "refund", source |-> alloc[i].source,
                    left |-> alloc[i].points, lapse |-> alloc[i].lapse, at |-> row.at]
        BY <1>1 DEF Reopened
    <2>2. /\ alloc[i].id \in Nat /\ alloc[i].source \in Sources
          /\ alloc[i].points \in Nat /\ alloc[i].lapse \in Nat
        <3>1. alloc[i] \in Allocation
            BY <1>1
        <3> HIDE DEF alloc
        <3> QED
            BY <3>1 DEF Allocation
    <2>3. "refund" \in Kinds /\ row.at \in Nat
        BY DEF Kinds
    <2> HIDE DEF alloc, new
    <2> QED
        BY <2>1, <2>2, <2>3 DEF Bucket
<1>3. new = [i \in 1 .. n |-> new[i]]
    BY <1>1 DEF Reopened
<1> HIDE DEF alloc, new
<1>4. new \in [1 .. n -> Bucket]
    BY <1>2, <1>3
<1>5. new \in Seq(Bucket) /\ Len(new) = n
    BY <1>1, <1>4
<1>6. \A i \in 1 .. n : Lefts(new)[i] = PointsOf(alloc)[i]
    <2>1. \A i \in 1 .. n : Lefts(new)[i] = new[i].left
        BY <1>5, LeftsAre
    <2> QED
        BY <1>1, <1>2, <2>1
<1>7. Sigma(1 .. n, Lefts(new)) = Sigma(1 .. n, PointsOf(alloc))
    <2>1. IsFiniteSet(1 .. n)
        BY <1>1, AllFinite
    <2> QED
        BY <1>1, <1>6, <2>1, SigmaOfSame
<1>8. PointsIn(new) = Sigma(1 .. n, Lefts(new))
    BY <1>5, PointsInIsSigma
<1>9. GivenBack(alloc) = Sigma(1 .. n, PointsOf(alloc))
    BY GivenBackIsSigma DEF n, alloc
<1> QED
    BY <1>5, <1>7, <1>8, <1>9 DEF new, alloc

\* A row, as far as its replay goes.
Readable(row) ==
    /\ row.kind \in Kinds /\ row.delta \in Int /\ row.ref \in Nat /\ row.at \in Nat
    /\ row.tie \in Nat /\ row.lapse \in Nat /\ row.alloc \in Seq(Allocation)
    /\ row.kind = "refund" => row.delta > 0

\* The points of a refund that are in no bucket.
Beyond(row) == IF row.kind = "refund" /\ row.alloc # <<>> THEN row.delta - GivenBack(row.alloc) ELSE 0

\* They are a number.
LEMMA BeyondIs ==
    ASSUME NEW row, Readable(row)
    PROVE  Beyond(row) \in Int
BY GivenBackIsSigma DEF Readable, Beyond

\* A positive row adds its points, but for those that are in no bucket.
LEMMA OpenAdds ==
    ASSUME NEW buckets \in Seq(Bucket), NEW row, Readable(row), row.delta > 0
    PROVE  /\ OpenBuckets(buckets, row) \in Seq(Bucket)
           /\ PointsIn(OpenBuckets(buckets, row)) = PointsIn(buckets) + row.delta - Beyond(row)
<1>1. PointsIn(buckets) \in Int /\ row.delta \in Int /\ GivenBack(row.alloc) \in Int
    BY PointsInIsSigma, GivenBackIsSigma DEF Readable
<1>2. CASE row.kind = "refund" /\ row.alloc # <<>>
    <2>1. OpenBuckets(buckets, row) = buckets \o Reopened(row)
        BY <1>2 DEF OpenBuckets, Reopened
    <2>2. Reopened(row) \in Seq(Bucket) /\ PointsIn(Reopened(row)) = GivenBack(row.alloc)
        BY ReopenedHolds DEF Readable
    <2>3. /\ OpenBuckets(buckets, row) \in Seq(Bucket)
          /\ PointsIn(OpenBuckets(buckets, row)) = PointsIn(buckets) + GivenBack(row.alloc)
        BY <2>1, <2>2, PointsOfBoth
    <2>4. Beyond(row) = row.delta - GivenBack(row.alloc)
        BY <1>2 DEF Beyond
    <2> QED
        BY <1>1, <2>3, <2>4
<1>3. CASE ~(row.kind = "refund" /\ row.alloc # <<>>)
    <2> DEFINE b == [id |-> row.ref, kind |-> row.kind, source |-> SourceOf(row.kind),
                     left |-> row.delta, at |-> row.at,
                     lapse |-> IF row.kind = "subscription_grant" THEN row.lapse ELSE Never]
    <2>1. OpenBuckets(buckets, row) = Append(buckets, b)
        BY <1>3 DEF OpenBuckets
    <2>2. SourceOf(row.kind) \in Sources
        BY DEF SourceOf, Sources
    <2>3. row.delta \in Nat
        BY <1>1
    <2>4. b \in Bucket /\ b.left = row.delta
        <3> DEFINE lapse == IF row.kind = "subscription_grant" THEN row.lapse ELSE Never
        <3>1. row.ref \in Nat /\ row.kind \in Kinds /\ row.at \in Nat /\ lapse \in Nat
            BY NeverAssumption DEF Readable
        <3>2. b = [id |-> row.ref, kind |-> row.kind, source |-> SourceOf(row.kind),
                   left |-> row.delta, lapse |-> lapse, at |-> row.at]
            OBVIOUS
        <3> HIDE DEF b, lapse
        <3> QED
            BY <2>2, <2>3, <3>1, <3>2 DEF Bucket
    <2> HIDE DEF b
    <2>5. Append(buckets, b) = buckets \o <<b>>
        BY <2>4
    <2> DEFINE one == <<b>>
    <2>6. one \in Seq(Bucket) /\ PointsIn(one) = row.delta
        BY <2>4, PointsOfOne
    <2> HIDE DEF one
    <2>7. /\ buckets \o one \in Seq(Bucket)
          /\ PointsIn(buckets \o one) = PointsIn(buckets) + row.delta
        BY <2>6, PointsOfBoth
    <2>8. Beyond(row) = 0
        BY <1>3 DEF Beyond
    <2> QED
        BY <1>1, <2>1, <2>5, <2>7, <2>8 DEF one
<1> QED
    BY <1>2, <1>3

-----------------------------------------------------------------------------
(* The replay of a ledger. *)

\* Rows of a ledger, one for each number up to n.
Rows(rs, n) == n \in Nat /\ DOMAIN rs = 1 .. n /\ \A i \in 1 .. n : Readable(rs[i])

Deltas(rs) == [i \in DOMAIN rs |-> rs[i].delta]
Beyonds(rs) == [i \in DOMAIN rs |-> Beyond(rs[i])]

\* What the replay needs to know of rows.
LEMMA RowsAre ==
    ASSUME NEW rs, NEW n, Rows(rs, n)
    PROVE  /\ IsFiniteSet(DOMAIN rs) /\ Stamped(rs)
           /\ \A i \in 1 .. n : /\ Deltas(rs)[i] = rs[i].delta /\ Deltas(rs)[i] \in Int
                                /\ Beyonds(rs)[i] = Beyond(rs[i]) /\ Beyonds(rs)[i] \in Int
<1>1. IsFiniteSet(DOMAIN rs)
    BY AllFinite DEF Rows
<1>2. Stamped(rs)
    BY DEF Rows, Readable, Stamped
<1>3. \A i \in 1 .. n : Deltas(rs)[i] = rs[i].delta /\ Deltas(rs)[i] \in Int
    BY DEF Rows, Readable, Deltas
<1>4. \A i \in 1 .. n : Beyonds(rs)[i] = Beyond(rs[i]) /\ Beyonds(rs)[i] \in Int
    BY BeyondIs DEF Rows, Beyonds
<1> QED
    BY <1>1, <1>2, <1>3, <1>4

\* The turn of a row in the replay.
ApplyRow(rs, buckets, i) ==
    IF rs[i].delta > 0 THEN OpenBuckets(buckets, rs[i])
    ELSE IF rs[i].delta < 0 THEN DrainBuckets(buckets, rs[i])
    ELSE buckets

\* A row adds at least its points to the buckets, but for those that are in no bucket.
LEMMA ApplyRowAdds ==
    ASSUME NEW rs, NEW n, Rows(rs, n), NEW i \in 1 .. n, NEW buckets \in Seq(Bucket)
    PROVE  /\ ApplyRow(rs, buckets, i) \in Seq(Bucket)
           /\ PointsIn(ApplyRow(rs, buckets, i)) + Beyonds(rs)[i] >= PointsIn(buckets) + Deltas(rs)[i]
<1> DEFINE row == rs[i]
<1>1. Readable(row)
    BY DEF Rows
<1>2. Deltas(rs)[i] = row.delta /\ Beyonds(rs)[i] = Beyond(row) /\ Beyond(row) \in Int /\ row.delta \in Int
    BY RowsAre
<1> HIDE DEF row
<1>3. PointsIn(buckets) \in Int
    BY PointsInIsSigma
<1>4. CASE row.delta > 0
    <2>1. ApplyRow(rs, buckets, i) = OpenBuckets(buckets, row)
        BY <1>4 DEF ApplyRow, row
    <2>2. /\ OpenBuckets(buckets, row) \in Seq(Bucket)
          /\ PointsIn(OpenBuckets(buckets, row)) = PointsIn(buckets) + row.delta - Beyond(row)
        BY <1>1, <1>4, OpenAdds
    <2> QED
        BY <1>2, <1>3, <2>1, <2>2
<1>5. CASE ~(row.delta > 0)
    <2>1. Beyond(row) = 0
        BY <1>1, <1>5 DEF Readable, Beyond
    <2>2. CASE row.delta < 0
        <3>1. ApplyRow(rs, buckets, i) = DrainBuckets(buckets, row)
            BY <1>5, <2>2 DEF ApplyRow, row
        <3>2. /\ DrainBuckets(buckets, row) \in Seq(Bucket)
              /\ PointsIn(DrainBuckets(buckets, row)) >= PointsIn(buckets) + row.delta
            <4>1. row.delta \in Int /\ row.alloc \in Seq(Allocation)
                BY <1>1 DEF Readable
            <4> QED
                BY <2>2, <4>1, DrainTakes
        <3>3. PointsIn(DrainBuckets(buckets, row)) \in Int
            BY <3>2, PointsInIsSigma
        <3> QED
            BY <1>2, <1>3, <2>1, <3>1, <3>2, <3>3
    <2>3. CASE ~(row.delta < 0)
        <3>1. ApplyRow(rs, buckets, i) = buckets
            BY <1>5, <2>3 DEF ApplyRow, row
        <3>2. row.delta = 0
            BY <1>2, <1>5, <2>3
        <3> QED
            BY <1>2, <1>3, <2>1, <3>1, <3>2
    <2> QED
        BY <2>2, <2>3
<1> QED
    BY <1>4, <1>5

\* What the buckets hold after some of the rows.
Covers(buckets, rs, T) ==
    /\ buckets \in Seq(Bucket)
    /\ PointsIn(buckets) + Sigma(T, Beyonds(rs)) >= Sigma(T, Deltas(rs))

\* The buckets after the turns of each set of rows.
ReplaysInTurn(iter, rs, n) ==
    /\ iter[{}] = <<>>
    /\ \A T \in SUBSET (1 .. n) :
          /\ Covers(iter[T], rs, T)
          /\ T # {} => iter[T] = ApplyRow(rs, iter[T \ {LastRow(rs, T)}], LastRow(rs, T))

\* _rebuild_credit_buckets_from_ledger_rows goes from buckets to buckets, one row at a time.
LEMMA ReplayTurns ==
    ASSUME NEW rs, NEW n, Rows(rs, n)
    PROVE  \E iter : Replay(rs) = iter[1 .. n] /\ ReplaysInTurn(iter, rs, n)
<1> DEFINE S == DOMAIN rs
           A == Seq(Bucket)
           Choice(T) == LastRow(rs, T)
           last == [T \in SUBSET S |-> Choice(T)]
           F == [i \in S |-> [buckets \in A |-> ApplyRow(rs, buckets, i)]]
           IsIter(f) == f = [T \in SUBSET S |-> IF T = {} THEN <<>>
                                                ELSE ApplyRow(rs, f[T \ {Choice(T)}], Choice(T))]
           iter == CHOOSE f : IsIter(f)
<1>1. Replay(rs) = iter[S]
    BY DEF Replay, InTurn, MapThenFoldSet, ApplyRow, LastRow
<1>2. S = 1 .. n /\ IsFiniteSet(S) /\ Stamped(rs)
    BY RowsAre DEF Rows
<1>3. <<>> \in A /\ PointsIn(<<>>) = 0
    BY NoPoints
<1>4. \A T \in SUBSET S : T # {} => Choice(T) \in T
    BY <1>2, LastRowIs
<1> HIDE DEF S, Choice
<1>5. F \in [S -> [A -> A]]
    <2>1. \A i \in S, buckets \in A : ApplyRow(rs, buckets, i) \in A
        BY <1>2, ApplyRowAdds
    <2> HIDE DEF A
    <2> QED
        BY <2>1
<1>6. Chooses(last, S)
    BY <1>4 DEF Chooses
<1> HIDE DEF A
<1>7. PICK f : TakesInTurn(f, S, <<>>, A, F, last)
    <2> HIDE DEF F, last
    <2> QED
        BY <1>2, <1>3, <1>5, <1>6, TurnsExist
<1>8. IsIter(f)
    <2> DEFINE Step(T) == ApplyRow(rs, f[T \ {Choice(T)}], Choice(T))
    <2>1. ASSUME NEW T \in SUBSET S, T # {} PROVE f[T] = Step(T)
        <3>1. f[T] = F[last[T]][f[T \ {last[T]}]]
            BY <1>7, <2>1 DEF TakesInTurn
        <3>2. last[T] = Choice(T) /\ Choice(T) \in S
            BY <1>4, <2>1
        <3>3. f[T \ {Choice(T)}] \in A
            BY <1>7 DEF TakesInTurn
        <3> HIDE DEF last
        <3> QED
            BY <3>1, <3>2, <3>3
    <2>2. f = [T \in SUBSET S |-> f[T]] /\ f[{}] = <<>>
        BY <1>7 DEF TakesInTurn
    <2> HIDE DEF Step
    <2>3. f = [T \in SUBSET S |-> IF T = {} THEN <<>> ELSE Step(T)]
        BY <2>1, <2>2
    <2> QED
        BY <2>3 DEF Step
<1>9. IsIter(iter)
    <2> HIDE DEF IsIter
    <2> QED
        BY <1>8
<1> HIDE DEF iter
<1> DEFINE family == {T \in SUBSET S : Covers(iter[T], rs, T)}
<1>10. \A T \in SUBSET S : iter[T] = IF T = {} THEN <<>> ELSE ApplyRow(rs, iter[T \ {Choice(T)}], Choice(T))
    BY <1>9
<1>11. {} \in family
    <2>1. IsFiniteSet({})
        BY FS_EmptySet
    <2>2. Sigma({}, Beyonds(rs)) = 0 /\ Sigma({}, Deltas(rs)) = 0
        BY <2>1, SigmaTakes
    <2>3. iter[{}] = <<>>
        BY <1>10
    <2> DEFINE none == iter[{}]
    <2>4. none \in Seq(Bucket) /\ PointsIn(none) = 0
        BY <1>3, <2>3 DEF A
    <2> HIDE DEF none
    <2>5. Covers(none, rs, {})
        BY <2>2, <2>4 DEF Covers
    <2> QED
        BY <2>5 DEF none
<1>12. HasWithRest(family, last, S)
    <2>1. ASSUME NEW T \in SUBSET S, T # {}, T \ {last[T]} \in family PROVE T \in family
        <3> DEFINE i == Choice(T)
                   rest == T \ {i}
                   old == iter[rest]
        <3>1. last[T] = i /\ i \in T /\ i \in 1 .. n
            BY <1>2, <1>4, <2>1
        <3>2. iter[T] = ApplyRow(rs, old, i)
            BY <1>10, <2>1
        <3>3. Covers(old, rs, rest)
            BY <2>1, <3>1
        <3>4. /\ \A j \in 1 .. n : Deltas(rs)[j] \in Int /\ Beyonds(rs)[j] \in Int
            BY RowsAre
        <3>5. IsFiniteSet(T) /\ IsFiniteSet(rest) /\ \A j \in T : j \in 1 .. n
            BY <1>2, FS_Subset
        <3> HIDE DEF i
        <3>6. /\ Sigma(T, Deltas(rs)) = Sigma(rest, Deltas(rs)) + Deltas(rs)[i]
              /\ Sigma(T, Beyonds(rs)) = Sigma(rest, Beyonds(rs)) + Beyonds(rs)[i]
              /\ Sigma(rest, Deltas(rs)) \in Int /\ Sigma(rest, Beyonds(rs)) \in Int
            <4>1. \A j \in T : Deltas(rs)[j] \in Int /\ Beyonds(rs)[j] \in Int
                BY <3>4, <3>5
            <4>2. \A j \in rest : Deltas(rs)[j] \in Int /\ Beyonds(rs)[j] \in Int
                BY <4>1
            <4>3. Sigma(T, Deltas(rs)) = Sigma(rest, Deltas(rs)) + Deltas(rs)[i]
                BY <3>1, <3>5, <4>1, SigmaTakes
            <4>4. Sigma(T, Beyonds(rs)) = Sigma(rest, Beyonds(rs)) + Beyonds(rs)[i]
                BY <3>1, <3>5, <4>1, SigmaTakes
            <4> HIDE DEF rest
            <4>5. Sigma(rest, Deltas(rs)) \in Int /\ Sigma(rest, Beyonds(rs)) \in Int
                BY <3>5, <4>2, SigmaTakes
            <4> QED
                BY <4>3, <4>4, <4>5
        <3> HIDE DEF old, rest
        <3>7. old \in Seq(Bucket) /\ PointsIn(old) + Sigma(rest, Beyonds(rs)) >= Sigma(rest, Deltas(rs))
            BY <3>3 DEF Covers
        <3>8. /\ ApplyRow(rs, old, i) \in Seq(Bucket)
              /\ PointsIn(ApplyRow(rs, old, i)) + Beyonds(rs)[i] >= PointsIn(old) + Deltas(rs)[i]
            BY <3>1, <3>7, ApplyRowAdds
        <3>9. PointsIn(old) \in Int /\ PointsIn(ApplyRow(rs, old, i)) \in Int
            BY <3>7, <3>8, PointsInIsSigma
        <3>10. Deltas(rs)[i] \in Int /\ Beyonds(rs)[i] \in Int
            BY <3>1, <3>4
        <3>11. PointsIn(iter[T]) + Sigma(T, Beyonds(rs)) >= Sigma(T, Deltas(rs))
            BY <3>2, <3>6, <3>7, <3>8, <3>9, <3>10
        <3>12. Covers(iter[T], rs, T)
            BY <3>2, <3>8, <3>11 DEF Covers
        <3> QED
            BY <3>12
    <2> QED
        BY <2>1 DEF HasWithRest
<1> HIDE DEF family, last
<1>13. SUBSET S \subseteq family
    BY <1>2, <1>6, <1>11, <1>12, TakingOff
<1>14. \A T \in SUBSET S : Covers(iter[T], rs, T)
    BY <1>13 DEF family
<1>15. \A T \in SUBSET S : T # {} => iter[T] = ApplyRow(rs, iter[T \ {Choice(T)}], Choice(T))
    BY <1>10
<1>16. iter[{}] = <<>>
    BY <1>10
<1>17. ReplaysInTurn(iter, rs, n)
    BY <1>2, <1>14, <1>15, <1>16 DEF ReplaysInTurn, Choice
<1> QED
    BY <1>1, <1>2, <1>17

\* The buckets of a replay cover all its rows.
LEMMA ReplayCovers ==
    ASSUME NEW rs, NEW n, Rows(rs, n)
    PROVE  Covers(Replay(rs), rs, 1 .. n)
<1>1. PICK iter : Replay(rs) = iter[1 .. n] /\ ReplaysInTurn(iter, rs, n)
    BY ReplayTurns
<1>2. 1 .. n \in SUBSET (1 .. n)
    OBVIOUS
<1> QED
    BY <1>1, <1>2 DEF ReplaysInTurn

\* What refunds gave back beyond their charges.
LEMMA UnplacedIsSigma ==
    ASSUME NEW rs, NEW n, Rows(rs, n)
    PROVE  Unplaced(rs) = Sigma(1 .. n, Beyonds(rs))
<1> DEFINE v == Beyonds(rs)
           IsIter(f) == f = [S \in SUBSET DOMAIN rs |->
                                IF S = {} THEN 0 ELSE f[S \ {Max(S)}] + Beyond(rs[Max(S)])]
           iter == CHOOSE f : IsIter(f)
<1>1. n \in Nat /\ DOMAIN rs = 1 .. n /\ \A i \in 1 .. n : v[i] = Beyond(rs[i]) /\ v[i] \in Int
    <2>1. n \in Nat /\ DOMAIN rs = 1 .. n
        BY DEF Rows
    <2> QED
        BY <2>1, RowsAre
<1>2. Unplaced(rs) = iter[DOMAIN rs]
    BY DEF Unplaced, SumOver, FoldLeft, MapThenFoldSet, Max, Beyond, GivenBack
<1>3. ASSUME NEW f PROVE IsIter(f) <=> Sums(f, n, v)
    <2>1. \A S \in SUBSET (1 .. n) : S # {} => Max(S) \in 1 .. n
        BY <1>1, MaxOf
    <2> HIDE DEF v
    <2>2. \A S \in SUBSET (1 .. n) : S # {} => Beyond(rs[Max(S)]) = v[Max(S)]
        BY <1>1, <2>1
    <2>3. [S \in SUBSET (1 .. n) |-> IF S = {} THEN 0 ELSE f[S \ {Max(S)}] + Beyond(rs[Max(S)])]
             = [S \in SUBSET (1 .. n) |-> IF S = {} THEN 0 ELSE f[S \ {Max(S)}] + v[Max(S)]]
        BY <2>2
    <2> QED
        BY <1>1, <2>3 DEF Sums
<1> HIDE DEF IsIter, v
<1>4. (\E f : Sums(f, n, v)) => Sums(iter, n, v)
    BY <1>3
<1>5. iter[1 .. n] = Sigma(1 .. n, v) /\ Sigma(1 .. n, v) \in Int
    BY <1>1, <1>4, ChosenSum
<1> QED
    BY <1>1, <1>2, <1>5 DEF v

\* A chain ends at the total of its rows.
LEMMA ChainEnds ==
    ASSUME NEW rs, NEW n, Rows(rs, n), IsSeq(rs), Len(rs) = n, IsChain(0, rs)
    PROVE  EndOf(0, rs) = Sigma(1 .. n, Deltas(rs))
<1> DEFINE v == Deltas(rs)
           done == {k \in 0 .. n : Sigma(1 .. k, v) = IF k = 0 THEN 0 ELSE rs[k].after}
<1>1. n \in Nat /\ DOMAIN rs = 1 .. n
    BY DEF Rows
<1>2. \A i \in 1 .. n : v[i] = rs[i].delta /\ v[i] \in Int
    BY RowsAre
<1> HIDE DEF v
<1>3. \A i \in 1 .. n : rs[i].after = (IF i = 1 THEN 0 ELSE rs[i - 1].after) + v[i]
    BY <1>1, <1>2 DEF IsChain
<1>4. Sigma({}, v) = 0
    <2>1. IsFiniteSet({})
        BY FS_EmptySet
    <2> QED
        BY <2>1, SigmaTakes
<1>5. 0 \in done
    <2>1. 1 .. 0 = {} /\ 0 \in 0 .. n
        BY <1>1
    <2> QED
        BY <1>4, <2>1
<1>6. ASSUME NEW k \in 0 .. n - 1, k \in done PROVE k + 1 \in done
    <2>1. k \in Nat /\ k + 1 \in 1 .. n /\ k + 1 # 0 /\ (k + 1) - 1 = k /\ (k + 1 = 1 <=> k = 0)
        BY <1>1
    <2>2. Sigma(1 .. k + 1, v) = Sigma(1 .. k, v) + v[k + 1]
        <3>1. \A i \in 1 .. k : v[i] \in Int /\ v[i] = v[i]
            BY <1>1, <1>2
        <3>2. v[k + 1] \in Int
            BY <1>2, <2>1
        <3> QED
            BY <2>1, <3>1, <3>2, SigmaOfMore
    <2>3. rs[k + 1].after = (IF k + 1 = 1 THEN 0 ELSE rs[(k + 1) - 1].after) + v[k + 1]
        <3> DEFINE j == k + 1
        <3>1. j \in 1 .. n
            BY <2>1
        <3> HIDE DEF j
        <3>2. rs[j].after = (IF j = 1 THEN 0 ELSE rs[j - 1].after) + v[j]
            BY <1>3, <3>1
        <3> QED
            BY <3>2 DEF j
    <2>4. rs[k + 1].after = (IF k = 0 THEN 0 ELSE rs[k].after) + v[k + 1]
        BY <2>1, <2>3
    <2>5. Sigma(1 .. k, v) = IF k = 0 THEN 0 ELSE rs[k].after
        BY <1>6
    <2>6. Sigma(1 .. k + 1, v) = rs[k + 1].after
        BY <2>2, <2>4, <2>5
    <2>7. k + 1 \in 0 .. n
        BY <2>1
    <2> QED
        BY <2>1, <2>6, <2>7
<1>7. \A k \in 0 .. n - 1 : k \in done => k + 1 \in done
    BY <1>6
<1> HIDE DEF done
<1>8. 0 .. n \subseteq done
    BY <1>1, <1>5, <1>7, UpTo
<1>9. n \in done
    BY <1>1, <1>8
<1>10. Sigma(1 .. n, v) = IF n = 0 THEN 0 ELSE rs[n].after
    BY <1>9 DEF done
<1>11. rs = <<>> <=> n = 0
    BY LenProperties, EmptySeq DEF IsSeq
<1> QED
    BY <1>10, <1>11 DEF EndOf, v

\* The buckets of a replay hold what its rows come to, but for what is in no bucket.
LEMMA ReplayHolds ==
    ASSUME NEW rs, NEW n, Rows(rs, n), IsSeq(rs), Len(rs) = n, IsChain(0, rs)
    PROVE  PointsIn(Replay(rs)) + Unplaced(rs) >= EndOf(0, rs)
<1>1. Covers(Replay(rs), rs, 1 .. n)
    BY ReplayCovers
<1> QED
    BY <1>1, UnplacedIsSigma, ChainEnds DEF Covers

-----------------------------------------------------------------------------
(* What the code computes from a replay. *)

\* The turn of a lapsed bucket.
NoteBucket(buckets, found, i) == Append(found, buckets[i])

\* The buckets of grants that have lapsed and are not empty.
Lapsed(buckets, now) ==
    {i \in DOMAIN buckets : /\ buckets[i].kind = "subscription_grant"
                            /\ buckets[i].lapse <= now
                            /\ buckets[i].left > 0}

\* What is found with the turns of each set of buckets.
FindsInTurn(iter, buckets, now) ==
    /\ iter[{}] = <<>>
    /\ \A T \in SUBSET Lapsed(buckets, now) :
          /\ iter[T] \in Seq(Bucket)
          /\ T # {} => /\ LastConsumed(buckets, T) \in T
                       /\ iter[T] = NoteBucket(buckets, iter[T \ {LastConsumed(buckets, T)}],
                                               LastConsumed(buckets, T))

\* What has lapsed is found bucket by bucket.
LEMMA ExpiredTurns ==
    ASSUME NEW rs, NEW n, Rows(rs, n), NEW now
    PROVE  \E iter : /\ ExpiredBuckets(rs, now) = iter[Lapsed(Replay(rs), now)]
                     /\ FindsInTurn(iter, Replay(rs), now)
<1> DEFINE buckets == Replay(rs)
           S == Lapsed(buckets, now)
           A == Seq(Bucket)
           Choice(T) == LastConsumed(buckets, T)
           last == [T \in SUBSET S |-> Choice(T)]
           F == [i \in S |-> [found \in A |-> NoteBucket(buckets, found, i)]]
           IsIter(f) == f = [T \in SUBSET S |-> IF T = {} THEN <<>>
                                                ELSE NoteBucket(buckets, f[T \ {Choice(T)}], Choice(T))]
           iter == CHOOSE f : IsIter(f)
<1>0. buckets \in Seq(Bucket)
    BY ReplayCovers DEF Covers
<1>1. ExpiredBuckets(rs, now) = iter[S]
    BY DEF ExpiredBuckets, InTurn, MapThenFoldSet, NoteBucket, LastConsumed, Lapsed
<1> HIDE DEF buckets
<1>2. S \in SUBSET DOMAIN buckets /\ IsFiniteSet(S)
    BY <1>0, BucketsKeyed, FS_Subset DEF Lapsed
<1>3. <<>> \in A
    BY NoPoints
<1>4. \A T \in SUBSET S : T # {} => Choice(T) \in T
    BY <1>0, <1>2, LastConsumedIs
<1> HIDE DEF S, Choice
<1>5. \A i \in S, found \in A : NoteBucket(buckets, found, i) \in A
    <2>1. \A i \in S : buckets[i] \in Bucket
        BY <1>0, <1>2
    <2> QED
        BY <2>1 DEF NoteBucket
<1> HIDE DEF A
<1>6. F \in [S -> [A -> A]]
    BY <1>5
<1>7. Chooses(last, S)
    BY <1>4 DEF Chooses
<1>8. PICK f : TakesInTurn(f, S, <<>>, A, F, last)
    <2> HIDE DEF F, last
    <2> QED
        BY <1>2, <1>3, <1>6, <1>7, TurnsExist
<1>9. IsIter(f)
    <2> DEFINE Step(T) == NoteBucket(buckets, f[T \ {Choice(T)}], Choice(T))
    <2>1. ASSUME NEW T \in SUBSET S, T # {} PROVE f[T] = Step(T)
        <3>1. f[T] = F[last[T]][f[T \ {last[T]}]]
            BY <1>8, <2>1 DEF TakesInTurn
        <3>2. last[T] = Choice(T) /\ Choice(T) \in S
            BY <1>4, <2>1
        <3>3. f[T \ {Choice(T)}] \in A
            BY <1>8 DEF TakesInTurn
        <3> HIDE DEF last
        <3> QED
            BY <3>1, <3>2, <3>3
    <2>2. f = [T \in SUBSET S |-> f[T]] /\ f[{}] = <<>>
        BY <1>8 DEF TakesInTurn
    <2> HIDE DEF Step
    <2>3. f = [T \in SUBSET S |-> IF T = {} THEN <<>> ELSE Step(T)]
        BY <2>1, <2>2
    <2> QED
        BY <2>3 DEF Step
<1>10. IsIter(iter)
    <2> HIDE DEF IsIter
    <2> QED
        BY <1>9
<1> HIDE DEF iter
<1> DEFINE family == {T \in SUBSET S : iter[T] \in A}
<1>11. \A T \in SUBSET S : iter[T] = IF T = {} THEN <<>>
                                     ELSE NoteBucket(buckets, iter[T \ {Choice(T)}], Choice(T))
    BY <1>10
<1>12. {} \in family
    <2>1. iter[{}] = <<>>
        BY <1>11
    <2> QED
        BY <1>3, <2>1
<1>13. HasWithRest(family, last, S)
    <2>1. ASSUME NEW T \in SUBSET S, T # {}, T \ {last[T]} \in family PROVE T \in family
        <3>1. last[T] = Choice(T) /\ Choice(T) \in S
            BY <1>4, <2>1
        <3>2. iter[T] = NoteBucket(buckets, iter[T \ {Choice(T)}], Choice(T))
            BY <1>11, <2>1
        <3>3. iter[T \ {Choice(T)}] \in A
            BY <2>1, <3>1
        <3> QED
            BY <1>5, <3>1, <3>2, <3>3
    <2> QED
        BY <2>1 DEF HasWithRest
<1> HIDE DEF family, last
<1>14. SUBSET S \subseteq family
    BY <1>2, <1>7, <1>12, <1>13, TakingOff
<1>15. \A T \in SUBSET S : iter[T] \in Seq(Bucket)
    BY <1>14 DEF family, A
<1>16. \A T \in SUBSET S : T # {} => iter[T] = NoteBucket(buckets, iter[T \ {Choice(T)}], Choice(T))
    BY <1>11
<1>17. iter[{}] = <<>>
    BY <1>11
<1>18. FindsInTurn(iter, buckets, now)
    BY <1>4, <1>15, <1>16, <1>17 DEF FindsInTurn, S, Choice
<1> QED
    BY <1>1, <1>18 DEF S, buckets

\* What has lapsed is a sequence of buckets.
LEMMA ExpiredAreBuckets ==
    ASSUME NEW rs, NEW n, Rows(rs, n), NEW now
    PROVE  ExpiredBuckets(rs, now) \in Seq(Bucket)
<1>1. PICK iter : /\ ExpiredBuckets(rs, now) = iter[Lapsed(Replay(rs), now)]
                  /\ FindsInTurn(iter, Replay(rs), now)
    BY ExpiredTurns
<1>2. Lapsed(Replay(rs), now) \in SUBSET Lapsed(Replay(rs), now)
    OBVIOUS
<1> QED
    BY <1>1, <1>2 DEF FindsInTurn

\* The turn of an allocation that is given back.
GiveBackOf(state, a) ==
    LET back == Smaller(state.rest, a.points)
    IN  IF back = 0 THEN state
        ELSE [rest |-> state.rest - back, back |-> Append(state.back, [a EXCEPT !.points = back])]

Returns == [rest : Nat, back : Seq(Allocation)]

\* A turn gives back an allocation, or nothing.
LEMMA GiveBackIs ==
    ASSUME NEW state \in Returns, NEW a \in Allocation
    PROVE  GiveBackOf(state, a) \in Returns
<1> DEFINE back == Smaller(state.rest, a.points)
           new == [a EXCEPT !.points = back]
<1>1. state.rest \in Nat /\ state.back \in Seq(Allocation) /\ a.points \in Nat
    BY DEF Returns, Allocation
<1>2. back \in Nat /\ back <= state.rest
    BY <1>1, SmallerIs
<1> HIDE DEF back
<1>3. new \in Allocation
    BY <1>2 DEF Allocation
<1> HIDE DEF new
<1>4. Append(state.back, new) \in Seq(Allocation) /\ state.rest - back \in Nat
    BY <1>1, <1>2, <1>3
<1>5. GiveBackOf(state, a) = IF back = 0 THEN state
                             ELSE [rest |-> state.rest - back, back |-> Append(state.back, new)]
    BY DEF GiveBackOf, back, new
<1> QED
    BY <1>4, <1>5 DEF Returns

ReturnAll(start, alloc) == FoldLeft(GiveBackOf, start, alloc)

\* What is given back after the turns of each set of allocations.
ReturnsInTurn(iter, start, alloc) ==
    /\ iter[{}] = start
    /\ \A T \in SUBSET (1 .. Len(alloc)) :
          /\ iter[T] \in Returns
          /\ T # {} => iter[T] = GiveBackOf(iter[T \ {Max(T)}], alloc[Max(T)])

\* All turns go from state to state.
LEMMA ReturnTurns ==
    ASSUME NEW start \in Returns, NEW alloc \in Seq(Allocation)
    PROVE  \E iter : /\ ReturnAll(start, alloc) = iter[1 .. Len(alloc)]
                     /\ ReturnsInTurn(iter, start, alloc)
<1> DEFINE n == Len(alloc)
           D == 1 .. n
           A == Returns
           last == [T \in SUBSET D |-> Max(T)]
           F == [i \in D |-> [state \in A |-> GiveBackOf(state, alloc[i])]]
           IsIter(f) == f = [T \in SUBSET D |-> IF T = {} THEN start
                                                ELSE GiveBackOf(f[T \ {Max(T)}], alloc[Max(T)])]
           iter == CHOOSE f : IsIter(f)
<1>1. n \in Nat /\ DOMAIN alloc = D /\ \A i \in D : alloc[i] \in Allocation
    OBVIOUS
<1>2. ReturnAll(start, alloc) = iter[D]
    <2>1. ReturnAll(start, alloc) = iter[DOMAIN alloc]
        BY <1>1 DEF ReturnAll, FoldLeft, MapThenFoldSet, Max
    <2> QED
        BY <1>1, <2>1
<1>3. IsFiniteSet(D)
    BY <1>1, AllFinite
<1>4. \A T \in SUBSET D : T # {} => Max(T) \in T
    BY <1>1, MaxOf
<1> HIDE DEF D
<1>5. \A i \in D, state \in A : GiveBackOf(state, alloc[i]) \in A
    BY <1>1, GiveBackIs
<1>6. start \in A
    OBVIOUS
<1> HIDE DEF A
<1>7. F \in [D -> [A -> A]]
    BY <1>5
<1>8. Chooses(last, D)
    BY <1>4 DEF Chooses
<1>9. PICK f : TakesInTurn(f, D, start, A, F, last)
    <2> HIDE DEF F, last
    <2> QED
        BY <1>3, <1>6, <1>7, <1>8, TurnsExist
<1>10. IsIter(f)
    <2> DEFINE Step(T) == GiveBackOf(f[T \ {Max(T)}], alloc[Max(T)])
    <2>1. ASSUME NEW T \in SUBSET D, T # {} PROVE f[T] = Step(T)
        <3>1. f[T] = F[last[T]][f[T \ {last[T]}]]
            BY <1>9, <2>1 DEF TakesInTurn
        <3>2. last[T] = Max(T) /\ Max(T) \in D
            BY <1>4, <2>1
        <3>3. f[T \ {Max(T)}] \in A
            BY <1>9 DEF TakesInTurn
        <3> HIDE DEF last
        <3> QED
            BY <3>1, <3>2, <3>3
    <2>2. f = [T \in SUBSET D |-> f[T]] /\ f[{}] = start
        BY <1>9 DEF TakesInTurn
    <2> HIDE DEF Step
    <2>3. f = [T \in SUBSET D |-> IF T = {} THEN start ELSE Step(T)]
        BY <2>1, <2>2
    <2> QED
        BY <2>3 DEF Step
<1>11. IsIter(iter)
    <2> HIDE DEF IsIter
    <2> QED
        BY <1>10
<1> HIDE DEF iter
<1> DEFINE family == {T \in SUBSET D : iter[T] \in A}
<1>12. \A T \in SUBSET D : iter[T] = IF T = {} THEN start ELSE GiveBackOf(iter[T \ {Max(T)}], alloc[Max(T)])
    BY <1>11
<1>13. {} \in family
    BY <1>6, <1>12
<1>14. HasWithRest(family, last, D)
    <2>1. ASSUME NEW T \in SUBSET D, T # {}, T \ {last[T]} \in family PROVE T \in family
        <3>1. last[T] = Max(T) /\ Max(T) \in D
            BY <1>4, <2>1
        <3>2. iter[T] = GiveBackOf(iter[T \ {Max(T)}], alloc[Max(T)])
            BY <1>12, <2>1
        <3>3. iter[T \ {Max(T)}] \in A
            BY <2>1, <3>1
        <3> QED
            BY <1>5, <3>1, <3>2, <3>3
    <2> QED
        BY <2>1 DEF HasWithRest
<1> HIDE DEF family, last
<1>15. SUBSET D \subseteq family
    BY <1>3, <1>8, <1>13, <1>14, TakingOff
<1>16. \A T \in SUBSET D : iter[T] \in Returns
    BY <1>15 DEF family, A
<1>17. iter[{}] = start
    BY <1>12
<1>18. ReturnsInTurn(iter, start, alloc)
    BY <1>12, <1>16, <1>17 DEF ReturnsInTurn, D
<1> QED
    BY <1>2, <1>18 DEF D

\* So all of them give back allocations.
LEMMA ReturnAllIs ==
    ASSUME NEW start \in Returns, NEW alloc \in Seq(Allocation)
    PROVE  ReturnAll(start, alloc) \in Returns
<1>1. PICK iter : /\ ReturnAll(start, alloc) = iter[1 .. Len(alloc)]
                  /\ ReturnsInTurn(iter, start, alloc)
    BY ReturnTurns
<1>2. 1 .. Len(alloc) \in SUBSET (1 .. Len(alloc))
    OBVIOUS
<1> QED
    BY <1>1, <1>2 DEF ReturnsInTurn

\* _resolve_refund_source_allocations returns allocations.
LEMMA RefundAllocationsAre ==
    ASSUME NEW rs, NEW n, Rows(rs, n), NEW ref, NEW points \in Nat
    PROVE  RefundAllocations(rs, ref, points) \in Seq(Allocation)
<1> DEFINE charges == {i \in DOMAIN rs : rs[i].kind = "consume" /\ rs[i].ref = ref}
           latest == LastRow(rs, charges)
           start == [rest |-> points, back |-> <<>>]
<1>1. RefundAllocations(rs, ref, points) =
          IF charges = {} THEN <<>> ELSE ReturnAll(start, rs[latest].alloc).back
    BY DEF RefundAllocations, ReturnAll, GiveBackOf, LastRow
<1>2. <<>> \in Seq(Allocation)
    OBVIOUS
<1>3. start \in Returns
    BY <1>2 DEF Returns
<1> HIDE DEF start
<1>4. CASE charges # {}
    <2>1. charges \in SUBSET DOMAIN rs /\ IsFiniteSet(DOMAIN rs) /\ Stamped(rs)
        BY RowsAre
    <2> HIDE DEF charges
    <2>2. latest \in DOMAIN rs
        BY <1>4, <2>1, LastRowIs
    <2> HIDE DEF latest
    <2>3. rs[latest].alloc \in Seq(Allocation)
        BY <2>2 DEF Rows, Readable
    <2>4. ReturnAll(start, rs[latest].alloc) \in Returns
        BY <1>3, <2>3, ReturnAllIs
    <2> QED
        BY <1>1, <1>4, <2>4 DEF Returns
<1> QED
    BY <1>1, <1>2, <1>4

\* _preview_credit_consumption_allocations returns allocations.
LEMMA PreviewTakes ==
    ASSUME NEW rs, NEW n, Rows(rs, n), NEW points \in Nat
    PROVE  Preview(rs, points).taken \in Seq(Allocation)
<1>1. Replay(rs) \in Seq(Bucket)
    BY ReplayCovers DEF Covers
<1>2. Drawn(Allocate(Replay(rs), points, NoId, NoSource), Replay(rs), points)
    BY <1>1, AllocateDraws
<1> QED
    BY <1>2 DEF Preview, Drawn

\* What a charge pays for one event.
LEMMA EventPointsAre ==
    ASSUME NEW q, IsQuote(q), NEW i \in DOMAIN q
    PROVE  EventPoints(q, i) \in Nat
<1>1. q \in Seq(Nat) /\ DOMAIN q = 1 .. Len(q) /\ Len(q) \in Nat
    BY DEF IsQuote
<1>2. CASE i = 1
    BY <1>1, <1>2 DEF EventPoints
<1>3. CASE i # 1
    <2>1. i - 1 \in DOMAIN q /\ i - 1 <= i
        BY <1>1, <1>3
    <2>2. q[i - 1] <= q[i] /\ q[i] \in Nat /\ q[i - 1] \in Nat
        BY <1>1, <2>1 DEF IsQuote
    <2> QED
        BY <1>3, <2>2 DEF EventPoints
<1> QED
    BY <1>2, <1>3

-----------------------------------------------------------------------------
(* The types of a transaction, with what the replay needs to know of rows. *)

IsRow(r) == r \in RowType /\ (r.kind = "refund" => r.delta > 0)
AllRows(rs) == \A i \in DOMAIN rs : IsRow(rs[i])

Noted(h) == task[h] \in Tasks /\ due[h] \in Seq(Bucket) /\ AllRows(rows[h])

RecordInv ==
    /\ clock \in 0 .. MaxClock
    /\ began \in [Handlers -> 0 .. MaxClock] /\ asOf \in [Handlers -> 0 .. MaxClock]
    /\ DOMAIN due = Handlers
    /\ \A h \in Handlers : Noted(h)
    /\ \A u \in Users : AllRows(ledger[u])

\* A row of the ledger can be replayed.
LEMMA RowIsReadable ==
    ASSUME NEW r, IsRow(r)
    PROVE  Readable(r)
<1>1. /\ r.kind \in Kinds /\ r.delta \in Int /\ r.ref \in Nat /\ r.at \in Nat
      /\ r.tie \in Ties /\ r.lapse \in Nat /\ r.alloc \in Seq(Allocation)
    BY DEF IsRow, RowType
<1>2. r.tie \in Nat
    BY <1>1, ConstantsAssumption
<1> QED
    BY <1>1, <1>2 DEF IsRow, Readable

\* So can a ledger.
LEMMA RowsOfSeq ==
    ASSUME NEW rs, IsSeq(rs), AllRows(rs)
    PROVE  Rows(rs, Len(rs))
<1>1. Len(rs) \in Nat /\ DOMAIN rs = 1 .. Len(rs)
    BY LenProperties DEF IsSeq
<1> QED
    BY <1>1, RowIsReadable DEF AllRows, Rows

\* What a transaction sees are rows.
LEMMA VisibleAreRows ==
    ASSUME AccountInv, RecordInv, NEW h \in Handlers, User(h) \in Users
    PROVE  IsSeq(Visible(h)) /\ AllRows(Visible(h))
<1> DEFINE s == ledger[User(h)]
           t == rows[h]
<1>1. IsSeq(s) /\ IsSeq(t) /\ AllRows(s) /\ AllRows(t)
    BY DEF AccountInv, Typed, RecordInv, Noted
<1> HIDE DEF s, t
<1>2. /\ IsSeq(s \o t) /\ DOMAIN (s \o t) = 1 .. Len(s) + Len(t)
      /\ \A i \in 1 .. Len(s) : (s \o t)[i] = s[i]
      /\ \A i \in 1 .. Len(t) : (s \o t)[Len(s) + i] = t[i]
    BY <1>1, ConcatIsSeq
<1>3. /\ Len(s) \in Nat /\ DOMAIN s = 1 .. Len(s)
      /\ Len(t) \in Nat /\ DOMAIN t = 1 .. Len(t)
    BY <1>1, LenProperties DEF IsSeq
<1>4. ASSUME NEW i \in 1 .. Len(s) + Len(t) PROVE IsRow((s \o t)[i])
    <2>1. CASE i <= Len(s)
        BY <1>1, <1>2, <1>3, <2>1 DEF AllRows
    <2>2. CASE ~(i <= Len(s))
        <3>1. i - Len(s) \in 1 .. Len(t) /\ Len(s) + (i - Len(s)) = i
            BY <1>3, <2>2
        <3>2. (s \o t)[Len(s) + (i - Len(s))] = t[i - Len(s)]
            BY <1>2, <3>1
        <3> QED
            BY <1>1, <1>3, <3>1, <3>2 DEF AllRows
    <2> QED
        BY <2>1, <2>2
<1>5. AllRows(s \o t)
    BY <1>2, <1>4 DEF AllRows
<1> QED
    BY <1>2, <1>5 DEF Visible, s, t

\* What a transaction sees can be replayed.
LEMMA VisibleRows ==
    ASSUME AccountInv, RecordInv, NEW h \in Handlers, User(h) \in Users
    PROVE  Rows(Visible(h), Len(Visible(h)))
BY VisibleAreRows, RowsOfSeq

\* Nothing but what a handler has of its own changes, and it keeps its types.
LEMMA KeepsRecord ==
    ASSUME RecordInv, UNCHANGED <<clock, task, began, ledger>>,
           asOf' \in [Handlers -> 0 .. MaxClock], DOMAIN due' = Handlers,
           \A h \in Handlers : due'[h] \in Seq(Bucket) /\ AllRows(rows'[h])
    PROVE  RecordInv'
<1>1. \A h \in Handlers : Noted(h)'
    BY DEF RecordInv, Noted
<1> QED
    BY <1>1 DEF RecordInv

\* Nothing of it changes.
LEMMA SameRecord ==
    ASSUME RecordInv, UNCHANGED <<clock, task, began, ledger, asOf, due, rows>>
    PROVE  RecordInv'
<1>1. \A h \in Handlers : Noted(h)'
    BY DEF RecordInv, Noted
<1> QED
    BY <1>1 DEF RecordInv

\* What a task says, by its type.
LEMMA TaskSays ==
    ASSUME NEW t \in Tasks
    PROVE  /\ t.user \in Users
           /\ t.type = "grant" => t.kind \in {g.kind : g \in Grants} /\ t.points \in Nat \ {0}
           /\ t.type = "refund" => t.ref \in Nat /\ t.points \in Nat \ {0}
           /\ t.type = "adjust" => t.points \in Int
           /\ t.type = "charge" => t.quotes \in Charges
<1>1. CASE t \in [type : {"charge"}, user : Users, quotes : Charges]
    BY <1>1
<1>2. CASE t \in [type : {"grant"}, user : Users, kind : {g.kind : g \in Grants},
                  points : {g.points : g \in Grants}]
    <2>1. t.type = "grant" /\ t.user \in Users /\ t.kind \in {g.kind : g \in Grants}
          /\ t.points \in {g.points : g \in Grants}
        BY <1>2
    <2>2. t.points \in Nat \ {0}
        BY <2>1, ConstantsAssumption
    <2> QED
        BY <2>1, <2>2
<1>3. CASE t \in [type : {"refund"}, user : Users, ref : Nat, points : Refunds]
    BY <1>3, ConstantsAssumption
<1>4. CASE t \in [type : {"adjust"}, user : Users, points : Adjustments]
    BY <1>4, ConstantsAssumption
<1>5. CASE t \in [type : {"view"}, user : Users]
    BY <1>5
<1> QED
    BY <1>1, <1>2, <1>3, <1>4, <1>5 DEF Tasks

\* A row that is written is a row.
LEMMA WriteKeepsRows ==
    ASSUME AccountInv, RecordInv, NEW h \in Handlers, total'[h] \in Int,
           NEW kind \in Kinds, NEW delta \in Int, NEW ref \in Nat, NEW lapse \in Nat,
           NEW alloc \in Seq(Allocation), kind = "refund" => delta > 0,
           Write(h, kind, delta, ref, lapse, alloc)
    PROVE  \A g \in Handlers : AllRows(rows'[g])
<1>1. PICK tie \in Ties :
          rows' = [rows EXCEPT ![h] =
                       Append(@, Row(h, kind, delta, ref, tie, lapse, alloc))]
    BY DEF Write
<1> DEFINE e == Row(h, kind, delta, ref, tie, lapse, alloc)
           old == rows[h]
<1>2. began[h] \in Nat
    BY DEF RecordInv
<1>3. e = [kind |-> kind, delta |-> delta, after |-> total'[h], ref |-> ref, at |-> began[h],
           tie |-> tie, lapse |-> lapse, alloc |-> alloc]
    BY DEF Row
<1> HIDE DEF e
<1>4. e \in RowType /\ e.kind = kind /\ e.delta = delta
    BY <1>2, <1>3 DEF RowType
<1>5. IsRow(e)
    BY <1>4 DEF IsRow
<1>6. DOMAIN rows = Handlers /\ IsSeq(old) /\ AllRows(old)
    BY DEF AccountInv, Typed, RecordInv, Noted
<1>7. rows'[h] = Append(old, e)
    BY <1>1, <1>6, Zenon DEF e
<1> HIDE DEF old
<1>8. AllRows(Append(old, e))
    <2>1. Append(old, e)[Len(old) + 1] = e
        BY <1>6, AppendIsSeq
    <2>2. \A i \in 1 .. Len(old) : Append(old, e)[i] = old[i]
        BY <1>6, AppendIsSeq
    <2>3. DOMAIN Append(old, e) = 1 .. (Len(old) + 1)
        BY <1>6, AppendIsSeq
    <2>4. Len(old) \in Nat /\ DOMAIN old = 1 .. Len(old)
        BY <1>6, LenProperties DEF IsSeq
    <2>5. \A i \in 1 .. Len(old) + 1 : i \in 1 .. Len(old) \/ i = Len(old) + 1
        BY <2>4
    <2> QED
        BY <1>5, <1>6, <2>1, <2>2, <2>3, <2>4, <2>5 DEF AllRows
<1>9. \A g \in Handlers \ {h} : rows'[g] = rows[g] /\ AllRows(rows[g])
    BY <1>1, <1>6 DEF RecordInv, Noted
<1> QED
    BY <1>7, <1>8, <1>9

-----------------------------------------------------------------------------
(* Every step keeps them. *)

\* No transaction has begun.
LEMMA InitRecord == Init => RecordInv
<1> SUFFICES ASSUME Init PROVE RecordInv
    OBVIOUS
<1>1. clock \in 0 .. MaxClock /\ 0 \in 0 .. MaxClock
    BY ConstantsAssumption DEF Init
<1>2. <<>> \in Seq(Bucket) /\ AllRows(<<>>)
    BY NoPoints DEF AllRows
<1>3. NoTask \in Tasks
    <2>1. PICK u \in Users : TRUE
        BY ConstantsAssumption
    <2>2. (CHOOSE v \in Users : TRUE) \in Users
        BY <2>1
    <2> QED
        BY <2>2 DEF NoTask, Tasks
<1>4. \A h \in Handlers : Noted(h)
    BY <1>2, <1>3 DEF Init, Noted
<1>5. \A u \in Users : AllRows(ledger[u])
    BY <1>2 DEF Init
<1> QED
    BY <1>1, <1>4, <1>5 DEF Init, RecordInv

\* What can be asked for is a task.
LEMMA RequestsAreTasks ==
    ASSUME AccountInv, RecordInv, NEW u \in Users
    PROVE  Requests(u) \subseteq Tasks
<1> SUFFICES ASSUME NEW t \in Requests(u) PROVE t \in Tasks
    OBVIOUS
<1>1. ConsumedRefs(u) \subseteq Nat
    <2>1. \A i \in DOMAIN ledger[u] : ledger[u][i].ref \in Nat
        BY DEF RecordInv, AllRows, IsRow, RowType
    <2> QED
        BY <2>1 DEF ConsumedRefs
<1>2. CASE t \in [type : {"charge"}, user : {u}, quotes : Charges]
    BY <1>2 DEF Tasks
<1>3. CASE t \in {[type |-> "grant", user |-> u, kind |-> g.kind, points |-> g.points] : g \in Grants}
    BY <1>3 DEF Tasks
<1>4. CASE t \in [type : {"refund"}, user : {u}, ref : ConsumedRefs(u), points : Refunds]
    BY <1>1, <1>4 DEF Tasks
<1>5. CASE t \in [type : {"adjust"}, user : {u}, points : Adjustments]
    BY <1>5 DEF Tasks
<1>6. CASE t \in [type : {"view"}, user : {u}]
    BY <1>6 DEF Tasks
<1> QED
    BY <1>2, <1>3, <1>4, <1>5, <1>6 DEF Requests

\* The passing of time keeps the types.
LEMMA TickKeepsRecord ==
    ASSUME RecordInv, Tick
    PROVE  RecordInv'
<1>1. \A h \in Handlers : Noted(h)'
    BY DEF RecordInv, Noted, Tick
<1>2. clock' \in 0 .. MaxClock
    BY ConstantsAssumption DEF RecordInv, Tick
<1> QED
    BY <1>1, <1>2 DEF RecordInv, Tick

\* A request that begins keeps the types.
LEMMA BeginKeepsRecord ==
    ASSUME AccountInv, RecordInv, NEW h \in Handlers, Begin(h)
    PROVE  RecordInv'
<1>1. PICK u \in Users : \E t \in Requests(u) : task' = [task EXCEPT ![h] = t]
    BY DEF Begin
<1>2. PICK t \in Requests(u) : task' = [task EXCEPT ![h] = t]
    BY <1>1
<1>3. t \in Tasks
    BY <1>2, RequestsAreTasks
<1>4. \A g \in Handlers : task'[g] \in Tasks
    BY <1>2, <1>3 DEF AccountInv, Typed, RecordInv, Noted
<1>5. \A g \in Handlers : Noted(g)'
    BY <1>4 DEF RecordInv, Noted, Begin
<1>6. clock + 1 \in 0 .. MaxClock /\ clock' = clock + 1
    BY ConstantsAssumption DEF RecordInv, Begin
<1>7. began' \in [Handlers -> 0 .. MaxClock]
    BY <1>6 DEF RecordInv, Begin
<1> QED
    BY <1>5, <1>6, <1>7 DEF RecordInv, Begin

\* The expiry keeps the types (_reconcile_expired_subscription_points).
LEMMA ExpireKeepsRecord ==
    ASSUME AccountInv, AccountInv', RecordInv, NEW h \in Handlers, Expire(h)
    PROVE  RecordInv'
<1>1. CASE ScanExpired(h)
    <2>1. User(h) \in Users
        BY <1>1 DEF AccountInv, Asked, ScanExpired
    <2> DEFINE rs == ledger[User(h)]
    <2>2. Rows(rs, Len(rs))
        BY <2>1, RowsOfSeq DEF AccountInv, Typed, RecordInv
    <2>3. ExpiredBuckets(rs, clock) \in Seq(Bucket)
        BY <2>2, ExpiredAreBuckets
    <2>4. due' = [due EXCEPT ![h] = ExpiredBuckets(rs, clock)]
        BY <1>1 DEF ScanExpired
    <2> HIDE DEF rs
    <2>5. DOMAIN due' = Handlers /\ \A g \in Handlers : due'[g] \in Seq(Bucket)
        BY <2>3, <2>4 DEF RecordInv, Noted
    <2>6. asOf' \in [Handlers -> 0 .. MaxClock]
        BY <1>1 DEF ScanExpired, RecordInv
    <2>7. UNCHANGED <<clock, task, began, ledger, rows>>
        BY <1>1 DEF ScanExpired
    <2> QED
        BY <2>5, <2>6, <2>7, KeepsRecord DEF RecordInv, Noted
<1>2. CASE NothingExpired(h)
    BY <1>2, SameRecord DEF NothingExpired
<1>3. CASE LockForExpiry(h)
    BY <1>3, SameRecord DEF LockForExpiry
<1>4. CASE ExpireBucket(h)
    <2>1. PICK points \in 1..total[h], tie \in Ties :
              rows' = [rows EXCEPT ![h] =
                    Append(@, Row(h, "subscription_expire", -points, Head(due[h]).id, tie,
                                  Never, <<>>))]
        BY <1>4 DEF ExpireBucket
    <2>2. Write(h, "subscription_expire", -points, Head(due[h]).id, Never, <<>>)
        BY <2>1 DEF Write
    <2>3. due[h] \in Seq(Bucket) /\ due[h] # <<>>
        BY <1>4 DEF RecordInv, Noted, ExpireBucket
    <2>4. Head(due[h]) \in Bucket /\ Tail(due[h]) \in Seq(Bucket)
        BY <2>3
    <2>5. Head(due[h]).id \in Nat
        BY <2>4 DEF Bucket
    <2>6. -points \in Int /\ total'[h] \in Int
        BY DEF AccountInv, Typed
    <2>7. "subscription_expire" \in Kinds /\ Never \in Nat /\ <<>> \in Seq(Allocation)
        BY NeverAssumption DEF Kinds
    <2>8. \A g \in Handlers : AllRows(rows'[g])
        <3> DEFINE ref == Head(due[h]).id
                   kind == "subscription_expire"
                   none == <<>>
        <3>1. kind # "refund" /\ kind \in Kinds /\ ref \in Nat /\ none \in Seq(Allocation)
            BY <2>5, <2>7
        <3>2. Write(h, kind, -points, ref, Never, none)
            BY <2>2
        <3> HIDE DEF ref, kind, none
        <3> QED
            BY <2>6, <2>7, <3>1, <3>2, WriteKeepsRows
    <2>9. due' = [due EXCEPT ![h] = Tail(@)] /\ UNCHANGED <<clock, task, began, ledger, asOf>>
        BY <1>4 DEF ExpireBucket
    <2>10. DOMAIN due' = Handlers /\ \A g \in Handlers : due'[g] \in Seq(Bucket)
        BY <2>4, <2>9 DEF RecordInv, Noted
    <2> QED
        BY <2>8, <2>9, <2>10, KeepsRecord DEF RecordInv
<1>5. CASE ExpiryDone(h)
    <2>1. due' = [due EXCEPT ![h] = <<>>] /\ UNCHANGED <<clock, task, began, ledger, asOf, rows>>
        BY <1>5 DEF ExpiryDone
    <2>2. DOMAIN due' = Handlers /\ \A g \in Handlers : due'[g] \in Seq(Bucket)
        BY <2>1, NoPoints DEF RecordInv, Noted
    <2> QED
        BY <2>1, <2>2, KeepsRecord DEF RecordInv, Noted
<1> QED
    BY <1>1, <1>2, <1>3, <1>4, <1>5 DEF Expire

\* A handler that has written a row, and nothing else of its record.
LEMMA OneRowKeepsRecord ==
    ASSUME RecordInv, UNCHANGED <<clock, task, began, ledger, asOf, due>>,
           \A g \in Handlers : AllRows(rows'[g])
    PROVE  RecordInv'
BY KeepsRecord DEF RecordInv, Noted

\* What was asked for keeps the types.
LEMMA OperateKeepsRecord ==
    ASSUME AccountInv, AccountInv', RecordInv, NEW h \in Handlers, Operate(h)
    PROVE  RecordInv'
<1>0. /\ total'[h] \in Int /\ began[h] \in Nat /\ Never \in Nat /\ <<>> \in Seq(Allocation)
      /\ task[h] \in Tasks
    BY NeverAssumption DEF AccountInv, Typed, RecordInv, Noted
<1>1. CASE ViewAccount(h)
    BY <1>1, SameRecord DEF ViewAccount
<1>2. CASE GrantPoints(h)
    <2> DEFINE kind == task[h].kind
               points == task[h].points
               lapse == IF task[h].kind = "subscription_grant" THEN began[h] + Period ELSE Never
               none == <<>>
    <2>1. kind \in Kinds /\ points \in Int /\ points > 0
        BY <1>0, <1>2, TaskSays DEF GrantPoints, Kinds
    <2>2. lapse \in Nat /\ none \in Seq(Allocation)
        BY <1>0, ConstantsAssumption
    <2>3. Write(h, kind, points, began[h], lapse, none)
        BY <1>2 DEF GrantPoints
    <2> HIDE DEF kind, points, lapse, none
    <2>4. \A g \in Handlers : AllRows(rows'[g])
        BY <1>0, <2>1, <2>2, <2>3, WriteKeepsRows
    <2> QED
        BY <1>2, <2>4, OneRowKeepsRecord DEF GrantPoints
<1>3. CASE AdjustPoints(h)
    <2> DEFINE kind == "admin_adjustment"
               points == task[h].points
               none == <<>>
    <2>1. kind \in Kinds /\ kind # "refund" /\ points \in Int /\ none \in Seq(Allocation)
        BY <1>0, <1>3, TaskSays DEF AdjustPoints, Kinds
    <2>2. Write(h, kind, points, began[h], Never, none)
        BY <1>3 DEF AdjustPoints
    <2> HIDE DEF kind, points, none
    <2>3. \A g \in Handlers : AllRows(rows'[g])
        BY <1>0, <2>1, <2>2, WriteKeepsRows
    <2> QED
        BY <1>3, <2>3, OneRowKeepsRecord DEF AdjustPoints
<1>4. CASE RefundPoints(h)
    <2> DEFINE kind == "refund"
               points == task[h].points
               ref == task[h].ref
               alloc == RefundAllocations(Visible(h), ref, points)
    <2>1. kind \in Kinds /\ points \in Int /\ points > 0 /\ points \in Nat /\ ref \in Nat
        BY <1>0, <1>4, TaskSays DEF RefundPoints, Kinds
    <2>2. User(h) \in Users
        BY <1>4 DEF AccountInv, Asked, RefundPoints
    <2>3. Rows(Visible(h), Len(Visible(h)))
        BY <2>2, VisibleRows
    <2>4. alloc \in Seq(Allocation)
        <3> HIDE DEF points, ref
        <3> QED
            BY <2>1, <2>3, RefundAllocationsAre
    <2>5. Write(h, kind, points, ref, Never, alloc)
        BY <1>4 DEF RefundPoints
    <2> HIDE DEF kind, points, ref, alloc
    <2>6. \A g \in Handlers : AllRows(rows'[g])
        BY <1>0, <2>1, <2>4, <2>5, WriteKeepsRows
    <2> QED
        BY <1>4, <2>6, OneRowKeepsRecord DEF RefundPoints
<1>5. CASE CheckFunds(h)
    BY <1>5, SameRecord DEF CheckFunds
<1>6. CASE ChargeEvent(h)
    <2>1. PICK q \in task[h].quotes :
              LET points == EventPoints(q, charged[h] + 1)
              IN  Write(h, "consume", -points, began[h], Never, Preview(Visible(h), points).taken)
        BY <1>6 DEF ChargeEvent
    <2> DEFINE points == EventPoints(q, charged[h] + 1)
               alloc == Preview(Visible(h), points).taken
               kind == "consume"
    <2>2. step[h] = "charging" /\ EventsLeft(h) /\ User(h) \in Users
        BY <1>6 DEF ChargeEvent, AccountInv, Asked
    <2>3. charged[h] + 1 \in DOMAIN q
        BY <2>2, EventPointsType
    <2>4. IsQuote(q)
        BY <2>2, ConstantsAssumption DEF AccountInv, Asked
    <2>5. points \in Nat
        BY <2>3, <2>4, EventPointsAre
    <2>6. Rows(Visible(h), Len(Visible(h)))
        BY <2>2, VisibleRows
    <2>7. Write(h, kind, -points, began[h], Never, alloc)
        BY <2>1
    <2> HIDE DEF points
    <2>8. alloc \in Seq(Allocation)
        BY <2>5, <2>6, PreviewTakes
    <2>9. kind \in Kinds /\ kind # "refund" /\ -points \in Int
        BY <2>5 DEF Kinds
    <2> HIDE DEF kind, alloc
    <2>10. \A g \in Handlers : AllRows(rows'[g])
        BY <1>0, <2>7, <2>8, <2>9, WriteKeepsRows
    <2> QED
        BY <1>6, <2>10, OneRowKeepsRecord DEF ChargeEvent
<1>7. CASE ChargeDone(h)
    BY <1>7, SameRecord DEF ChargeDone
<1> QED
    BY <1>1, <1>2, <1>3, <1>4, <1>5, <1>6, <1>7 DEF Operate

\* The end of a transaction keeps the types.
LEMMA EndKeepsRecord ==
    ASSUME AccountInv, RecordInv, NEW h \in Handlers, End(h), \A u \in Users : AllRows(ledger'[u])
    PROVE  RecordInv'
<1>1. NoTask \in Tasks
    <2>1. PICK u \in Users : TRUE
        BY ConstantsAssumption
    <2>2. (CHOOSE v \in Users : TRUE) \in Users
        BY <2>1
    <2> QED
        BY <2>2 DEF NoTask, Tasks
<1>2. <<>> \in Seq(Bucket) /\ AllRows(<<>>) /\ 0 \in 0 .. MaxClock
    BY NoPoints, ConstantsAssumption DEF AllRows
<1>3. /\ task' = [task EXCEPT ![h] = NoTask] /\ due' = [due EXCEPT ![h] = <<>>]
      /\ rows' = [rows EXCEPT ![h] = <<>>]
      /\ began' = [began EXCEPT ![h] = 0] /\ asOf' = [asOf EXCEPT ![h] = 0] /\ clock' = clock
    BY DEF End
<1>4. ASSUME NEW g \in Handlers PROVE Noted(g)'
    <2>1. CASE g = h
        <3>1. task'[g] = NoTask /\ due'[g] = <<>> /\ rows'[g] = <<>>
            BY <1>3, <2>1 DEF AccountInv, Typed, RecordInv
        <3> HIDE DEF NoTask
        <3> QED
            BY <1>1, <1>2, <3>1 DEF Noted
    <2>2. CASE g # h
        <3>1. task'[g] = task[g] /\ due'[g] = due[g] /\ rows'[g] = rows[g]
            BY <1>3, <2>2 DEF AccountInv, Typed, RecordInv
        <3> QED
            BY <3>1 DEF RecordInv, Noted
    <2> QED
        BY <2>1, <2>2
<1>5. began' \in [Handlers -> 0 .. MaxClock] /\ asOf' \in [Handlers -> 0 .. MaxClock]
    BY <1>2, <1>3 DEF RecordInv
<1>6. clock' \in 0 .. MaxClock /\ DOMAIN due' = Handlers
    BY <1>3 DEF RecordInv
<1> QED
    BY <1>4, <1>5, <1>6 DEF RecordInv

\* A commit keeps the types.
LEMMA CommitKeepsRecord ==
    ASSUME AccountInv, RecordInv, NEW h \in Handlers, Commit(h)
    PROVE  RecordInv'
<1>1. User(h) \in Users /\ DOMAIN ledger = Users
    BY DEF AccountInv, Typed, Asked, Commit
<1>2. ledger'[User(h)] = Visible(h) /\ \A u \in Users \ {User(h)} : ledger'[u] = ledger[u]
    BY <1>1 DEF Commit, Visible
<1>3. AllRows(Visible(h))
    BY <1>1, VisibleAreRows
<1>4. \A u \in Users : AllRows(ledger'[u])
    BY <1>2, <1>3 DEF RecordInv
<1> QED
    BY <1>4, EndKeepsRecord DEF Commit

\* Every step keeps the types.
LEMMA NextKeepsRecord == AccountInv /\ AccountInv' /\ RecordInv /\ [Next]_vars => RecordInv'
<1> SUFFICES ASSUME AccountInv, AccountInv', RecordInv, [Next]_vars PROVE RecordInv'
    OBVIOUS
<1>1. CASE UNCHANGED vars
    BY <1>1, SameRecord DEF vars
<1>2. CASE Tick
    BY <1>2, TickKeepsRecord
<1>3. ASSUME NEW h \in Handlers, Begin(h) PROVE RecordInv'
    BY <1>3, BeginKeepsRecord
<1>4. ASSUME NEW h \in Handlers, EnsureAccount(h) PROVE RecordInv'
    BY <1>4, SameRecord DEF EnsureAccount
<1>5. ASSUME NEW h \in Handlers, Expire(h) PROVE RecordInv'
    BY <1>5, ExpireKeepsRecord
<1>6. ASSUME NEW h \in Handlers, Operate(h) PROVE RecordInv'
    BY <1>6, OperateKeepsRecord
<1>7. ASSUME NEW h \in Handlers, Commit(h) PROVE RecordInv'
    BY <1>7, CommitKeepsRecord
<1>8. ASSUME NEW h \in Handlers, Refuse(h) \/ Crash(h) PROVE RecordInv'
    <2>1. End(h) /\ ledger' = ledger
        BY <1>8 DEF Refuse, Crash, database
    <2>2. \A u \in Users : AllRows(ledger'[u])
        BY <2>1 DEF RecordInv
    <2> QED
        BY <2>1, <2>2, EndKeepsRecord
<1> QED
    BY <1>1, <1>2, <1>3, <1>4, <1>5, <1>6, <1>7, <1>8 DEF Next, Progress

(***************************************************************************)
(* Every variable of the ledger keeps its type, for any users, handlers,   *)
(* charges, grants and bounds (TypeOK of CreditLedger): also the rows,     *)
(* whose allocations are computed by a replay of the rows before them.     *)
(***************************************************************************)
THEOREM CreditLedgerTypes == Spec => []TypeOK
<1>1. AccountInv /\ RecordInv => TypeOK
    BY DEF AccountInv, Typed, RecordInv, Noted, AllRows, IsRow, TypeOK
<1>2. AccountInv /\ RecordInv /\ [Next]_vars => (AccountInv /\ RecordInv)'
    BY NextKeepsAccount, NextKeepsRecord
<1> QED
    BY <1>1, <1>2, InitAccount, InitRecord, PTL DEF Spec

(***************************************************************************)
(* The buckets of a replay never hold less than the balance, but for what  *)
(* refunds gave back beyond their charge (BucketsCoverBalance of           *)
(* CreditLedger).  A row adds at least its own points to the buckets, in   *)
(* whatever order the rows are replayed, since a drain takes at most what  *)
(* it is for; and the points of the rows come to the balance, because      *)
(* they are a chain (LedgerExplainsBalance).                               *)
(***************************************************************************)
THEOREM BucketsAlwaysCoverBalance == Spec => []BucketsCoverBalance
<1>1. AccountInv /\ RecordInv => BucketsCoverBalance
    <2> SUFFICES ASSUME AccountInv, RecordInv, NEW u \in Users
                 PROVE  PointsIn(Replay(ledger[u])) + Unplaced(ledger[u]) >= balance[u]
        BY DEF BucketsCoverBalance
    <2> DEFINE rs == ledger[u]
    <2>1. IsSeq(rs) /\ AllRows(rs) /\ IsChain(0, rs) /\ balance[u] = EndOf(0, rs)
        BY DEF AccountInv, Typed, RecordInv, LedgerExplainsBalance
    <2> HIDE DEF rs
    <2>2. Rows(rs, Len(rs))
        BY <2>1, RowsOfSeq
    <2>3. PointsIn(Replay(rs)) + Unplaced(rs) >= EndOf(0, rs)
        BY <2>1, <2>2, ReplayHolds
    <2> QED
        BY <2>1, <2>3 DEF rs
<1>2. AccountInv /\ RecordInv /\ [Next]_vars => (AccountInv /\ RecordInv)'
    BY NextKeepsAccount, NextKeepsRecord
<1> QED
    BY <1>1, <1>2, InitAccount, InitRecord, PTL DEF Spec
-----------------------------------------------------------------------------
(* What a turn does to each bucket. *)

\* The identifiers of buckets, or of allocations.
IdsOf(s) == {s[k].id : k \in DOMAIN s}

\* One more.
LEMMA IdsOfAppend ==
    ASSUME NEW s, NEW e, IsSeq(s)
    PROVE  IdsOf(Append(s, e)) = IdsOf(s) \cup {e.id}
<1>1. /\ Append(s, e)[Len(s) + 1] = e
      /\ \A i \in 1 .. Len(s) : Append(s, e)[i] = s[i]
      /\ DOMAIN Append(s, e) = 1 .. (Len(s) + 1)
    BY AppendIsSeq
<1>2. Len(s) \in Nat /\ DOMAIN s = 1 .. Len(s)
    BY LenProperties DEF IsSeq
<1> DEFINE t == Append(s, e)
           n == Len(s)
<1> HIDE DEF t, n
<1>3. IdsOf(t) \subseteq IdsOf(s) \cup {e.id}
    <2> SUFFICES ASSUME NEW i \in DOMAIN t PROVE t[i].id \in IdsOf(s) \cup {e.id}
        BY DEF IdsOf
    <2>1. i = n + 1 \/ i \in 1 .. n
        BY <1>1, <1>2 DEF t, n
    <2> QED
        BY <1>1, <1>2, <2>1 DEF IdsOf, t, n
<1>4. IdsOf(s) \subseteq IdsOf(t)
    <2> SUFFICES ASSUME NEW i \in DOMAIN s PROVE s[i].id \in IdsOf(t)
        BY DEF IdsOf
    <2>1. i \in DOMAIN t /\ t[i] = s[i]
        BY <1>1, <1>2 DEF t, n
    <2> QED
        BY <2>1 DEF IdsOf
<1>5. e.id \in IdsOf(t)
    <2>1. n + 1 \in DOMAIN t /\ t[n + 1] = e
        BY <1>1, <1>2 DEF t, n
    <2> QED
        BY <2>1 DEF IdsOf
<1> QED
    BY <1>3, <1>4, <1>5 DEF t

\* The same buckets, each with no more left than before.
Lessened(new, old) ==
    /\ new \in Seq(Bucket) /\ DOMAIN new = DOMAIN old
    /\ \A k \in DOMAIN old : /\ new[k].id = old[k].id /\ new[k].kind = old[k].kind
                             /\ new[k].lapse = old[k].lapse /\ new[k].left <= old[k].left

\* Buckets are no more than themselves, and what is less than less is less.
LEMMA LessenedTwice ==
    ASSUME NEW c \in Seq(Bucket)
    PROVE  /\ Lessened(c, c)
           /\ \A b : Lessened(b, c) => IdsOf(b) = IdsOf(c)
           /\ \A a, b : Lessened(b, c) /\ Lessened(a, b) => Lessened(a, c)
<1>1. \A s \in Seq(Bucket) : \A k \in DOMAIN s : s[k].left \in Nat
    BY LeftsAre DEF Bucket
<1>2. Lessened(c, c)
    BY <1>1 DEF Lessened
<1>3. \A b : Lessened(b, c) => IdsOf(b) = IdsOf(c)
    BY DEF Lessened, IdsOf
<1>4. ASSUME NEW a, NEW b, Lessened(b, c), Lessened(a, b) PROVE Lessened(a, c)
    <2>1. \A k \in DOMAIN c : a[k].left \in Nat /\ b[k].left \in Nat /\ c[k].left \in Nat
        BY <1>1, <1>4 DEF Lessened
    <2> QED
        BY <1>4, <2>1 DEF Lessened
<1> QED
    BY <1>2, <1>3, <1>4

\* A turn lessens its own bucket, by what it takes, and no other.
LEMMA TakeFromLessens ==
    ASSUME NEW buckets \in Seq(Bucket), NEW points \in Nat, NEW state \in States,
           Drawn(state, buckets, points), NEW i \in DOMAIN buckets
    PROVE  LET new == TakeFrom(state, i)
               old == state.buckets
           IN  /\ Lessened(new.buckets, old)
               /\ new.buckets[i].left = old[i].left - Smaller(old[i].left, state.rest)
               /\ \A k \in DOMAIN buckets \ {i} : new.buckets[k] = old[k]
               /\ IdsOf(new.taken) \subseteq IdsOf(state.taken) \cup {old[i].id}
<1> DEFINE old == state.buckets
           b == old[i]
           taken == Smaller(b.left, state.rest)
           left == b.left - taken
           changed == [old EXCEPT ![i].left = left]
           a == [id |-> b.id, source |-> b.source, points |-> taken, lapse |-> b.lapse]
           new == TakeFrom(state, i)
<1>1. /\ old \in Seq(Bucket) /\ state.rest \in Nat /\ state.taken \in Seq(Allocation)
      /\ i \in DOMAIN old /\ DOMAIN old = DOMAIN buckets
    BY DEF States, Drawn
<1>2. b \in Bucket /\ b.left \in Nat
    <2>1. b \in Bucket
        BY <1>1
    <2> HIDE DEF b
    <2> QED
        BY <2>1 DEF Bucket
<1>3. taken \in Nat /\ taken <= b.left
    BY <1>1, <1>2, SmallerIs
<1>4. Lessened(old, old)
    BY <1>1, LessenedTwice
<1>5. CASE taken = 0
    <2>1. new = state
        BY <1>5 DEF TakeFrom
    <2>2. b.left = b.left - taken
        BY <1>2, <1>5
    <2> HIDE DEF new, b, taken
    <2> QED
        BY <1>4, <2>1, <2>2 DEF new, b, taken
<1>6. CASE taken # 0
    <2>1. new = [buckets |-> changed, rest |-> state.rest - taken, taken |-> Append(state.taken, a)]
        BY <1>6 DEF TakeFrom
    <2>2. changed \in Seq(Bucket) /\ DOMAIN changed = DOMAIN old
        <3>1. left \in Nat
            BY <1>2, <1>3
        <3> HIDE DEF left, old
        <3> QED
            BY <1>1, <3>1, PointsOfChanged
    <2>3. \A k \in DOMAIN old \ {i} : changed[k] = old[k]
        <3> HIDE DEF left, old
        <3> QED
            BY <1>1
    <2>4. changed[i] = [b EXCEPT !.left = left]
        <3> HIDE DEF left
        <3> QED
            BY <1>1
    <2>5. /\ changed[i].id = b.id /\ changed[i].kind = b.kind /\ changed[i].lapse = b.lapse
          /\ changed[i].left = left
        <3> HIDE DEF left, b, changed
        <3> QED
            BY <1>2, <2>4 DEF Bucket
    <2>6. left <= b.left
        BY <1>2, <1>3
    <2>7. Lessened(changed, old)
        <3> HIDE DEF left, changed, old
        <3>1. \A k \in DOMAIN old \ {i} : old[k].left <= old[k].left
            BY <1>4 DEF Lessened
        <3> QED
            BY <1>1, <2>2, <2>3, <2>5, <2>6, <3>1 DEF Lessened
    <2>8. IdsOf(Append(state.taken, a)) = IdsOf(state.taken) \cup {b.id}
        <3>1. IsSeq(state.taken)
            BY <1>1, InSeqIsSeq
        <3>2. a.id = b.id
            OBVIOUS
        <3> HIDE DEF a
        <3> QED
            BY <3>1, <3>2, IdsOfAppend
    <2> HIDE DEF changed, a, new
    <2>9. new.buckets = changed /\ new.taken = Append(state.taken, a)
        BY <2>1
    <2> QED
        BY <1>1, <2>3, <2>5, <2>7, <2>8, <2>9 DEF new
<1> QED
    BY <1>5, <1>6

\* All turns lessen buckets, and allocate from them.
LEMMA AllocateLessens ==
    ASSUME NEW buckets \in Seq(Bucket), NEW points \in Nat, NEW id, NEW source
    PROVE  LET drawn == Allocate(buckets, points, id, source)
           IN  Lessened(drawn.buckets, buckets) /\ IdsOf(drawn.taken) \subseteq IdsOf(buckets)
<1> DEFINE S == Takers(buckets, points)
           Choice(T) == LastVisited(buckets, id, source, T)
           last == [T \in SUBSET S |-> Choice(T)]
<1>1. PICK iter : /\ Allocate(buckets, points, id, source) = iter[S]
                  /\ AllocatesInTurn(iter, buckets, points, id, source)
    BY AllocateTurns
<1>2. S \in SUBSET DOMAIN buckets /\ IsFiniteSet(S)
    BY BucketsKeyed, FS_Subset DEF Takers
<1>3. \A T \in SUBSET S : T # {} => Choice(T) \in T
    BY <1>2, LastVisitedIs
<1>4. /\ iter[{}] = Untaken(buckets, points)
      /\ \A T \in SUBSET S :
            /\ iter[T] \in States /\ Drawn(iter[T], buckets, points)
            /\ T # {} => iter[T] = TakeFrom(iter[T \ {Choice(T)}], Choice(T))
    BY <1>1 DEF AllocatesInTurn
<1> HIDE DEF S, Choice
<1>5. Chooses(last, S)
    BY <1>3 DEF Chooses
<1> DEFINE family == {T \in SUBSET S : /\ Lessened(iter[T].buckets, buckets)
                                       /\ IdsOf(iter[T].taken) \subseteq IdsOf(buckets)}
<1>6. {} \in family
    <2>1. iter[{}].buckets = buckets /\ iter[{}].taken = <<>>
        BY <1>4 DEF Untaken
    <2>2. IdsOf(<<>>) = {}
        BY DEF IdsOf
    <2> QED
        BY <2>1, <2>2, LessenedTwice
<1>7. HasWithRest(family, last, S)
    <2>1. ASSUME NEW T \in SUBSET S, T # {}, T \ {last[T]} \in family PROVE T \in family
        <3> DEFINE i == Choice(T)
                   state == iter[T \ {i}]
        <3>1. last[T] = i /\ i \in S /\ i \in DOMAIN buckets /\ T \ {i} \in SUBSET S
            BY <1>2, <1>3, <2>1
        <3>2. iter[T] = TakeFrom(state, i) /\ state \in States /\ Drawn(state, buckets, points)
            BY <1>4, <2>1, <3>1
        <3>3. Lessened(state.buckets, buckets) /\ IdsOf(state.taken) \subseteq IdsOf(buckets)
            BY <2>1, <3>1
        <3> HIDE DEF i, state
        <3>4. /\ Lessened(TakeFrom(state, i).buckets, state.buckets)
              /\ IdsOf(TakeFrom(state, i).taken) \subseteq IdsOf(state.taken) \cup {state.buckets[i].id}
            BY <3>1, <3>2, TakeFromLessens
        <3>5. Lessened(TakeFrom(state, i).buckets, buckets)
            BY <3>3, <3>4, LessenedTwice
        <3>6. state.buckets[i].id \in IdsOf(buckets)
            BY <3>1, <3>3 DEF Lessened, IdsOf
        <3> QED
            BY <3>2, <3>3, <3>4, <3>5, <3>6
    <2> QED
        BY <2>1 DEF HasWithRest
<1> HIDE DEF family, last
<1>8. SUBSET S \subseteq family
    BY <1>2, <1>5, <1>6, <1>7, TakingOff
<1>9. S \in family
    BY <1>8
<1> QED
    BY <1>1, <1>9 DEF family

\* The first bucket with an identifier.
FirstWith(buckets, id, k) ==
    /\ k \in DOMAIN buckets /\ buckets[k].id = id
    /\ \A l \in DOMAIN buckets : l < k => buckets[l].id # id

(***************************************************************************)
(* The first bucket with the wanted identifier is visited before all       *)
(* others, so it gives what it has, or all that is wanted.                 *)
(***************************************************************************)
LEMMA AllocateFromFirst ==
    ASSUME NEW buckets \in Seq(Bucket), NEW points \in Nat, NEW id, NEW source,
           NEW k \in DOMAIN buckets, FirstWith(buckets, id, k)
    PROVE  Allocate(buckets, points, id, source).buckets[k].left
               <= buckets[k].left - Smaller(buckets[k].left, points)
<1> DEFINE S == Takers(buckets, points)
           Choice(T) == LastVisited(buckets, id, source, T)
           last == [T \in SUBSET S |-> Choice(T)]
           left == buckets[k].left
           less == left - Smaller(left, points)
<1>0. left \in Nat /\ Smaller(left, points) \in Nat /\ less \in Int
    <2>1. buckets[k] \in Bucket
        OBVIOUS
    <2>2. left \in Nat
        BY <2>1 DEF Bucket
    <2>3. \A m \in Nat : Smaller(m, points) \in Nat /\ m - Smaller(m, points) \in Int
        BY DEF Smaller
    <2> QED
        BY <2>2, <2>3
<1>1. PICK iter : /\ Allocate(buckets, points, id, source) = iter[S]
                  /\ AllocatesInTurn(iter, buckets, points, id, source)
    BY AllocateTurns
<1>2. S \in SUBSET DOMAIN buckets /\ IsFiniteSet(S)
    BY BucketsKeyed, FS_Subset DEF Takers
<1>3. \A T \in SUBSET S :
          T # {} => /\ Choice(T) \in T
                    /\ \A j \in T : Choice(T) = j \/ Visited(buckets, id, source, j, Choice(T))
    BY <1>2, LastVisitedIs
<1>4. /\ iter[{}] = Untaken(buckets, points)
      /\ \A T \in SUBSET S :
            /\ iter[T] \in States /\ Drawn(iter[T], buckets, points)
            /\ T # {} => iter[T] = TakeFrom(iter[T \ {Choice(T)}], Choice(T))
    BY <1>1 DEF AllocatesInTurn
<1>5. CASE k \notin S
    <2>1. Smaller(left, points) = 0
        BY <1>0, <1>5 DEF Takers, Smaller
    <2>2. Lessened(iter[S].buckets, buckets)
        BY <1>1, AllocateLessens
    <2>3. iter[S].buckets[k].left <= left
        BY <2>2 DEF Lessened
    <2> QED
        BY <1>0, <1>1, <2>1, <2>3
<1>6. CASE k \in S
    <2>1. \A j \in S : ~Visited(buckets, id, source, j, k)
        <3>1. \A j \in S : j \in DOMAIN buckets /\ j \in Nat /\ k \in Nat
            BY <1>2, BucketsKeyed DEF Keyed
        <3> QED
            BY <1>2, <3>1 DEF FirstWith, Visited
    <2> HIDE DEF S, Choice, left, less
    <2>2. Chooses(last, S)
        BY <1>3 DEF Chooses
    <2> DEFINE family == {T \in SUBSET S : k \in T => iter[T].buckets[k].left = less}
    <2>3. {} \in family
        OBVIOUS
    <2>4. HasWithRest(family, last, S)
        <3>1. ASSUME NEW T \in SUBSET S, T # {}, T \ {last[T]} \in family, k \in T
              PROVE  iter[T].buckets[k].left = less
            <4> DEFINE i == Choice(T)
                       state == iter[T \ {i}]
            <4>1. last[T] = i /\ i \in S /\ i \in DOMAIN buckets /\ T \ {i} \in SUBSET S
                BY <1>2, <1>3, <3>1
            <4>2. iter[T] = TakeFrom(state, i) /\ state \in States /\ Drawn(state, buckets, points)
                BY <1>4, <3>1, <4>1
            <4>3. CASE i = k
                <5>1. T \ {i} = {}
                    BY <1>3, <2>1, <3>1, <4>3
                <5>2. state.buckets = buckets /\ state.rest = points
                    <6>1. state = Untaken(buckets, points)
                        BY <1>4, <5>1
                    <6> HIDE DEF state
                    <6> QED
                        BY <6>1 DEF Untaken
                <5> HIDE DEF i, state
                <5>3. TakeFrom(state, i).buckets[i].left
                          = state.buckets[i].left - Smaller(state.buckets[i].left, state.rest)
                    BY <4>1, <4>2, TakeFromLessens
                <5> QED
                    BY <4>2, <4>3, <5>2, <5>3 DEF less, left
            <4>4. CASE i # k
                <5>1. state.buckets[k].left = less
                    BY <3>1, <4>1, <4>4
                <5> HIDE DEF i, state
                <5>2. TakeFrom(state, i).buckets[k] = state.buckets[k]
                    BY <4>1, <4>2, <4>4, TakeFromLessens
                <5> QED
                    BY <4>2, <5>1, <5>2
            <4> QED
                BY <4>3, <4>4
        <3> QED
            BY <3>1 DEF HasWithRest
    <2> HIDE DEF family, last
    <2>5. SUBSET S \subseteq family
        BY <1>2, <2>2, <2>3, <2>4, TakingOff
    <2>6. S \in family
        BY <2>5
    <2>7. iter[S].buckets[k].left = less
        BY <1>6, <2>6 DEF family
    <2> QED
        BY <1>0, <1>1, <2>7 DEF less, left
<1> QED
    BY <1>5, <1>6

\* The turns of the allocations recorded with a row lessen buckets.
LEMMA PayAllLessens ==
    ASSUME NEW points \in Int, NEW wanted \in Nat, NEW start \in Payments, Paid(start, points, wanted),
           NEW alloc \in Seq(Allocation)
    PROVE  Lessened(PayAll(start, alloc).buckets, start.buckets)
<1> DEFINE D == 1 .. Len(alloc)
           last == [T \in SUBSET D |-> Max(T)]
<1>1. PICK iter : /\ PayAll(start, alloc) = iter[D]
                  /\ PaysInTurn(iter, start, alloc, points, wanted)
    BY PayTurns
<1>2. Len(alloc) \in Nat /\ IsFiniteSet(D) /\ \A i \in D : alloc[i] \in Allocation
    BY AllFinite
<1>3. \A T \in SUBSET D : T # {} => Max(T) \in T
    BY <1>2, MaxOf
<1>4. /\ iter[{}] = start
      /\ \A T \in SUBSET D : /\ iter[T] \in Payments /\ Paid(iter[T], points, wanted)
                             /\ T # {} => iter[T] = PayFrom(iter[T \ {Max(T)}], alloc[Max(T)])
    BY <1>1 DEF PaysInTurn
<1>5. start.buckets \in Seq(Bucket)
    BY DEF Payments
<1> HIDE DEF D
<1>6. Chooses(last, D)
    BY <1>3 DEF Chooses
<1> DEFINE family == {T \in SUBSET D : Lessened(iter[T].buckets, start.buckets)}
<1>7. {} \in family
    BY <1>4, <1>5, LessenedTwice
<1>8. HasWithRest(family, last, D)
    <2>1. ASSUME NEW T \in SUBSET D, T # {}, T \ {last[T]} \in family PROVE T \in family
        <3> DEFINE i == Max(T)
                   state == iter[T \ {i}]
                   asked == Smaller(state.rest, alloc[i].points)
        <3>1. last[T] = i /\ i \in D /\ T \ {i} \in SUBSET D
            BY <1>3, <2>1
        <3>2. iter[T] = PayFrom(state, alloc[i]) /\ state \in Payments
            BY <1>4, <2>1, <3>1
        <3>3. Lessened(state.buckets, start.buckets)
            BY <2>1, <3>1
        <3> HIDE DEF i, state
        <3>4. asked \in Nat
            <4>1. alloc[i].points \in Nat /\ state.rest \in Nat
                BY <1>2, <3>1, <3>2 DEF Payments, Allocation
            <4> QED
                BY <4>1 DEF Smaller
        <3>5. iter[T].buckets = Allocate(state.buckets, asked, alloc[i].id, alloc[i].source).buckets
            BY <3>2 DEF PayFrom
        <3> HIDE DEF asked
        <3>6. state.buckets \in Seq(Bucket)
            BY <3>2 DEF Payments
        <3>7. Lessened(iter[T].buckets, state.buckets)
            BY <3>4, <3>5, <3>6, AllocateLessens
        <3> QED
            BY <1>5, <3>3, <3>7, LessenedTwice
    <2> QED
        BY <2>1 DEF HasWithRest
<1> HIDE DEF family, last
<1>9. SUBSET D \subseteq family
    BY <1>2, <1>6, <1>7, <1>8, TakingOff
<1>10. D \in family
    BY <1>9
<1> QED
    BY <1>1, <1>10 DEF family

\* A negative row lessens buckets, and an expiry the first of its grant by its points.
LEMMA DrainLessens ==
    ASSUME NEW buckets \in Seq(Bucket), NEW row, row.delta \in Int, row.delta < 0,
           row.alloc \in Seq(Allocation)
    PROVE  /\ Lessened(DrainBuckets(buckets, row), buckets)
           /\ row.kind = "subscription_expire" =>
                 \A k \in DOMAIN buckets :
                     FirstWith(buckets, row.ref, k) =>
                         DrainBuckets(buckets, row)[k].left
                             <= buckets[k].left - Smaller(buckets[k].left, -row.delta)
<1> DEFINE wanted == -row.delta
           points == PointsIn(buckets)
           drawn == Allocate(buckets, wanted, row.ref, NoSource)
           targeted == IF row.kind = "subscription_expire" THEN drawn
                       ELSE [buckets |-> buckets, rest |-> wanted]
           start == [buckets |-> targeted.buckets, rest |-> targeted.rest]
           recorded == PayAll(start, row.alloc)
           final == Allocate(recorded.buckets, recorded.rest, NoId, NoSource)
<1>1. DrainBuckets(buckets, row) = final.buckets
    BY DEF DrainBuckets, PayAll, PayFrom
<1>2. wanted \in Nat /\ points \in Int
    BY PointsInIsSigma
<1> HIDE DEF wanted
<1>3. Paid(targeted, points, wanted) /\ Lessened(targeted.buckets, buckets)
    <2>1. CASE row.kind = "subscription_expire"
        <3>1. targeted = drawn
            BY <2>1
        <3>2. Drawn(drawn, buckets, wanted) /\ Lessened(drawn.buckets, buckets)
            BY <1>2, AllocateDraws, AllocateLessens
        <3> HIDE DEF drawn, targeted
        <3> QED
            BY <3>1, <3>2 DEF Drawn, Paid
    <2>2. CASE row.kind # "subscription_expire"
        <3>1. targeted.buckets = buckets /\ targeted.rest = wanted
            BY <2>2
        <3>2. wanted \in 0 .. wanted /\ points = points - (wanted - wanted)
            BY <1>2
        <3> HIDE DEF targeted
        <3> QED
            BY <3>1, <3>2, LessenedTwice DEF Paid
    <2> QED
        BY <2>1, <2>2
<1>4. row.kind = "subscription_expire" =>
          \A k \in DOMAIN buckets :
              FirstWith(buckets, row.ref, k) =>
                  targeted.buckets[k].left <= buckets[k].left - Smaller(buckets[k].left, wanted)
    <2> SUFFICES ASSUME row.kind = "subscription_expire", NEW k \in DOMAIN buckets,
                        FirstWith(buckets, row.ref, k)
                 PROVE  targeted.buckets[k].left <= buckets[k].left - Smaller(buckets[k].left, wanted)
        OBVIOUS
    <2>1. targeted = drawn
        OBVIOUS
    <2>2. drawn.buckets[k].left <= buckets[k].left - Smaller(buckets[k].left, wanted)
        BY <1>2, AllocateFromFirst
    <2> HIDE DEF targeted, drawn
    <2> QED
        BY <2>1, <2>2
<1> HIDE DEF targeted
<1>5. start \in Payments /\ Paid(start, points, wanted) /\ start.buckets = targeted.buckets
    <2>1. targeted.buckets \in Seq(Bucket) /\ targeted.rest \in Nat
        BY <1>2, <1>3 DEF Paid
    <2> QED
        BY <1>3, <2>1 DEF Paid, Payments
<1> HIDE DEF start, points
<1>6. Paid(recorded, points, wanted) /\ Lessened(recorded.buckets, start.buckets)
    BY <1>2, <1>5, PayAllPays, PayAllLessens
<1> HIDE DEF recorded
<1>7. recorded.buckets \in Seq(Bucket) /\ recorded.rest \in Nat
    BY <1>2, <1>6 DEF Paid
<1>8. Lessened(final.buckets, recorded.buckets)
    BY <1>7, AllocateLessens
<1> HIDE DEF final
<1>9. targeted.buckets \in Seq(Bucket)
    BY <1>3 DEF Paid
<1>10. Lessened(final.buckets, targeted.buckets)
    BY <1>5, <1>6, <1>8, <1>9, LessenedTwice
<1>11. Lessened(final.buckets, buckets)
    BY <1>3, <1>10, LessenedTwice
<1>12. row.kind = "subscription_expire" =>
          \A k \in DOMAIN buckets :
              FirstWith(buckets, row.ref, k) =>
                  final.buckets[k].left <= buckets[k].left - Smaller(buckets[k].left, wanted)
    <2> SUFFICES ASSUME row.kind = "subscription_expire", NEW k \in DOMAIN buckets,
                        FirstWith(buckets, row.ref, k)
                 PROVE  final.buckets[k].left <= buckets[k].left - Smaller(buckets[k].left, wanted)
        OBVIOUS
    <2>1. k \in DOMAIN targeted.buckets /\ k \in DOMAIN final.buckets
        BY <1>3, <1>11 DEF Lessened
    <2>2. final.buckets[k].left <= targeted.buckets[k].left
        BY <1>10, <2>1 DEF Lessened
    <2>3. targeted.buckets[k].left <= buckets[k].left - Smaller(buckets[k].left, wanted)
        BY <1>4
    <2>4. /\ final.buckets[k].left \in Nat /\ targeted.buckets[k].left \in Nat
          /\ buckets[k].left \in Nat
        <3>1. \A s \in Seq(Bucket) : \A j \in DOMAIN s : s[j].left \in Nat
            BY LeftsAre DEF Bucket
        <3> QED
            BY <1>9, <1>11, <2>1, <3>1 DEF Lessened
    <2>5. Smaller(buckets[k].left, wanted) \in Nat
        BY <1>2, <2>4 DEF Smaller
    <2> QED
        BY <2>2, <2>3, <2>4, <2>5
<1> QED
    BY <1>1, <1>11, <1>12 DEF wanted

\* A bucket that a positive row opens.
Opened(b, row) ==
    IF row.kind = "refund" /\ row.alloc # <<>>
    THEN b.kind = "refund" /\ b.id \in IdsOf(row.alloc)
    ELSE /\ b.kind = row.kind /\ b.id = row.ref /\ b.left = row.delta
         /\ row.kind = "subscription_grant" => b.lapse = row.lapse

\* The buckets as they were, and then what was opened.
OpensAfter(new, old, row) ==
    /\ DOMAIN old \subseteq DOMAIN new /\ \A k \in DOMAIN old : new[k] = old[k]
    /\ \A k \in DOMAIN new \ DOMAIN old : Opened(new[k], row) /\ \A l \in DOMAIN old : l < k
    /\ row.kind # "refund" => \A k, l \in DOMAIN new : l < k => l \in DOMAIN old

\* A positive row leaves the buckets there are as they are.
LEMMA OpenIsAfter ==
    ASSUME NEW buckets \in Seq(Bucket), NEW row, Readable(row), row.delta > 0
    PROVE  OpensAfter(OpenBuckets(buckets, row), buckets, row)
<1>0. IsSeq(buckets) /\ Len(buckets) \in Nat /\ DOMAIN buckets = 1 .. Len(buckets)
    BY InSeqIsSeq
<1>1. CASE row.kind = "refund" /\ row.alloc # <<>>
    <2> DEFINE t == Reopened(row)
               new == buckets \o t
               n == Len(buckets)
               m == Len(t)
    <2>1. OpenBuckets(buckets, row) = new
        BY <1>1 DEF OpenBuckets, Reopened
    <2>2. t \in Seq(Bucket)
        BY ReopenedHolds DEF Readable
    <2>3. IsSeq(t) /\ m \in Nat /\ DOMAIN t = 1 .. m
        BY <2>2, InSeqIsSeq
    <2>4. /\ DOMAIN new = 1 .. (n + m)
          /\ \A i \in 1 .. n : new[i] = buckets[i]
          /\ \A i \in 1 .. m : new[n + i] = t[i]
        BY <1>0, <2>3, ConcatIsSeq
    <2>5. ASSUME NEW i \in 1 .. m PROVE Opened(t[i], row)
        <3>1. i \in DOMAIN row.alloc
            BY <2>3 DEF Reopened
        <3>2. t[i] = [id |-> row.alloc[i].id, kind |-> "refund", source |-> row.alloc[i].source,
                      left |-> row.alloc[i].points, lapse |-> row.alloc[i].lapse, at |-> row.at]
            BY <3>1 DEF Reopened
        <3> HIDE DEF t
        <3>3. t[i].id \in IdsOf(row.alloc) /\ t[i].kind = "refund"
            BY <3>1, <3>2 DEF IdsOf
        <3> QED
            BY <1>1, <3>3 DEF Opened
    <2> HIDE DEF t, new, m
    <2>6. ASSUME NEW k \in DOMAIN new \ DOMAIN buckets
          PROVE  Opened(new[k], row) /\ \A l \in DOMAIN buckets : l < k
        <3>1. k \in 1 .. (n + m) /\ ~(k \in 1 .. n)
            BY <1>0, <2>4, <2>6
        <3> HIDE DEF n
        <3>2. n \in Nat
            BY <1>0 DEF n
        <3>3. k - n \in 1 .. m /\ n + (k - n) = k
            BY <2>3, <3>1, <3>2
        <3>4. new[n + (k - n)] = t[k - n]
            BY <2>4, <3>3
        <3>5. Opened(new[k], row)
            BY <2>5, <3>3, <3>4
        <3>6. \A l \in 1 .. n : l < k
            BY <3>1, <3>2
        <3> QED
            BY <1>0, <3>5, <3>6 DEF n
    <2>7. DOMAIN buckets \subseteq DOMAIN new
        BY <1>0, <2>3, <2>4
    <2> QED
        BY <1>0, <1>1, <2>1, <2>4, <2>6, <2>7 DEF OpensAfter
<1>2. CASE ~(row.kind = "refund" /\ row.alloc # <<>>)
    <2> DEFINE b == [id |-> row.ref, kind |-> row.kind, source |-> SourceOf(row.kind),
                     left |-> row.delta, at |-> row.at,
                     lapse |-> IF row.kind = "subscription_grant" THEN row.lapse ELSE Never]
               new == Append(buckets, b)
               n == Len(buckets)
    <2>1. OpenBuckets(buckets, row) = new
        BY <1>2 DEF OpenBuckets
    <2>2. Opened(b, row)
        BY <1>2 DEF Opened
    <2> HIDE DEF b
    <2>3. /\ new[n + 1] = b /\ DOMAIN new = 1 .. (n + 1)
          /\ \A i \in 1 .. n : new[i] = buckets[i]
        BY <1>0, AppendIsSeq
    <2> HIDE DEF new
    <2>4. \A k \in DOMAIN new : k \in DOMAIN buckets \/ k = n + 1
        BY <1>0, <2>3
    <2>5. \A l \in DOMAIN buckets : l < n + 1
        BY <1>0
    <2>6. DOMAIN buckets \subseteq DOMAIN new
        BY <1>0, <2>3
    <2>7. \A k, l \in DOMAIN new : l < k => l \in DOMAIN buckets
        BY <1>0, <2>3
    <2> QED
        BY <1>0, <2>1, <2>2, <2>3, <2>4, <2>5, <2>6, <2>7 DEF OpensAfter
<1> QED
    BY <1>1, <1>2

-----------------------------------------------------------------------------
(* What the rows of a ledger say of its grants. *)

IsGrant(r) == r.kind = "subscription_grant"

\* A row of an expiry, of a refund of an earlier charge, or of the request itself.
IsExpiry(r) == r.kind = "subscription_expire" /\ r.delta < 0 /\ r.ref < r.at /\ r.alloc = <<>>
IsRefund(r) == r.kind = "refund" /\ r.ref < r.at /\ \A id \in IdsOf(r.alloc) : id < r.at
IsOwn(r) ==
    /\ r.ref = r.at
    /\ IsGrant(r) => r.delta > 0 /\ r.lapse = r.at + Period
    /\ r.kind # "consume" => r.alloc = <<>>

Told(r) == IsExpiry(r) \/ IsRefund(r) \/ IsOwn(r)

\* Of the other rows only those that expire a grant carry its reference.
OnlyExpires(g, r) == IsGrant(g) /\ r.ref = g.ref => IsExpiry(r)

IsLedger(rs) ==
    /\ \A i \in DOMAIN rs : Told(rs[i])
    /\ \A i, j \in DOMAIN rs : i # j => OnlyExpires(rs[i], rs[j])

Lapses(id, rs) == [i \in DOMAIN rs |-> ExpiredFrom(id, rs[i])]
Expired(id, rs) == SumOver(rs, LAMBDA r : ExpiredFrom(id, r))

\* What a row expires is a number.
LEMMA LapsesAre ==
    ASSUME NEW rs, NEW n, Rows(rs, n), NEW id
    PROVE  \A i \in 1 .. n : Lapses(id, rs)[i] = ExpiredFrom(id, rs[i]) /\ Lapses(id, rs)[i] \in Int
BY DEF Rows, Readable, Lapses, ExpiredFrom

\* What expires is a total.
LEMMA ExpiredIsSigma ==
    ASSUME NEW rs, NEW n, Rows(rs, n), NEW id
    PROVE  Expired(id, rs) = Sigma(1 .. n, Lapses(id, rs)) /\ Expired(id, rs) \in Int
<1> DEFINE v == Lapses(id, rs)
           IsIter(f) == f = [S \in SUBSET DOMAIN rs |->
                                IF S = {} THEN 0 ELSE f[S \ {Max(S)}] + ExpiredFrom(id, rs[Max(S)])]
           iter == CHOOSE f : IsIter(f)
<1>1. n \in Nat /\ DOMAIN rs = 1 .. n /\ \A i \in 1 .. n : v[i] = ExpiredFrom(id, rs[i]) /\ v[i] \in Int
    <2>1. n \in Nat /\ DOMAIN rs = 1 .. n
        BY DEF Rows
    <2> QED
        BY <2>1, LapsesAre
<1>2. Expired(id, rs) = iter[DOMAIN rs]
    BY DEF Expired, SumOver, FoldLeft, MapThenFoldSet, Max
<1>3. ASSUME NEW f PROVE IsIter(f) <=> Sums(f, n, v)
    <2>1. \A S \in SUBSET (1 .. n) : S # {} => Max(S) \in 1 .. n
        BY <1>1, MaxOf
    <2> HIDE DEF v
    <2>2. \A S \in SUBSET (1 .. n) : S # {} => ExpiredFrom(id, rs[Max(S)]) = v[Max(S)]
        BY <1>1, <2>1
    <2>3. [S \in SUBSET (1 .. n) |-> IF S = {} THEN 0 ELSE f[S \ {Max(S)}] + ExpiredFrom(id, rs[Max(S)])]
             = [S \in SUBSET (1 .. n) |-> IF S = {} THEN 0 ELSE f[S \ {Max(S)}] + v[Max(S)]]
        BY <2>2
    <2> QED
        BY <1>1, <2>3 DEF Sums
<1> HIDE DEF IsIter, v
<1>4. (\E f : Sums(f, n, v)) => Sums(iter, n, v)
    BY <1>3
<1>5. iter[1 .. n] = Sigma(1 .. n, v) /\ Sigma(1 .. n, v) \in Int
    BY <1>1, <1>4, ChosenSum
<1> QED
    BY <1>1, <1>2, <1>5 DEF v

\* Of a grant only its expiries expire anything, and they are later.
LEMMA LapsesOfGrant ==
    ASSUME NEW rs, NEW n, Rows(rs, n), IsLedger(rs), NEW gi \in 1 .. n, IsGrant(rs[gi]), NEW i \in 1 .. n
    PROVE  LET id == rs[gi].ref
               v == Lapses(id, rs)
           IN  \/ v[i] = 0 /\ ~(rs[i].kind = "subscription_expire" /\ rs[i].ref = id)
               \/ /\ i # gi /\ rs[i].kind = "subscription_expire" /\ rs[i].ref = id
                  /\ rs[i].delta < 0 /\ v[i] = -rs[i].delta /\ id < rs[i].at
<1> DEFINE id == rs[gi].ref
<1>1. /\ Lapses(id, rs)[i] = ExpiredFrom(id, rs[i])
      /\ i \in DOMAIN rs /\ gi \in DOMAIN rs
    BY LapsesAre DEF Rows
<1>2. CASE rs[i].kind = "subscription_expire" /\ rs[i].ref = id
    <2>1. i # gi
        BY <1>2 DEF IsGrant
    <2>2. IsExpiry(rs[i])
        BY <1>1, <1>2, <2>1 DEF IsLedger, OnlyExpires
    <2>3. ExpiredFrom(id, rs[i]) = -rs[i].delta
        BY <1>2 DEF ExpiredFrom
    <2> QED
        BY <1>1, <1>2, <2>1, <2>2, <2>3 DEF IsExpiry
<1>3. CASE ~(rs[i].kind = "subscription_expire" /\ rs[i].ref = id)
    BY <1>1, <1>3 DEF ExpiredFrom
<1> QED
    BY <1>2, <1>3

\* The bucket a grant has opened.
GrantBucket(buckets, k, id) == buckets[k].id = id /\ buckets[k].kind = "subscription_grant"

(***************************************************************************)
(* What is known of a grant, the row with the number gi, when the rows T   *)
(* have been replayed.  Before its own turn no bucket has its identifier,  *)
(* but for refunds by later transactions; its bucket is then the first     *)
(* with that identifier, and what is left in it has not expired.           *)
(***************************************************************************)
TellsGrant(buckets, rs, gi, T) ==
    LET g == rs[gi]
        expired == Sigma(T, Lapses(g.ref, rs))
    IN  /\ \A k \in DOMAIN buckets : buckets[k].id = g.ref => gi \in T \/ \E j \in T : rs[j].at > g.ref
        /\ \A k \in DOMAIN buckets :
              GrantBucket(buckets, k, g.ref) =>
                  /\ gi \in T /\ FirstWith(buckets, g.ref, k)
                  /\ buckets[k].lapse = g.ref + Period
                  /\ buckets[k].left > 0 => buckets[k].left + expired <= g.delta
        /\ (\A j \in T : rs[j].at <= g.ref) => expired = 0

\* A turn of the replay keeps it.
LEMMA ApplyRowTells ==
    ASSUME NEW rs, NEW n, Rows(rs, n), IsLedger(rs), NEW gi \in 1 .. n, IsGrant(rs[gi]),
           NEW T \in SUBSET (1 .. n), NEW i \in T, \A j \in T : rs[j].at <= rs[i].at,
           NEW buckets \in Seq(Bucket), TellsGrant(buckets, rs, gi, T \ {i})
    PROVE  TellsGrant(ApplyRow(rs, buckets, i), rs, gi, T)
<1> DEFINE g == rs[gi]
           r == rs[i]
           id == g.ref
           v == Lapses(id, rs)
           rest == T \ {i}
           before == Sigma(rest, v)
           after == Sigma(T, v)
           new == ApplyRow(rs, buckets, i)
<1>0. i \in 1 .. n /\ i \in DOMAIN rs /\ gi \in DOMAIN rs /\ \A j \in T : j \in 1 .. n
    BY DEF Rows
<1>1. after = before + v[i] /\ before \in Int /\ v[i] \in Int
    <2>1. \A j \in 1 .. n : v[j] \in Int
        BY LapsesAre
    <2>2. IsFiniteSet(T) /\ IsFiniteSet(rest)
        <3>1. IsFiniteSet(1 .. n)
            BY AllFinite DEF Rows
        <3> QED
            BY <3>1, FS_Subset
    <2> HIDE DEF v
    <2>3. Sigma(T, v) = Sigma(rest, v) + v[i]
        BY <1>0, <2>1, <2>2, SigmaTakes
    <2> HIDE DEF rest
    <2>4. Sigma(rest, v) \in Int
        <3>1. \A j \in rest : v[j] \in Int
            BY <1>0, <2>1 DEF rest
        <3> QED
            BY <2>2, <3>1, SigmaTakes
    <2> QED
        BY <1>0, <2>1, <2>3, <2>4
<1>2. /\ Readable(r) /\ r.delta \in Int /\ r.at \in Nat /\ r.ref \in Nat /\ r.alloc \in Seq(Allocation)
      /\ Readable(g) /\ id \in Nat /\ g.delta \in Int /\ Told(r) /\ Told(g)
    BY <1>0 DEF Rows, Readable, IsLedger
<1>3. IsOwn(g) /\ id = g.at /\ g.delta > 0 /\ g.lapse = id + Period /\ g.kind = "subscription_grant"
    BY <1>2 DEF Told, IsExpiry, IsRefund, IsOwn, IsGrant
<1>4. \/ v[i] = 0 /\ ~(r.kind = "subscription_expire" /\ r.ref = id)
      \/ /\ i # gi /\ r.kind = "subscription_expire" /\ r.ref = id
         /\ r.delta < 0 /\ v[i] = -r.delta /\ id < r.at
    BY <1>0, LapsesOfGrant
<1>5. /\ \A k \in DOMAIN buckets :
            buckets[k].id = id => gi \in rest \/ \E j \in rest : rs[j].at > id
      /\ \A k \in DOMAIN buckets :
            GrantBucket(buckets, k, id) =>
                /\ gi \in rest /\ FirstWith(buckets, id, k)
                /\ buckets[k].lapse = id + Period
                /\ buckets[k].left > 0 => buckets[k].left + before <= g.delta
      /\ (\A j \in rest : rs[j].at <= id) => before = 0
    BY DEF TellsGrant
<1>6. ASSUME NEW s \in Seq(Bucket), NEW k \in DOMAIN s PROVE s[k].left \in Nat /\ k \in Nat
    <2>1. s[k] \in Bucket /\ k \in Nat
        OBVIOUS
    <2> QED
        BY <2>1 DEF Bucket
<1>7. rest \subseteq T /\ \A j \in T : j \in rest \/ j = i
    OBVIOUS
<1> HIDE DEF v, before, after, rest
<1>8. (\A j \in T : rs[j].at <= id) => after = 0
    <2> SUFFICES ASSUME \A j \in T : rs[j].at <= id PROVE after = 0
        OBVIOUS
    <2>1. before = 0
        BY <1>5, <1>7
    <2>2. r.at <= id
        OBVIOUS
    <2>3. v[i] = 0
        <3> HIDE DEF id, r
        <3> QED
            BY <1>2, <1>4, <2>2
    <2> QED
        BY <1>1, <2>1, <2>3
<1>9. CASE r.delta > 0
    <2>1. new = OpenBuckets(buckets, r)
        BY <1>9 DEF ApplyRow
    <2>2. OpensAfter(new, buckets, r)
        BY <1>2, <1>9, <2>1, OpenIsAfter
    <2>3. v[i] = 0
        BY <1>2, <1>4, <1>9
    <2>4. after = before
        BY <1>1, <2>3
    <2> HIDE DEF new, r, g, id
    <2>5. /\ DOMAIN buckets \subseteq DOMAIN new /\ \A k \in DOMAIN buckets : new[k] = buckets[k]
          /\ \A k \in DOMAIN new \ DOMAIN buckets :
                Opened(new[k], r) /\ \A l \in DOMAIN buckets : l < k
          /\ r.kind # "refund" => \A k, l \in DOMAIN new : l < k => l \in DOMAIN buckets
        BY <2>2 DEF OpensAfter
    <2>6. CASE i = gi
        <3>1. r = g /\ gi \in T /\ ~(gi \in rest)
            BY <2>6 DEF r, g, rest
        <3>2. \A j \in rest : rs[j].at <= id
            BY <1>3, <1>7, <2>6 DEF r, g
        <3>3. before = 0 /\ \A k \in DOMAIN buckets : buckets[k].id # id
            <4>1. \A j \in rest : ~(rs[j].at > id)
                <5>1. \A j \in rest : rs[j].at \in Nat
                    BY <1>0, <1>7 DEF Rows, Readable
                <5>2. id \in Nat
                    BY <1>2 DEF id
                <5> QED
                    BY <3>2, <5>1, <5>2
            <4> QED
                BY <1>5, <3>1, <3>2, <4>1
        <3>4. ASSUME NEW k \in DOMAIN new, GrantBucket(new, k, id)
              PROVE  /\ gi \in T /\ FirstWith(new, id, k)
                     /\ new[k].lapse = id + Period
                     /\ new[k].left > 0 => new[k].left + after <= g.delta
            <4>1. k \notin DOMAIN buckets /\ r.kind # "refund"
                BY <1>3, <2>5, <3>1, <3>3, <3>4 DEF GrantBucket
            <4>2. Opened(new[k], r) /\ \A l \in DOMAIN new : l < k => l \in DOMAIN buckets
                BY <2>5, <4>1
            <4>3. new[k].left = g.delta /\ new[k].lapse = g.lapse
                BY <1>3, <3>1, <4>1, <4>2 DEF Opened
            <4>4. FirstWith(new, id, k)
                BY <2>5, <3>3, <3>4, <4>2 DEF FirstWith, GrantBucket
            <4> QED
                BY <1>2, <1>3, <2>4, <3>1, <3>3, <4>3, <4>4
        <3>5. TellsGrant(new, rs, gi, T)
            BY <1>8, <3>1, <3>4 DEF TellsGrant, after, v, id, g
        <3> QED
            BY <3>5 DEF new
    <2>7. CASE i # gi
        <3>1. r.ref # id
            BY <1>0, <1>2, <1>9, <2>7 DEF IsLedger, OnlyExpires, IsExpiry, r, g, id
        <3>2. ASSUME NEW k \in DOMAIN new \ DOMAIN buckets, new[k].id = id
              PROVE  r.at > id /\ new[k].kind # "subscription_grant"
            <4>1. Opened(new[k], r)
                BY <2>5
            <4>2. r.kind = "refund" /\ r.alloc # <<>> /\ id \in IdsOf(r.alloc)
                  /\ new[k].kind = "refund"
                BY <3>1, <3>2, <4>1 DEF Opened
            <4>3. IsRefund(r)
                BY <1>2, <4>2 DEF Told, IsExpiry, IsOwn
            <4>4. id < r.at
                BY <4>2, <4>3 DEF IsRefund
            <4> QED
                BY <1>2, <4>2, <4>4
        <3>3. ASSUME NEW k \in DOMAIN new, new[k].id = id
              PROVE  gi \in T \/ \E j \in T : rs[j].at > id
            <4>1. CASE k \in DOMAIN buckets
                BY <1>5, <1>7, <2>5, <3>3, <4>1
            <4>2. CASE k \notin DOMAIN buckets
                BY <3>2, <3>3, <4>2 DEF r
            <4> QED
                BY <4>1, <4>2
        <3>4. ASSUME NEW k \in DOMAIN new, GrantBucket(new, k, id)
              PROVE  /\ gi \in T /\ FirstWith(new, id, k)
                     /\ new[k].lapse = id + Period
                     /\ new[k].left > 0 => new[k].left + after <= g.delta
            <4>1. k \in DOMAIN buckets /\ new[k] = buckets[k]
                BY <2>5, <3>2, <3>4 DEF GrantBucket
            <4>2. GrantBucket(buckets, k, id)
                BY <3>4, <4>1 DEF GrantBucket
            <4>3. \A l \in DOMAIN new : l < k => l \in DOMAIN buckets
                <5> SUFFICES ASSUME NEW l \in DOMAIN new, l < k, l \notin DOMAIN buckets PROVE FALSE
                    OBVIOUS
                <5>1. k < l
                    BY <2>5, <4>1
                <5>2. k \in Nat /\ l \in Nat
                    <6>1. new \in Seq(Bucket)
                        BY <1>2, <1>9, <2>1, OpenAdds
                    <6> QED
                        BY <1>6, <6>1
                <5> QED
                    BY <5>1, <5>2
            <4>4. FirstWith(new, id, k)
                BY <1>5, <2>5, <4>1, <4>2, <4>3 DEF FirstWith
            <4> QED
                BY <1>5, <1>7, <2>4, <4>1, <4>2, <4>4
        <3>5. TellsGrant(new, rs, gi, T)
            BY <1>8, <3>3, <3>4 DEF TellsGrant, after, v, id, g
        <3> QED
            BY <3>5 DEF new
    <2> QED
        BY <2>6, <2>7
<1>10. CASE ~(r.delta > 0)
    <2>1. Lessened(new, buckets)
        <3>1. CASE r.delta < 0
            <4>1. new = DrainBuckets(buckets, r)
                BY <1>10, <3>1 DEF ApplyRow
            <4> QED
                BY <1>2, <3>1, <4>1, DrainLessens
        <3>2. CASE ~(r.delta < 0)
            <4>1. new = buckets
                BY <1>10, <3>2 DEF ApplyRow
            <4> QED
                BY <4>1, LessenedTwice
        <3> QED
            BY <3>1, <3>2
    <2>2. ASSUME r.kind = "subscription_expire", r.ref = id, r.delta < 0,
                 NEW k \in DOMAIN buckets, FirstWith(buckets, id, k)
          PROVE  new[k].left <= buckets[k].left - Smaller(buckets[k].left, -r.delta)
        <3>1. new = DrainBuckets(buckets, r)
            BY <1>10, <2>2 DEF ApplyRow
        <3>2. FirstWith(buckets, r.ref, k)
            BY <2>2
        <3> HIDE DEF new, r, id, g
        <3> QED
            BY <1>2, <2>2, <3>1, <3>2, DrainLessens
    <2> HIDE DEF new, r, id, g
    <2>3. /\ DOMAIN new = DOMAIN buckets /\ new \in Seq(Bucket)
          /\ \A k \in DOMAIN buckets :
                /\ new[k].id = buckets[k].id /\ new[k].kind = buckets[k].kind
                /\ new[k].lapse = buckets[k].lapse /\ new[k].left <= buckets[k].left
        BY <2>1 DEF Lessened
    <2>4. \A k \in DOMAIN new : new[k].id = id => gi \in T \/ \E j \in T : rs[j].at > id
        BY <1>5, <1>7, <2>3
    <2>5. ASSUME NEW k \in DOMAIN new, GrantBucket(new, k, id)
          PROVE  /\ gi \in T /\ FirstWith(new, id, k)
                 /\ new[k].lapse = id + Period
                 /\ new[k].left > 0 => new[k].left + after <= g.delta
        <3>1. GrantBucket(buckets, k, id) /\ k \in DOMAIN buckets
            BY <2>3, <2>5 DEF GrantBucket
        <3>2. FirstWith(buckets, id, k)
            BY <1>5, <3>1
        <3>3. FirstWith(new, id, k)
            BY <2>3, <3>2 DEF FirstWith
        <3>4. buckets[k].left > 0 => buckets[k].left + before <= g.delta
            BY <1>5, <3>1
        <3>5. new[k].left \in Nat /\ buckets[k].left \in Nat
            BY <1>6, <2>3, <3>1
        <3>6. ASSUME new[k].left > 0 PROVE new[k].left + after <= g.delta
            <4>1. CASE v[i] = 0
                BY <1>1, <1>2, <2>3, <3>1, <3>4, <3>5, <3>6, <4>1
            <4>2. CASE v[i] # 0
                <5>1. r.kind = "subscription_expire" /\ r.ref = id /\ r.delta < 0 /\ v[i] = -r.delta
                    BY <1>4, <4>2
                <5>2. new[k].left <= buckets[k].left - Smaller(buckets[k].left, -r.delta)
                    BY <2>2, <3>1, <3>2, <5>1
                <5>3. new[k].left <= buckets[k].left + r.delta
                    BY <1>2, <3>5, <3>6, <5>1, <5>2 DEF Smaller
                <5>4. buckets[k].left > 0 /\ buckets[k].left + before <= g.delta
                    BY <1>2, <3>4, <3>5, <3>6, <5>1, <5>3
                <5>5. after = before - r.delta
                    BY <1>1, <1>2, <5>1
                <5>6. \A a, b, c, d, e \in Int : a <= b + c /\ b + d <= e => a + (d - c) <= e
                    OBVIOUS
                <5>7. /\ new[k].left \in Int /\ buckets[k].left \in Int /\ r.delta \in Int
                      /\ before \in Int /\ g.delta \in Int
                    BY <1>1, <1>2, <3>5
                <5>8. new[k].left + (before - r.delta) <= g.delta
                    BY <5>3, <5>4, <5>6, <5>7
                <5> QED
                    BY <5>5, <5>8
            <4> QED
                BY <4>1, <4>2
        <3> QED
            BY <1>5, <1>7, <2>3, <3>1, <3>3, <3>6
    <2>6. TellsGrant(new, rs, gi, T)
        BY <1>8, <2>4, <2>5 DEF TellsGrant, after, v, id, g
    <2> QED
        BY <2>6 DEF new
<1> QED
    BY <1>9, <1>10

\* All turns keep it: this is what the buckets of a replay say of a grant.
LEMMA ReplayTells ==
    ASSUME NEW rs, NEW n, Rows(rs, n), IsLedger(rs), NEW gi \in 1 .. n, IsGrant(rs[gi])
    PROVE  TellsGrant(Replay(rs), rs, gi, 1 .. n)
<1> DEFINE S == 1 .. n
           Choice(T) == LastRow(rs, T)
           last == [T \in SUBSET S |-> Choice(T)]
<1>1. PICK iter : Replay(rs) = iter[S] /\ ReplaysInTurn(iter, rs, n)
    BY ReplayTurns
<1>2. DOMAIN rs = S /\ IsFiniteSet(S) /\ Stamped(rs)
    BY RowsAre DEF Rows
<1>3. \A T \in SUBSET S :
          T # {} => /\ Choice(T) \in T
                    /\ \A j \in T : Choice(T) = j \/ Earlier(rs, j, Choice(T))
    BY <1>2, LastRowIs
<1>4. /\ iter[{}] = <<>>
      /\ \A T \in SUBSET S : /\ iter[T] \in Seq(Bucket)
                             /\ T # {} => iter[T] = ApplyRow(rs, iter[T \ {Choice(T)}], Choice(T))
    BY <1>1 DEF ReplaysInTurn, Covers
<1> HIDE DEF S, Choice
<1>5. Chooses(last, S)
    BY <1>3 DEF Chooses
<1> DEFINE family == {T \in SUBSET S : TellsGrant(iter[T], rs, gi, T)}
<1>6. {} \in family
    <2>1. IsFiniteSet({})
        BY FS_EmptySet
    <2>2. Sigma({}, Lapses(rs[gi].ref, rs)) = 0
        BY <2>1, SigmaTakes
    <2> DEFINE none == iter[{}]
    <2>3. DOMAIN none = {}
        BY <1>4
    <2> HIDE DEF none
    <2>4. TellsGrant(none, rs, gi, {})
        BY <2>2, <2>3 DEF TellsGrant
    <2> QED
        BY <2>4 DEF none
<1>7. HasWithRest(family, last, S)
    <2>1. ASSUME NEW T \in SUBSET S, T # {}, T \ {last[T]} \in family PROVE T \in family
        <3> DEFINE i == Choice(T)
                   old == iter[T \ {i}]
        <3>1. last[T] = i /\ i \in T /\ T \ {i} \in SUBSET S
            BY <1>3, <2>1
        <3>2. iter[T] = ApplyRow(rs, old, i) /\ old \in Seq(Bucket)
            BY <1>4, <2>1, <3>1
        <3>3. TellsGrant(old, rs, gi, T \ {i})
            BY <2>1, <3>1
        <3>4. \A j \in T : rs[j].at <= rs[i].at
            <4>1. \A j \in T : i = j \/ Earlier(rs, j, i)
                BY <1>3, <2>1
            <4>2. \A j \in T : rs[j].at \in Nat /\ rs[i].at \in Nat
                BY <1>2, <3>1 DEF Stamped
            <4> HIDE DEF i
            <4> QED
                BY <4>1, <4>2 DEF Earlier
        <3> HIDE DEF i, old
        <3>5. TellsGrant(ApplyRow(rs, old, i), rs, gi, T)
            BY <3>1, <3>2, <3>3, <3>4, ApplyRowTells DEF S
        <3> QED
            BY <3>2, <3>5
    <2> QED
        BY <2>1 DEF HasWithRest
<1> HIDE DEF family, last
<1>8. SUBSET S \subseteq family
    BY <1>2, <1>5, <1>6, <1>7, TakingOff
<1>9. S \in family
    BY <1>8
<1> QED
    BY <1>1, <1>9 DEF family, S

Refs(rs) == {rs[i].ref : i \in DOMAIN rs}

\* Every identifier a row of the ledger names.
Mentioned(rs) == Refs(rs) \cup UNION {IdsOf(rs[i].alloc) : i \in DOMAIN rs}

\* Buckets have their identifiers from rows, and those of grants from grants.
ComeFrom(buckets, rs) ==
    /\ IdsOf(buckets) \subseteq Mentioned(rs)
    /\ \A k \in DOMAIN buckets :
          buckets[k].kind = "subscription_grant" =>
              \E j \in DOMAIN rs : IsGrant(rs[j]) /\ rs[j].ref = buckets[k].id

\* A turn of the replay keeps that.
LEMMA ApplyRowFrom ==
    ASSUME NEW rs, NEW n, Rows(rs, n), NEW i \in 1 .. n, NEW buckets \in Seq(Bucket),
           ComeFrom(buckets, rs)
    PROVE  ComeFrom(ApplyRow(rs, buckets, i), rs)
<1> DEFINE r == rs[i]
           new == ApplyRow(rs, buckets, i)
<1>1. /\ Readable(r) /\ r.delta \in Int /\ r.alloc \in Seq(Allocation) /\ i \in DOMAIN rs
    BY DEF Rows, Readable
<1>2. r.ref \in Mentioned(rs) /\ IdsOf(r.alloc) \subseteq Mentioned(rs)
    BY <1>1 DEF Mentioned, Refs
<1>3. CASE r.delta > 0
    <2>1. OpensAfter(new, buckets, r)
        <3>1. new = OpenBuckets(buckets, r)
            BY <1>3 DEF ApplyRow
        <3> QED
            BY <1>1, <1>3, <3>1, OpenIsAfter
    <2>2. ASSUME NEW k \in DOMAIN new
          PROVE  /\ new[k].id \in Mentioned(rs)
                 /\ new[k].kind = "subscription_grant" =>
                       \E j \in DOMAIN rs : IsGrant(rs[j]) /\ rs[j].ref = new[k].id
        <3> HIDE DEF new
        <3>1. CASE k \in DOMAIN buckets
            <4>1. new[k] = buckets[k]
                BY <2>1, <3>1 DEF OpensAfter
            <4> QED
                BY <3>1, <4>1 DEF ComeFrom, IdsOf
        <3>2. CASE k \notin DOMAIN buckets
            <4>1. Opened(new[k], r)
                BY <2>1, <2>2, <3>2 DEF OpensAfter
            <4> QED
                BY <1>1, <1>2, <4>1 DEF Opened, IsGrant
        <3> QED
            BY <3>1, <3>2
    <2> HIDE DEF new
    <2>3. ComeFrom(new, rs)
        BY <2>2 DEF ComeFrom, IdsOf
    <2> QED
        BY <2>3 DEF new
<1>4. CASE ~(r.delta > 0)
    <2>1. Lessened(new, buckets)
        <3>1. CASE r.delta < 0
            <4>1. new = DrainBuckets(buckets, r)
                BY <1>4, <3>1 DEF ApplyRow
            <4> QED
                BY <1>1, <3>1, <4>1, DrainLessens
        <3>2. CASE ~(r.delta < 0)
            <4>1. new = buckets
                BY <1>4, <3>2 DEF ApplyRow
            <4> QED
                BY <4>1, LessenedTwice
        <3> QED
            BY <3>1, <3>2
    <2> HIDE DEF new
    <2>2. ComeFrom(new, rs)
        BY <2>1, LessenedTwice DEF ComeFrom, Lessened
    <2> QED
        BY <2>2 DEF new
<1> QED
    BY <1>3, <1>4

\* So do all turns.
LEMMA ReplayFrom ==
    ASSUME NEW rs, NEW n, Rows(rs, n)
    PROVE  ComeFrom(Replay(rs), rs)
<1> DEFINE S == 1 .. n
           Choice(T) == LastRow(rs, T)
           last == [T \in SUBSET S |-> Choice(T)]
<1>1. PICK iter : Replay(rs) = iter[S] /\ ReplaysInTurn(iter, rs, n)
    BY ReplayTurns
<1>2. DOMAIN rs = S /\ IsFiniteSet(S) /\ Stamped(rs)
    BY RowsAre DEF Rows
<1>3. \A T \in SUBSET S : T # {} => Choice(T) \in T
    BY <1>2, LastRowIs
<1>4. /\ iter[{}] = <<>>
      /\ \A T \in SUBSET S : /\ iter[T] \in Seq(Bucket)
                             /\ T # {} => iter[T] = ApplyRow(rs, iter[T \ {Choice(T)}], Choice(T))
    BY <1>1 DEF ReplaysInTurn, Covers
<1> HIDE DEF S, Choice
<1>5. Chooses(last, S)
    BY <1>3 DEF Chooses
<1> DEFINE family == {T \in SUBSET S : ComeFrom(iter[T], rs)}
<1>6. {} \in family
    <2> DEFINE none == iter[{}]
    <2>1. DOMAIN none = {}
        BY <1>4
    <2> HIDE DEF none
    <2>2. ComeFrom(none, rs)
        BY <2>1 DEF ComeFrom, IdsOf
    <2> QED
        BY <2>2 DEF none
<1>7. HasWithRest(family, last, S)
    <2>1. ASSUME NEW T \in SUBSET S, T # {}, T \ {last[T]} \in family PROVE T \in family
        <3> DEFINE i == Choice(T)
                   old == iter[T \ {i}]
        <3>1. last[T] = i /\ i \in S /\ T \ {i} \in SUBSET S
            BY <1>3, <2>1
        <3>2. iter[T] = ApplyRow(rs, old, i) /\ old \in Seq(Bucket)
            BY <1>4, <2>1, <3>1
        <3>3. ComeFrom(old, rs)
            BY <2>1, <3>1
        <3> HIDE DEF i, old
        <3>4. ComeFrom(ApplyRow(rs, old, i), rs)
            BY <3>1, <3>2, <3>3, ApplyRowFrom DEF S
        <3> QED
            BY <3>2, <3>4
    <2> QED
        BY <2>1 DEF HasWithRest
<1> HIDE DEF family, last
<1>8. SUBSET S \subseteq family
    BY <1>2, <1>5, <1>6, <1>7, TakingOff
<1>9. S \in family
    BY <1>8
<1> QED
    BY <1>1, <1>9 DEF family

(***************************************************************************)
(* What _reconcile_expired_subscription_points finds: one bucket of each   *)
(* grant that has lapsed, with no more than has not expired of it.         *)
(***************************************************************************)
LEMMA ExpiredBucketsAre ==
    ASSUME NEW rs, NEW n, Rows(rs, n), IsLedger(rs), NEW now \in Nat
    PROVE  LET found == ExpiredBuckets(rs, now)
           IN  /\ \A k \in DOMAIN found : found[k].id \in Refs(rs) /\ found[k].id + Period <= now
               /\ \A k, l \in DOMAIN found : k # l => found[k].id # found[l].id
               /\ \A k \in DOMAIN found : \A j \in DOMAIN rs :
                     IsGrant(rs[j]) /\ found[k].id = rs[j].ref =>
                         Expired(rs[j].ref, rs) + found[k].left <= rs[j].delta
<1> DEFINE buckets == Replay(rs)
           S == Lapsed(buckets, now)
           Choice(T) == LastConsumed(buckets, T)
           last == [T \in SUBSET S |-> Choice(T)]
<1>1. PICK iter : ExpiredBuckets(rs, now) = iter[S] /\ FindsInTurn(iter, buckets, now)
    BY ExpiredTurns
<1>2. buckets \in Seq(Bucket) /\ DOMAIN rs = 1 .. n
    BY ReplayCovers DEF Covers, Rows
<1>3. ComeFrom(buckets, rs)
    BY ReplayFrom
<1>4. \A j \in 1 .. n : IsGrant(rs[j]) => TellsGrant(buckets, rs, j, 1 .. n)
    BY ReplayTells
<1> HIDE DEF buckets
<1>5. IsFiniteSet(S) /\ S \subseteq DOMAIN buckets
    BY <1>2, BucketsKeyed, FS_Subset DEF Lapsed
<1>6. /\ iter[{}] = <<>>
      /\ \A T \in SUBSET S :
            /\ iter[T] \in Seq(Bucket)
            /\ T # {} => /\ Choice(T) \in T
                         /\ iter[T] = NoteBucket(buckets, iter[T \ {Choice(T)}], Choice(T))
    BY <1>1 DEF FindsInTurn
<1>7. \A b \in S : buckets[b].kind = "subscription_grant" /\ buckets[b].lapse <= now /\ buckets[b].left > 0
    BY DEF Lapsed
<1>8. ASSUME NEW b \in S, NEW j \in 1 .. n, IsGrant(rs[j]), rs[j].ref = buckets[b].id
      PROVE  /\ FirstWith(buckets, rs[j].ref, b) /\ rs[j].ref + Period <= now
             /\ Expired(rs[j].ref, rs) + buckets[b].left <= rs[j].delta
    <2> DEFINE expired == Sigma(1 .. n, Lapses(rs[j].ref, rs))
    <2>1. GrantBucket(buckets, b, rs[j].ref)
        BY <1>7, <1>8 DEF GrantBucket
    <2>2. TellsGrant(buckets, rs, j, 1 .. n)
        BY <1>4, <1>8
    <2>3. /\ FirstWith(buckets, rs[j].ref, b) /\ buckets[b].lapse = rs[j].ref + Period
          /\ buckets[b].left > 0 => buckets[b].left + expired <= rs[j].delta
        BY <1>5, <2>1, <2>2 DEF TellsGrant
    <2>4. Expired(rs[j].ref, rs) = expired /\ expired \in Int
        BY ExpiredIsSigma
    <2> HIDE DEF expired
    <2>5. buckets[b].left \in Nat
        <3>1. buckets[b] \in Bucket
            BY <1>2, <1>5
        <3> QED
            BY <3>1 DEF Bucket
    <2>6. expired + buckets[b].left <= rs[j].delta
        BY <1>7, <2>3, <2>4, <2>5
    <2> QED
        BY <1>7, <2>3, <2>4, <2>6
<1>9. ASSUME NEW b \in S
      PROVE  \E j \in 1 .. n : IsGrant(rs[j]) /\ rs[j].ref = buckets[b].id
    BY <1>2, <1>3, <1>5, <1>7 DEF ComeFrom
<1>10. ASSUME NEW b \in S, NEW c \in S, b # c PROVE buckets[b].id # buckets[c].id
    <2> SUFFICES ASSUME buckets[b].id = buckets[c].id PROVE FALSE
        OBVIOUS
    <2>1. PICK j \in 1 .. n : IsGrant(rs[j]) /\ rs[j].ref = buckets[b].id
        BY <1>9
    <2>2. FirstWith(buckets, rs[j].ref, b) /\ FirstWith(buckets, rs[j].ref, c)
        BY <1>8, <2>1
    <2>3. b \in Nat /\ c \in Nat
        BY <1>2, <1>5
    <2> QED
        BY <1>10, <2>2, <2>3 DEF FirstWith
<1> HIDE DEF S, Choice
<1>11. Chooses(last, S)
    BY <1>6 DEF Chooses
<1> DEFINE Found(found, T) ==
               /\ \A k \in DOMAIN found : \E b \in T : found[k] = buckets[b]
               /\ \A k, l \in DOMAIN found : k # l => found[k].id # found[l].id
           family == {T \in SUBSET S : Found(iter[T], T)}
<1>12. {} \in family
    BY <1>6
<1>13. HasWithRest(family, last, S)
    <2>1. ASSUME NEW T \in SUBSET S, T # {}, T \ {last[T]} \in family PROVE T \in family
        <3> DEFINE i == Choice(T)
                   old == iter[T \ {i}]
                   e == buckets[i]
                   new == Append(old, e)
                   m == Len(old)
        <3>1. last[T] = i /\ i \in T /\ T \ {i} \in SUBSET S
            BY <1>6, <2>1
        <3>2. iter[T] = new
            BY <1>6, <2>1 DEF NoteBucket
        <3>3. Found(old, T \ {i}) /\ old \in Seq(Bucket)
            BY <1>6, <2>1, <3>1
        <3> HIDE DEF old, e
        <3>4. IsSeq(old) /\ m \in Nat /\ DOMAIN old = 1 .. m
            BY <3>3, InSeqIsSeq
        <3>5. /\ DOMAIN new = 1 .. (m + 1) /\ new[m + 1] = e
              /\ \A k \in 1 .. m : new[k] = old[k]
            BY <3>4, AppendIsSeq
        <3>6. \A k \in 1 .. m : old[k].id # e.id
            <4> SUFFICES ASSUME NEW k \in 1 .. m PROVE old[k].id # e.id
                OBVIOUS
            <4>1. PICK b \in T \ {i} : old[k] = buckets[b]
                BY <3>3, <3>4
            <4>2. b \in S /\ i \in S /\ b # i
                BY <3>1
            <4> QED
                BY <1>10, <4>1, <4>2 DEF e
        <3> HIDE DEF new, m
        <3>7. \A k \in DOMAIN new : k \in 1 .. m \/ k = m + 1
            BY <3>4, <3>5
        <3>8. \A k \in DOMAIN new : \E b \in T : new[k] = buckets[b]
            <4> SUFFICES ASSUME NEW k \in DOMAIN new PROVE \E b \in T : new[k] = buckets[b]
                OBVIOUS
            <4>1. CASE k \in 1 .. m
                BY <3>3, <3>4, <3>5, <4>1
            <4>2. CASE k = m + 1
                BY <3>1, <3>5, <4>2 DEF e
            <4> QED
                BY <3>7, <4>1, <4>2
        <3>9. \A k, l \in DOMAIN new : k # l => new[k].id # new[l].id
            BY <3>3, <3>4, <3>5, <3>6, <3>7
        <3> QED
            BY <3>2, <3>8, <3>9
    <2> QED
        BY <2>1 DEF HasWithRest
<1> HIDE DEF family, last
<1>14. SUBSET S \subseteq family
    BY <1>5, <1>11, <1>12, <1>13, TakingOff
<1>15. S \in family
    BY <1>14
<1> DEFINE found == iter[S]
<1>16. Found(found, S)
    BY <1>15 DEF family
<1> HIDE DEF found
<1>17. \A k \in DOMAIN found : found[k].id \in Refs(rs) /\ found[k].id + Period <= now
    BY <1>2, <1>8, <1>9, <1>16 DEF Refs
<1>18. \A k \in DOMAIN found : \A j \in DOMAIN rs :
           IsGrant(rs[j]) /\ found[k].id = rs[j].ref =>
               Expired(rs[j].ref, rs) + found[k].left <= rs[j].delta
    BY <1>2, <1>8, <1>16
<1> QED
    BY <1>1, <1>16, <1>17, <1>18 DEF found

-----------------------------------------------------------------------------
(* The identifiers of the allocations that are written. *)

\* A preview allocates from buckets of the ledger (_preview_credit_consumption_allocations).
LEMMA PreviewNames ==
    ASSUME NEW rs, NEW n, Rows(rs, n), NEW points \in Nat
    PROVE  IdsOf(Preview(rs, points).taken) \subseteq Mentioned(rs)
<1>1. Replay(rs) \in Seq(Bucket)
    BY ReplayCovers DEF Covers
<1>2. IdsOf(Allocate(Replay(rs), points, NoId, NoSource).taken) \subseteq IdsOf(Replay(rs))
    BY <1>1, AllocateLessens
<1> QED
    BY <1>2, ReplayFrom DEF Preview, ComeFrom

\* What is given back has the identifiers of what was taken.
LEMMA ReturnNames ==
    ASSUME NEW start \in Returns, start.back = <<>>, NEW alloc \in Seq(Allocation)
    PROVE  IdsOf(ReturnAll(start, alloc).back) \subseteq IdsOf(alloc)
<1> DEFINE D == 1 .. Len(alloc)
           last == [T \in SUBSET D |-> Max(T)]
<1>1. PICK iter : ReturnAll(start, alloc) = iter[D] /\ ReturnsInTurn(iter, start, alloc)
    BY ReturnTurns
<1>2. Len(alloc) \in Nat /\ IsFiniteSet(D) /\ DOMAIN alloc = D
    BY AllFinite
<1>3. \A T \in SUBSET D : T # {} => Max(T) \in T
    BY <1>2, MaxOf
<1>4. /\ iter[{}] = start
      /\ \A T \in SUBSET D : /\ iter[T] \in Returns
                             /\ T # {} => iter[T] = GiveBackOf(iter[T \ {Max(T)}], alloc[Max(T)])
    BY <1>1 DEF ReturnsInTurn
<1> HIDE DEF D
<1>5. Chooses(last, D)
    BY <1>3 DEF Chooses
<1> DEFINE family == {T \in SUBSET D : IdsOf(iter[T].back) \subseteq IdsOf(alloc)}
<1>6. {} \in family
    <2>1. IdsOf(start.back) = {}
        BY DEF IdsOf
    <2> QED
        BY <1>4, <2>1
<1>7. HasWithRest(family, last, D)
    <2>1. ASSUME NEW T \in SUBSET D, T # {}, T \ {last[T]} \in family PROVE T \in family
        <3> DEFINE i == Max(T)
                   state == iter[T \ {i}]
                   a == alloc[i]
                   back == Smaller(state.rest, a.points)
                   e == [a EXCEPT !.points = back]
        <3>1. last[T] = i /\ i \in D /\ T \ {i} \in SUBSET D
            BY <1>3, <2>1
        <3>2. iter[T] = GiveBackOf(state, a) /\ state \in Returns
            BY <1>4, <2>1, <3>1
        <3>3. IdsOf(state.back) \subseteq IdsOf(alloc)
            BY <2>1, <3>1
        <3>4. a \in Allocation /\ a.id \in IdsOf(alloc)
            BY <1>2, <3>1 DEF IdsOf
        <3> HIDE DEF i, state, a
        <3>5. e.id = a.id
            BY <3>4 DEF Allocation
        <3>6. iter[T] = IF back = 0 THEN state
                        ELSE [rest |-> state.rest - back, back |-> Append(state.back, e)]
            BY <3>2 DEF GiveBackOf
        <3> HIDE DEF e, back
        <3>7. IsSeq(state.back)
            BY <3>2, InSeqIsSeq DEF Returns
        <3>8. IdsOf(Append(state.back, e)) = IdsOf(state.back) \cup {a.id}
            BY <3>5, <3>7, IdsOfAppend
        <3>9. iter[T].back = state.back \/ iter[T].back = Append(state.back, e)
            BY <3>6
        <3> QED
            BY <3>3, <3>4, <3>8, <3>9
    <2> QED
        BY <2>1 DEF HasWithRest
<1> HIDE DEF family, last
<1>8. SUBSET D \subseteq family
    BY <1>2, <1>5, <1>6, <1>7, TakingOff
<1>9. D \in family
    BY <1>8
<1> QED
    BY <1>1, <1>9 DEF family

\* A refund names what the charge was paid from (_resolve_refund_source_allocations).
LEMMA RefundNames ==
    ASSUME NEW rs, NEW n, Rows(rs, n), NEW ref, NEW points \in Nat
    PROVE  \A id \in IdsOf(RefundAllocations(rs, ref, points)) :
               \E i \in DOMAIN rs :
                   rs[i].kind = "consume" /\ rs[i].ref = ref /\ id \in IdsOf(rs[i].alloc)
<1> DEFINE charges == {i \in DOMAIN rs : rs[i].kind = "consume" /\ rs[i].ref = ref}
           latest == LastRow(rs, charges)
           start == [rest |-> points, back |-> <<>>]
<1>1. RefundAllocations(rs, ref, points) =
          IF charges = {} THEN <<>> ELSE ReturnAll(start, rs[latest].alloc).back
    BY DEF RefundAllocations, ReturnAll, GiveBackOf, LastRow
<1>2. CASE charges = {}
    <2>1. IdsOf(<<>>) = {}
        BY DEF IdsOf
    <2> QED
        BY <1>1, <1>2, <2>1
<1>3. CASE charges # {}
    <2>1. charges \in SUBSET DOMAIN rs /\ IsFiniteSet(DOMAIN rs) /\ Stamped(rs)
        BY RowsAre
    <2>2. start \in Returns /\ start.back = <<>>
        <3>1. <<>> \in Seq(Allocation)
            OBVIOUS
        <3> QED
            BY <3>1 DEF Returns
    <2>3. \A i \in charges : i \in DOMAIN rs /\ rs[i].kind = "consume" /\ rs[i].ref = ref
        OBVIOUS
    <2> HIDE DEF charges, start
    <2>4. latest \in charges
        BY <1>3, <2>1, LastRowIs
    <2> HIDE DEF latest
    <2>5. rs[latest].alloc \in Seq(Allocation)
        BY <2>3, <2>4 DEF Rows, Readable
    <2>6. IdsOf(ReturnAll(start, rs[latest].alloc).back) \subseteq IdsOf(rs[latest].alloc)
        BY <2>2, <2>5, ReturnNames
    <2> QED
        BY <1>1, <1>3, <2>3, <2>4, <2>6
<1> QED
    BY <1>2, <1>3

-----------------------------------------------------------------------------
(* Rows that are added to rows. *)

\* Rows that can be replayed.
Written(rs) == IsSeq(rs) /\ Rows(rs, Len(rs))

\* Two lists of them.
LEMMA WrittenBoth ==
    ASSUME NEW s, NEW t, Written(s), Written(t)
    PROVE  /\ Written(s \o t)
           /\ \A id : Expired(id, s \o t) = Expired(id, s) + Expired(id, t)
<1> DEFINE w == s \o t
           n == Len(s)
           m == Len(t)
<1>1. /\ IsSeq(w) /\ Len(w) = n + m /\ DOMAIN w = 1 .. (n + m)
      /\ \A i \in 1 .. n : w[i] = s[i]
      /\ \A i \in 1 .. m : w[n + i] = t[i]
    BY ConcatIsSeq DEF Written
<1>2. n \in Nat /\ DOMAIN s = 1 .. n /\ m \in Nat /\ DOMAIN t = 1 .. m
    BY DEF Written, Rows
<1>3. /\ \A k \in DOMAIN w : \/ k \in DOMAIN s /\ w[k] = s[k]
                             \/ k - n \in DOMAIN t /\ w[k] = t[k - n]
    BY ElementsOfBoth DEF Written
<1> HIDE DEF w, n, m
<1>4. \A k \in DOMAIN w : Readable(w[k])
    BY <1>2, <1>3 DEF Written, Rows, n, m
<1>5. Rows(w, n + m) /\ Rows(s, n) /\ Rows(t, m)
    BY <1>1, <1>2, <1>4 DEF Written, Rows, n, m
<1>6. ASSUME NEW id PROVE Expired(id, w) = Expired(id, s) + Expired(id, t)
    <2>1. /\ \A i \in 1 .. n + m : Lapses(id, w)[i] = ExpiredFrom(id, w[i])
          /\ \A i \in 1 .. n : Lapses(id, s)[i] = ExpiredFrom(id, s[i]) /\ Lapses(id, s)[i] \in Int
          /\ \A i \in 1 .. m : Lapses(id, t)[i] = ExpiredFrom(id, t[i]) /\ Lapses(id, t)[i] \in Int
        BY <1>5, LapsesAre
    <2>2. Joined(Lapses(id, w), n, Lapses(id, s), m, Lapses(id, t))
        <3>1. \A i \in 1 .. n : i \in 1 .. n + m
            BY <1>2
        <3>2. \A i \in 1 .. m : n + i \in 1 .. n + m
            BY <1>2
        <3> QED
            BY <1>1, <2>1, <3>1, <3>2 DEF Joined
    <2>3. AllInts(Lapses(id, s), n) /\ AllInts(Lapses(id, t), m)
        BY <2>1 DEF AllInts
    <2>4. Sigma(1 .. n + m, Lapses(id, w)) = Sigma(1 .. n, Lapses(id, s)) + Sigma(1 .. m, Lapses(id, t))
        BY <1>2, <2>2, <2>3, SigmaOfBoth
    <2> QED
        BY <1>5, <2>4, ExpiredIsSigma
<1> QED
    BY <1>1, <1>5, <1>6 DEF Written, w

\* One more of them.
LEMMA WrittenMore ==
    ASSUME NEW s, NEW e, Written(s), Readable(e)
    PROVE  /\ Written(Append(s, e))
           /\ \A id : Expired(id, Append(s, e)) = Expired(id, s) + ExpiredFrom(id, e)
<1> DEFINE w == Append(s, e)
           n == Len(s)
<1>1. /\ IsSeq(w) /\ Len(w) = n + 1 /\ DOMAIN w = 1 .. (n + 1) /\ w[n + 1] = e
      /\ \A i \in 1 .. n : w[i] = s[i]
    BY AppendIsSeq DEF Written
<1>2. n \in Nat /\ DOMAIN s = 1 .. n /\ \A i \in 1 .. n + 1 : i \in 1 .. n \/ i = n + 1
    BY DEF Written, Rows
<1>3. Rows(s, n)
    BY DEF Written
<1> HIDE DEF w, n
<1>4. Rows(w, n + 1)
    BY <1>1, <1>2, <1>3 DEF Rows
<1>5. ASSUME NEW id PROVE Expired(id, w) = Expired(id, s) + ExpiredFrom(id, e)
    <2>1. /\ \A i \in 1 .. n + 1 : Lapses(id, w)[i] = ExpiredFrom(id, w[i]) /\ Lapses(id, w)[i] \in Int
          /\ \A i \in 1 .. n : Lapses(id, s)[i] = ExpiredFrom(id, s[i]) /\ Lapses(id, s)[i] \in Int
        BY <1>3, <1>4, LapsesAre
    <2>2. \A i \in 1 .. n : i \in 1 .. n + 1 /\ Lapses(id, w)[i] = Lapses(id, s)[i]
        BY <1>1, <1>2, <2>1
    <2>3. n + 1 \in 1 .. n + 1
        BY <1>2
    <2>4. Sigma(1 .. n + 1, Lapses(id, w)) = Sigma(1 .. n, Lapses(id, s)) + Lapses(id, w)[n + 1]
        BY <1>2, <2>1, <2>2, <2>3, SigmaOfMore
    <2>5. Lapses(id, w)[n + 1] = ExpiredFrom(id, e)
        BY <1>1, <2>1, <2>3
    <2> QED
        BY <1>3, <1>4, <2>4, <2>5, ExpiredIsSigma
<1> QED
    BY <1>1, <1>4, <1>5 DEF Written, w

\* Nothing expires of a grant of which no row says so.
LEMMA NothingExpires ==
    ASSUME NEW rs, Written(rs), NEW id,
           \A i \in DOMAIN rs : rs[i].kind = "subscription_expire" => rs[i].ref # id
    PROVE  Expired(id, rs) = 0
<1> DEFINE S == 1 .. Len(rs)
           v == Lapses(id, rs)
           family == {T \in SUBSET S : Sigma(T, v) = 0}
<1>1. IsFiniteSet(S) /\ DOMAIN rs = S
    BY AllFinite DEF Written, Rows
<1>2. \A i \in S : v[i] = 0
    <2>1. \A i \in S : v[i] = ExpiredFrom(id, rs[i])
        BY LapsesAre DEF Written
    <2> QED
        BY <1>1, <2>1 DEF ExpiredFrom
<1> HIDE DEF S, v
<1>3. {} \in family
    <2>1. IsFiniteSet({})
        BY FS_EmptySet
    <2> QED
        BY <2>1, SigmaTakes
<1>4. ASSUME NEW T \in SUBSET S, NEW x \in S, T \in family PROVE T \cup {x} \in family
    <2>1. CASE x \in T
        <3>1. T \cup {x} = T
            BY <2>1
        <3> QED
            BY <1>4, <3>1
    <2>2. CASE x \notin T
        <3>1. IsFiniteSet(T)
            BY <1>1, FS_Subset
        <3>2. \A y \in T \cup {x} : v[y] \in Int
            BY <1>2, <1>4
        <3>3. Sigma(T \cup {x}, v) = Sigma(T, v) + v[x]
            BY <2>2, <3>1, <3>2, SigmaAdds
        <3> QED
            BY <1>2, <1>4, <3>3
    <2> QED
        BY <2>1, <2>2
<1>5. \A T \in SUBSET S, x \in S : T \in family => T \cup {x} \in family
    BY <1>4
<1> HIDE DEF family
<1>6. S \in family
    BY <1>1, <1>3, <1>5, OneByOne
<1>7. Expired(id, rs) = Sigma(S, v)
    BY ExpiredIsSigma DEF Written, S, v
<1> QED
    BY <1>6, <1>7 DEF family

-----------------------------------------------------------------------------
(* A ledger and the rows a transaction is about to add to it. *)

\* A row names nothing later than a time.
Within(r, m) == r.ref <= m /\ \A id \in IdsOf(r.alloc) : id <= m

\* Of no grant expires more than was granted, the rows R of a transaction included.
Affords(L, R) ==
    \A i \in DOMAIN L : IsGrant(L[i]) => Expired(L[i].ref, L) + Expired(L[i].ref, R) <= L[i].delta

NotTwice(L) == \A i \in DOMAIN L : IsGrant(L[i]) => Expired(L[i].ref, L) <= L[i].delta

\* A ledger at a time.
GoodLedger(L, m) ==
    /\ Written(L) /\ IsLedger(L) /\ NotTwice(L)
    /\ \A i \in DOMAIN L : Within(L[i], m)

\* The rows R, for the ledger L, of a transaction that began at b.
IsDraft(L, R, b, m) ==
    /\ Written(R)
    /\ \A i \in DOMAIN R :
          Told(R[i]) /\ R[i].at = b /\ R[i].ref \in Refs(L) \cup {b} /\ Within(R[i], m)
    /\ \A i, j \in DOMAIN R : i # j /\ IsGrant(R[i]) => IsExpiry(R[j])
    /\ \A i \in DOMAIN L, j \in DOMAIN R : OnlyExpires(L[i], R[j])
    /\ Affords(L, R)

OnlyExpiries(R) == \A i \in DOMAIN R : IsExpiry(R[i])
NoGrants(R) == \A i \in DOMAIN R : ~IsGrant(R[i])

(***************************************************************************)
(* Buckets D that a transaction has found lapsed and not yet expired: each *)
(* may be expired once in full.                                            *)
(***************************************************************************)
Outstanding(L, R, D, b) ==
    /\ \A k \in DOMAIN D : D[k].id < b /\ D[k].id \in Refs(L)
    /\ \A k, l \in DOMAIN D : k # l => D[k].id # D[l].id
    /\ \A i \in DOMAIN L, k \in DOMAIN D :
          IsGrant(L[i]) /\ D[k].id = L[i].ref =>
              Expired(L[i].ref, L) + Expired(L[i].ref, R) + D[k].left <= L[i].delta

\* A refund of a transaction that began at b is of an earlier charge.
Recalls(L, t, b) ==
    t.type = "refund" =>
        /\ t.ref \in Refs(L) /\ t.ref < b
        /\ \A i \in DOMAIN L :
              L[i].ref = t.ref =>
                  /\ ~IsGrant(L[i])
                  /\ L[i].kind = "consume" => \A id \in IdsOf(L[i].alloc) : id < b

\* The fields of a row that can be replayed.
LEMMA ReadableRow ==
    ASSUME NEW rs, Written(rs), NEW i \in DOMAIN rs
    PROVE  /\ Readable(rs[i])
           /\ rs[i].ref \in Nat /\ rs[i].delta \in Int /\ rs[i].at \in Nat
           /\ \A id \in IdsOf(rs[i].alloc) : id \in Nat
<1>1. Readable(rs[i])
    BY DEF Written, Rows
<1>2. rs[i].ref \in Nat /\ rs[i].delta \in Int /\ rs[i].at \in Nat /\ rs[i].alloc \in Seq(Allocation)
    BY <1>1 DEF Readable
<1> DEFINE alloc == rs[i].alloc
<1>3. ASSUME NEW k \in DOMAIN alloc PROVE alloc[k].id \in Nat
    <2>1. alloc[k] \in Allocation
        BY <1>2
    <2> QED
        BY <2>1 DEF Allocation
<1> QED
    BY <1>1, <1>2, <1>3 DEF IdsOf

\* What expires is a number.
LEMMA ExpiredIsInt ==
    ASSUME NEW rs, Written(rs), NEW id
    PROVE  Expired(id, rs) \in Int
BY ExpiredIsSigma DEF Written

\* What is within one time is within a later one.
LEMMA LaterToo ==
    ASSUME NEW rs, Written(rs), NEW m \in Nat, NEW i \in DOMAIN rs, Within(rs[i], m)
    PROVE  Within(rs[i], m + 1)
<1>1. rs[i].ref \in Nat /\ \A id \in IdsOf(rs[i].alloc) : id \in Nat
    BY ReadableRow
<1> QED
    BY <1>1 DEF Within

\* No rows.
LEMMA NoRows == Written(<<>>) /\ DOMAIN <<>> = {} /\ \A id : Expired(id, <<>>) = 0
<1> DEFINE none == <<>>
<1>1. IsSeq(none) /\ DOMAIN none = {} /\ AllRows(none)
    BY EmptyRows DEF AllRows
<1> HIDE DEF none
<1>2. Written(none)
    BY <1>1, RowsOfSeq DEF Written
<1>3. \A id : Expired(id, none) = 0
    BY <1>1, <1>2, NothingExpires
<1> QED
    BY <1>1, <1>2, <1>3 DEF none

\* A transaction that has written no rows.
LEMMA NoDraft ==
    ASSUME NEW L, NEW m, GoodLedger(L, m), NEW b, NEW R, R = <<>>
    PROVE  /\ IsDraft(L, R, b, m) /\ OnlyExpiries(R) /\ NoGrants(R)
           /\ \A id : Expired(id, R) = 0
<1>1. Written(R) /\ DOMAIN R = {} /\ \A id : Expired(id, R) = 0
    BY NoRows
<1>2. Affords(L, R)
    <2> SUFFICES ASSUME NEW i \in DOMAIN L, IsGrant(L[i])
                 PROVE  Expired(L[i].ref, L) + Expired(L[i].ref, R) <= L[i].delta
        BY DEF Affords
    <2>1. Expired(L[i].ref, L) \in Int /\ Expired(L[i].ref, L) <= L[i].delta
        BY ExpiredIsInt DEF GoodLedger, NotTwice
    <2>2. Expired(L[i].ref, R) = 0
        BY <1>1
    <2> QED
        BY <2>1, <2>2
<1> QED
    BY <1>1, <1>2 DEF IsDraft, OnlyExpiries, NoGrants

\* What of a row is needed to write it.
MayFollow(e, L, b, m) ==
    /\ Readable(e) /\ Told(e) /\ e.at = b
    /\ e.ref \in Refs(L) \cup {b} /\ Within(e, m)
    /\ \A i \in DOMAIN L : OnlyExpires(L[i], e)

\* One more row.
LEMMA DraftGrows ==
    ASSUME NEW L, NEW R, NEW b, NEW m, IsDraft(L, R, b, m), NEW e, MayFollow(e, L, b, m),
           NoGrants(R), IsGrant(e) => OnlyExpiries(R),
           \A i \in DOMAIN L :
               IsGrant(L[i]) => Expired(L[i].ref, L) + Expired(L[i].ref, R)
                                   + ExpiredFrom(L[i].ref, e) <= L[i].delta,
           Written(L)
    PROVE  IsDraft(L, Append(R, e), b, m)
<1> DEFINE new == Append(R, e)
<1>1. Written(R) /\ IsSeq(R) /\ Readable(e)
    BY DEF IsDraft, Written, MayFollow
<1>2. Written(new) /\ \A id : Expired(id, new) = Expired(id, R) + ExpiredFrom(id, e)
    BY <1>1, WrittenMore
<1>3. \A k \in DOMAIN new : (k \in DOMAIN R /\ new[k] = R[k]) \/ (k = Len(R) + 1 /\ new[k] = e)
    BY <1>1, ElementsOfMore
<1> HIDE DEF new
<1>4. \A i \in DOMAIN new :
          Told(new[i]) /\ new[i].at = b /\ new[i].ref \in Refs(L) \cup {b} /\ Within(new[i], m)
    BY <1>3 DEF IsDraft, MayFollow
<1>5. \A i, j \in DOMAIN new : i # j /\ IsGrant(new[i]) => IsExpiry(new[j])
    BY <1>3 DEF NoGrants, OnlyExpiries
<1>6. \A i \in DOMAIN L, j \in DOMAIN new : OnlyExpires(L[i], new[j])
    BY <1>3 DEF IsDraft, MayFollow
<1>7. Affords(L, new)
    <2> SUFFICES ASSUME NEW i \in DOMAIN L, IsGrant(L[i])
                 PROVE  Expired(L[i].ref, L) + Expired(L[i].ref, new) <= L[i].delta
        BY DEF Affords
    <2>1. Expired(L[i].ref, L) \in Int /\ Expired(L[i].ref, R) \in Int
        BY <1>1, ExpiredIsInt
    <2>2. ExpiredFrom(L[i].ref, e) \in Int
        BY <1>1 DEF Readable, ExpiredFrom
    <2>3. Expired(L[i].ref, new) = Expired(L[i].ref, R) + ExpiredFrom(L[i].ref, e)
        BY <1>2
    <2> QED
        BY <2>1, <2>2, <2>3
<1> QED
    BY <1>2, <1>4, <1>5, <1>6, <1>7 DEF IsDraft, new

\* A row of the request itself, or of a refund, expires no grant of the ledger.
LEMMA OtherRowFits ==
    ASSUME NEW L, NEW R, NEW b, NEW m, IsDraft(L, R, b, m), Written(L), NEW e, MayFollow(e, L, b, m),
           b \notin Refs(L), e.kind = "refund" \/ e.ref = b,
           NoGrants(R), IsGrant(e) => OnlyExpiries(R)
    PROVE  IsDraft(L, Append(R, e), b, m)
<1>1. ASSUME NEW i \in DOMAIN L, IsGrant(L[i])
      PROVE  Expired(L[i].ref, L) + Expired(L[i].ref, R) + ExpiredFrom(L[i].ref, e) <= L[i].delta
    <2>1. e.kind = "refund" \/ e.ref # L[i].ref
        BY DEF Refs
    <2>2. ExpiredFrom(L[i].ref, e) = 0
        BY <2>1 DEF ExpiredFrom
    <2>3. Expired(L[i].ref, L) \in Int /\ Expired(L[i].ref, R) \in Int
        BY ExpiredIsInt DEF IsDraft
    <2>4. Expired(L[i].ref, L) + Expired(L[i].ref, R) <= L[i].delta
        BY <1>1 DEF IsDraft, Affords
    <2> QED
        BY <2>2, <2>3, <2>4
<1> QED
    BY <1>1, DraftGrows

\* A bucket that is expired.
LEMMA ExpiryFits ==
    ASSUME NEW L, NEW R, NEW b, NEW m, IsDraft(L, R, b, m), Written(L), OnlyExpiries(R),
           NEW D \in Seq(Bucket), D # <<>>, Outstanding(L, R, D, b),
           NEW e, MayFollow(e, L, b, m), IsExpiry(e),
           e.ref = Head(D).id, -e.delta <= Head(D).left
    PROVE  /\ IsDraft(L, Append(R, e), b, m)
           /\ OnlyExpiries(Append(R, e))
           /\ Outstanding(L, Append(R, e), Tail(D), b)
<1> DEFINE new == Append(R, e)
           rest == Tail(D)
<1>1. Written(R) /\ IsSeq(R) /\ Readable(e) /\ e.delta \in Int
    BY DEF IsDraft, Written, MayFollow, Readable
<1>2. \A id : Expired(id, new) = Expired(id, R) + ExpiredFrom(id, e)
    BY <1>1, WrittenMore
<1>3. /\ 1 \in DOMAIN D /\ Head(D) = D[1]
      /\ \A k \in DOMAIN rest : k + 1 \in DOMAIN D /\ k + 1 # 1 /\ rest[k] = D[k + 1] /\ k \in Nat
    <2>1. Len(rest) = Len(D) - 1 /\ DOMAIN D = 1 .. Len(D) /\ Len(D) \in Nat /\ Len(D) # 0
          /\ DOMAIN rest = 1 .. Len(rest)
          /\ \A k \in 1 .. Len(rest) : rest[k] = D[k + 1]
        OBVIOUS
    <2> HIDE DEF rest
    <2> QED
        BY <2>1
<1>4. ASSUME NEW k \in DOMAIN D PROVE D[k].left \in Nat /\ D[k].id \in Nat
    <2>1. D[k] \in Bucket
        OBVIOUS
    <2> QED
        BY <2>1 DEF Bucket
<1> HIDE DEF new, rest
<1>5. ASSUME NEW id
      PROVE  ExpiredFrom(id, e) = IF D[1].id = id THEN -e.delta ELSE 0
    BY <1>3 DEF IsExpiry, ExpiredFrom
<1>6. IsDraft(L, new, b, m)
    <2>1. ASSUME NEW i \in DOMAIN L, IsGrant(L[i])
          PROVE  Expired(L[i].ref, L) + Expired(L[i].ref, R) + ExpiredFrom(L[i].ref, e) <= L[i].delta
        <3>1. Expired(L[i].ref, L) \in Int /\ Expired(L[i].ref, R) \in Int /\ L[i].delta \in Int
            BY ExpiredIsInt, ReadableRow DEF IsDraft
        <3>2. CASE D[1].id = L[i].ref
            <4>1. Expired(L[i].ref, L) + Expired(L[i].ref, R) + D[1].left <= L[i].delta
                BY <1>3, <2>1, <3>2 DEF Outstanding
            <4>2. ExpiredFrom(L[i].ref, e) = -e.delta /\ -e.delta <= D[1].left /\ D[1].left \in Nat
                BY <1>3, <1>4, <1>5, <3>2
            <4>3. \A v, w, x, y, z \in Int : v + w + x <= y /\ z <= x => v + w + z <= y
                OBVIOUS
            <4>4. D[1].left \in Int /\ -e.delta \in Int
                BY <1>1, <4>2
            <4> QED
                BY <3>1, <4>1, <4>2, <4>3, <4>4
        <3>3. CASE D[1].id # L[i].ref
            <4>1. Expired(L[i].ref, L) + Expired(L[i].ref, R) <= L[i].delta
                BY <2>1 DEF IsDraft, Affords
            <4>2. ExpiredFrom(L[i].ref, e) = 0
                BY <1>5, <3>3
            <4> QED
                BY <3>1, <4>1, <4>2
        <3> QED
            BY <3>2, <3>3
    <2>2. NoGrants(R) /\ ~IsGrant(e)
        BY DEF NoGrants, OnlyExpiries, IsExpiry, IsGrant
    <2> QED
        BY <2>1, <2>2, DraftGrows DEF new
<1>7. OnlyExpiries(new)
    <2>1. \A k \in DOMAIN new : (k \in DOMAIN R /\ new[k] = R[k]) \/ (k = Len(R) + 1 /\ new[k] = e)
        BY <1>1, ElementsOfMore DEF new
    <2> QED
        BY <2>1 DEF OnlyExpiries
<1>8. Outstanding(L, new, rest, b)
    <2>1. \A k \in DOMAIN rest : rest[k].id < b /\ rest[k].id \in Refs(L) /\ rest[k].id # D[1].id
        BY <1>3 DEF Outstanding
    <2>2. ASSUME NEW k \in DOMAIN rest, NEW l \in DOMAIN rest, k # l
          PROVE  rest[k].id # rest[l].id
        <3>1. k + 1 # l + 1
            BY <1>3, <2>2
        <3> QED
            BY <1>3, <3>1 DEF Outstanding
    <2>3. ASSUME NEW i \in DOMAIN L, NEW k \in DOMAIN rest, IsGrant(L[i]), rest[k].id = L[i].ref
          PROVE  Expired(L[i].ref, L) + Expired(L[i].ref, new) + rest[k].left <= L[i].delta
        <3>1. Expired(L[i].ref, L) + Expired(L[i].ref, R) + rest[k].left <= L[i].delta
            BY <1>3, <2>3 DEF Outstanding
        <3>2. ExpiredFrom(L[i].ref, e) = 0
            BY <1>5, <2>1, <2>3
        <3>3. Expired(L[i].ref, R) \in Int
            BY ExpiredIsInt DEF IsDraft
        <3>4. Expired(L[i].ref, new) = Expired(L[i].ref, R)
            BY <1>2, <3>2, <3>3 DEF new
        <3> QED
            BY <3>1, <3>4
    <2> QED
        BY <2>1, <2>2, <2>3 DEF Outstanding
<1> QED
    BY <1>6, <1>7, <1>8 DEF new, rest

(***************************************************************************)
(* The ledger with the rows of a transaction committed.                    *)
(***************************************************************************)
LEMMA DraftCommits ==
    ASSUME NEW L, NEW R, NEW b \in Nat, NEW m, GoodLedger(L, m), IsDraft(L, R, b, m), b \notin Refs(L)
    PROVE  GoodLedger(L \o R, m) /\ Refs(L \o R) \subseteq Refs(L) \cup {b}
<1> DEFINE w == L \o R
<1>1. Written(L) /\ Written(R) /\ IsSeq(L) /\ IsSeq(R)
    BY DEF GoodLedger, IsDraft, Written
<1>2. Written(w) /\ \A id : Expired(id, w) = Expired(id, L) + Expired(id, R)
    BY <1>1, WrittenBoth
<1>3. \A k \in DOMAIN w :
          \/ k \in DOMAIN L /\ w[k] = L[k]
          \/ /\ k \notin DOMAIN L /\ k - Len(L) \in DOMAIN R /\ w[k] = R[k - Len(L)]
             /\ k = Len(L) + (k - Len(L))
    BY <1>1, ElementsOfBoth
<1> HIDE DEF w
<1>4. ASSUME NEW k \in DOMAIN w
      PROVE  Told(w[k]) /\ Within(w[k], m) /\ w[k].ref \in Refs(L) \cup {b}
    <2>1. CASE k \in DOMAIN L /\ w[k] = L[k]
        BY <2>1 DEF GoodLedger, IsLedger, Refs
    <2>2. CASE k - Len(L) \in DOMAIN R /\ w[k] = R[k - Len(L)]
        BY <2>2 DEF IsDraft
    <2> QED
        BY <1>3, <2>1, <2>2
<1>5. \A i \in DOMAIN R : IsGrant(R[i]) => R[i].ref = b /\ R[i].delta > 0
    BY DEF IsDraft, Told, IsExpiry, IsRefund, IsOwn, IsGrant
<1>6. ASSUME NEW k \in DOMAIN w, NEW l \in DOMAIN w, k # l
      PROVE  OnlyExpires(w[k], w[l])
    <2>1. CASE k \in DOMAIN L /\ w[k] = L[k] /\ l \in DOMAIN L /\ w[l] = L[l]
        BY <1>6, <2>1 DEF GoodLedger, IsLedger
    <2>2. CASE k \in DOMAIN L /\ w[k] = L[k] /\ l - Len(L) \in DOMAIN R /\ w[l] = R[l - Len(L)]
        BY <2>2 DEF IsDraft
    <2>3. CASE l \in DOMAIN L /\ w[l] = L[l] /\ k - Len(L) \in DOMAIN R /\ w[k] = R[k - Len(L)]
        <3>1. IsGrant(w[k]) => w[k].ref = b
            BY <1>5, <2>3
        <3>2. w[l].ref # b
            BY <2>3 DEF Refs
        <3> QED
            BY <3>1, <3>2 DEF OnlyExpires
    <2>4. CASE /\ k - Len(L) \in DOMAIN R /\ w[k] = R[k - Len(L)] /\ k = Len(L) + (k - Len(L))
               /\ l - Len(L) \in DOMAIN R /\ w[l] = R[l - Len(L)] /\ l = Len(L) + (l - Len(L))
        <3>1. k - Len(L) # l - Len(L)
            BY <1>6, <2>4
        <3>2. IsGrant(w[k]) => IsExpiry(w[l])
            BY <2>4, <3>1 DEF IsDraft
        <3> QED
            BY <3>2 DEF OnlyExpires
    <2> QED
        BY <1>3, <2>1, <2>2, <2>3, <2>4
<1>7. ASSUME NEW k \in DOMAIN w, IsGrant(w[k]) PROVE Expired(w[k].ref, w) <= w[k].delta
    <2>1. CASE k \in DOMAIN L /\ w[k] = L[k]
        BY <1>2, <1>7, <2>1 DEF IsDraft, Affords
    <2>2. CASE k - Len(L) \in DOMAIN R /\ w[k] = R[k - Len(L)]
        <3> DEFINE j == k - Len(L)
        <3>1. R[j].ref = b /\ R[j].delta > 0 /\ IsGrant(R[j]) /\ j \in DOMAIN R
            BY <1>5, <1>7, <2>2
        <3> HIDE DEF j
        <3>2. ASSUME NEW i \in DOMAIN L, L[i].kind = "subscription_expire" PROVE L[i].ref # b
            BY DEF Refs
        <3>3. ASSUME NEW i \in DOMAIN R, R[i].kind = "subscription_expire" PROVE R[i].ref # b
            <4>1. i # j
                BY <3>1, <3>3 DEF IsGrant
            <4>2. IsExpiry(R[i]) /\ R[i].at = b
                BY <3>1, <4>1 DEF IsDraft
            <4>3. R[i].ref \in Nat
                BY <1>1, ReadableRow
            <4> QED
                BY <4>2, <4>3 DEF IsExpiry
        <3>4. Expired(b, L) = 0 /\ Expired(b, R) = 0
            BY <1>1, <3>2, <3>3, NothingExpires
        <3>5. Expired(b, w) = 0
            BY <1>2, <3>4
        <3>6. R[j].delta \in Int
            BY <1>1, <3>1, ReadableRow
        <3> QED
            BY <2>2, <3>1, <3>5, <3>6 DEF j
    <2> QED
        BY <1>3, <2>1, <2>2
<1>8. GoodLedger(w, m)
    BY <1>2, <1>4, <1>6, <1>7 DEF GoodLedger, IsLedger, NotTwice
<1>9. Refs(w) \subseteq Refs(L) \cup {b}
    BY <1>4 DEF Refs
<1> QED
    BY <1>8, <1>9 DEF w

\* It can still be refunded from.
LEMMA DraftIsRecalled ==
    ASSUME NEW L, NEW R, NEW b \in Nat, NEW m, GoodLedger(L, m), IsDraft(L, R, b, m), b \notin Refs(L),
           NEW t, NEW c, Recalls(L, t, c)
    PROVE  Recalls(L \o R, t, c)
<1> SUFFICES ASSUME t.type = "refund"
             PROVE  /\ t.ref \in Refs(L \o R) /\ t.ref < c
                    /\ \A i \in DOMAIN (L \o R) :
                          (L \o R)[i].ref = t.ref =>
                              /\ ~IsGrant((L \o R)[i])
                              /\ (L \o R)[i].kind = "consume" =>
                                    \A id \in IdsOf((L \o R)[i].alloc) : id < c
    BY DEF Recalls
<1> DEFINE w == L \o R
<1>1. IsSeq(L) /\ IsSeq(R)
    BY DEF GoodLedger, IsDraft, Written
<1>2. /\ \A k \in DOMAIN L : k \in DOMAIN w /\ w[k] = L[k]
      /\ \A k \in DOMAIN w :
            (k \in DOMAIN L /\ w[k] = L[k]) \/ (k - Len(L) \in DOMAIN R /\ w[k] = R[k - Len(L)])
    BY <1>1, ElementsOfBoth
<1> HIDE DEF w
<1>3. /\ t.ref \in Refs(L) /\ t.ref < c
      /\ \A i \in DOMAIN L :
            L[i].ref = t.ref =>
                /\ ~IsGrant(L[i])
                /\ L[i].kind = "consume" => \A id \in IdsOf(L[i].alloc) : id < c
    BY DEF Recalls
<1>4. t.ref \in Refs(w) /\ t.ref # b
    BY <1>2, <1>3 DEF Refs
<1>5. \A j \in DOMAIN R : R[j].ref = t.ref => ~IsGrant(R[j]) /\ R[j].kind # "consume"
    BY <1>4 DEF IsDraft, Told, IsExpiry, IsRefund, IsOwn, IsGrant
<1>6. ASSUME NEW k \in DOMAIN w, w[k].ref = t.ref
      PROVE  /\ ~IsGrant(w[k])
             /\ w[k].kind = "consume" => \A id \in IdsOf(w[k].alloc) : id < c
    BY <1>2, <1>3, <1>5, <1>6
<1> QED
    BY <1>3, <1>4, <1>6 DEF w

-----------------------------------------------------------------------------
(***************************************************************************)
(* The inductive invariant behind GrantExpiresOnce.  No row names a grant  *)
(* but its own and its expiries; of no grant expires more than it gave,    *)
(* also with the rows that a transaction is about to commit; and what it   *)
(* has found lapsed and not yet expired still fits.                        *)
(***************************************************************************)
Dated(h) ==
    /\ began[h] \in 1 .. clock /\ clock < began[h] + Period
    /\ \A u \in Users : began[h] \notin Refs(ledger[u])
    /\ \A g \in Handlers \ {h} : step[g] # "idle" => began[g] # began[h]
    /\ Recalls(ledger[User(h)], task[h], began[h])

\* The rows and the lapsed buckets of a handler that has come to the step s.
Drafted(s, L, R, D, b, m) ==
    /\ IsDraft(L, R, b, m)
    /\ s \in {"scanned", "expiring", "ready"} => OnlyExpiries(R)
    /\ s # "written" => NoGrants(R)
    /\ s \in {"scanned", "expiring"} => Outstanding(L, R, D, b)

Looked(s) == s \notin {"idle", "begun", "ensured"}

GrantInv ==
    /\ \A u \in Users : GoodLedger(ledger[u], clock)
    /\ \A h \in Handlers : step[h] # "idle" => Dated(h)
    /\ \A h \in Handlers :
          Looked(step[h]) => Drafted(step[h], ledger[User(h)], rows[h], due[h], began[h], clock)

\* It holds of ledgers without rows.
LEMMA InitGrants == Init => GrantInv
<1> SUFFICES ASSUME Init PROVE GrantInv
    OBVIOUS
<1>1. \A u \in Users : Written(ledger[u]) /\ DOMAIN ledger[u] = {}
    BY NoRows DEF Init
<1>2. \A u \in Users : GoodLedger(ledger[u], clock)
    BY <1>1 DEF GoodLedger, IsLedger, NotTwice
<1>3. \A h \in Handlers : step[h] = "idle"
    BY DEF Init
<1> QED
    BY <1>2, <1>3 DEF GrantInv, Looked

\* The types the steps rely on.
LEMMA TimesAre ==
    ASSUME AccountInv, RecordInv, NEW h \in Handlers
    PROVE  /\ clock \in Nat /\ began[h] \in Nat /\ Period \in Nat \ {0}
           /\ IsSeq(rows[h]) /\ Rows(rows[h], Len(rows[h])) /\ Written(rows[h])
           /\ due[h] \in Seq(Bucket)
           /\ step[h] # "idle" => User(h) \in Users
<1>1. clock \in Nat /\ began[h] \in Nat /\ due[h] \in Seq(Bucket) /\ AllRows(rows[h])
    BY DEF RecordInv, Noted
<1>2. IsSeq(rows[h])
    BY DEF AccountInv, Typed
<1>3. step[h] # "idle" => User(h) \in Users
    BY DEF AccountInv, Asked
<1> QED
    BY <1>1, <1>2, <1>3, RowsOfSeq, ConstantsAssumption DEF Written

(***************************************************************************)
(* A step of a transaction that leaves the clock, what is committed and    *)
(* the other handlers alone keeps the invariant, if what the handler       *)
(* itself then has is sound.                                               *)
(***************************************************************************)
LEMMA OwnStepKeepsGrants ==
    ASSUME AccountInv, RecordInv, GrantInv, NEW h \in Handlers, step[h] # "idle",
           NEW s, s # "idle", step' = [step EXCEPT ![h] = s],
           UNCHANGED <<clock, ledger, task, began>>,
           \A g \in Handlers \ {h} : rows'[g] = rows[g] /\ due'[g] = due[g],
           Looked(s) => Drafted(s, ledger[User(h)], rows'[h], due'[h], began[h], clock)
    PROVE  GrantInv'
<1>1. \A g \in Handlers : User(g)' = User(g)
    BY DEF User
<1>2. step'[h] = s /\ \A g \in Handlers \ {h} : step'[g] = step[g]
    BY DEF AccountInv, Typed
<1>3. \A u \in Users : GoodLedger(ledger'[u], clock')
    BY DEF GrantInv
<1>4. \A g \in Handlers : step[g] # "idle" <=> step'[g] # "idle"
    BY <1>2
<1>5. ASSUME NEW g \in Handlers, step'[g] # "idle" PROVE Dated(g)'
    <2>1. Dated(g)
        BY <1>4, <1>5 DEF GrantInv
    <2> QED
        BY <1>1, <1>4, <2>1 DEF Dated
<1>6. ASSUME NEW g \in Handlers, Looked(step'[g])
      PROVE  Drafted(step'[g], ledger'[User(g)'], rows'[g], due'[g], began'[g], clock')
    <2>1. CASE g = h
        BY <1>1, <1>2, <1>6, <2>1
    <2>2. CASE g # h
        BY <1>1, <1>2, <1>6, <2>2 DEF GrantInv
    <2> QED
        BY <2>1, <2>2
<1> QED
    BY <1>3, <1>5, <1>6 DEF GrantInv

\* Rows that stay within a time stay within a later one.
LEMMA TimePasses ==
    ASSUME NEW m \in Nat
    PROVE  /\ \A L : GoodLedger(L, m) => GoodLedger(L, m + 1)
           /\ \A s, L, R, D, b : Drafted(s, L, R, D, b, m) => Drafted(s, L, R, D, b, m + 1)
<1>1. ASSUME NEW L, GoodLedger(L, m) PROVE GoodLedger(L, m + 1)
    <2>1. \A i \in DOMAIN L : Within(L[i], m + 1)
        BY <1>1, LaterToo DEF GoodLedger
    <2> QED
        BY <1>1, <2>1 DEF GoodLedger
<1>2. ASSUME NEW L, NEW R, NEW b, IsDraft(L, R, b, m) PROVE IsDraft(L, R, b, m + 1)
    <2>1. \A i \in DOMAIN R : Within(R[i], m + 1)
        BY <1>2, LaterToo DEF IsDraft
    <2> QED
        BY <1>2, <2>1 DEF IsDraft
<1> QED
    BY <1>1, <1>2 DEF Drafted

\* The passing of time keeps the invariant: no transaction outlives a period.
LEMMA TickKeepsGrants ==
    ASSUME AccountInv, RecordInv, GrantInv, Tick
    PROVE  GrantInv'
<1>1. clock \in Nat /\ clock' = clock + 1 /\ UNCHANGED <<ledger, step, task, began, due, rows>>
    BY DEF RecordInv, Tick
<1>2. \A u \in Users : GoodLedger(ledger'[u], clock')
    BY <1>1, TimePasses DEF GrantInv
<1>3. \A h \in Handlers : User(h)' = User(h)
    BY <1>1 DEF User
<1>4. ASSUME NEW h \in Handlers, step'[h] # "idle" PROVE Dated(h)'
    <2>1. Dated(h) /\ clock + 1 < began[h] + Period
        BY <1>1, <1>4 DEF GrantInv, Tick, Timely
    <2>2. began'[h] \in 1 .. clock' /\ clock' < began'[h] + Period
        BY <1>1, <2>1 DEF Dated
    <2> QED
        BY <1>1, <1>3, <2>1, <2>2 DEF Dated
<1>5. ASSUME NEW h \in Handlers, Looked(step'[h])
      PROVE  Drafted(step'[h], ledger'[User(h)'], rows'[h], due'[h], began'[h], clock')
    BY <1>1, <1>3, <1>5, TimePasses DEF GrantInv
<1> QED
    BY <1>2, <1>4, <1>5 DEF GrantInv

\* A refund that is asked for is of a charge in the ledger, which no grant has the reference of.
LEMMA RequestRecalls ==
    ASSUME NEW u \in Users, NEW m \in Nat, GoodLedger(ledger[u], m), NEW t \in Requests(u)
    PROVE  t.user = u /\ Recalls(ledger[u], t, m + 1)
<1> DEFINE L == ledger[u]
<1>1. t.user = u /\ (t.type = "refund" => t.ref \in ConsumedRefs(u))
    <2>1. CASE t \in [type : {"charge"}, user : {u}, quotes : Charges]
        BY <2>1
    <2>2. CASE t \in {[type |-> "grant", user |-> u, kind |-> g.kind, points |-> g.points] : g \in Grants}
        BY <2>2
    <2>3. CASE t \in [type : {"refund"}, user : {u}, ref : ConsumedRefs(u), points : Refunds]
        BY <2>3
    <2>4. CASE t \in [type : {"adjust"}, user : {u}, points : Adjustments]
        BY <2>4
    <2>5. CASE t \in [type : {"view"}, user : {u}]
        BY <2>5
    <2> QED
        BY <2>1, <2>2, <2>3, <2>4, <2>5 DEF Requests
<1>2. ASSUME t.type = "refund"
      PROVE  /\ t.ref \in Refs(L) /\ t.ref < m + 1
             /\ \A i \in DOMAIN L :
                   L[i].ref = t.ref =>
                       /\ ~IsGrant(L[i])
                       /\ L[i].kind = "consume" => \A id \in IdsOf(L[i].alloc) : id < m + 1
    <2>1. PICK c \in DOMAIN L : L[c].kind = "consume" /\ L[c].ref = t.ref
        BY <1>1, <1>2 DEF ConsumedRefs
    <2> HIDE DEF L
    <2>0. GoodLedger(L, m)
        BY DEF L
    <2>2. L[c].ref \in Nat /\ L[c].ref <= m
        BY <2>0, ReadableRow DEF GoodLedger, Within
    <2>3. ASSUME NEW i \in DOMAIN L, L[i].ref = t.ref PROVE ~IsGrant(L[i])
        <3>1. SUFFICES ASSUME IsGrant(L[i]) PROVE FALSE
            OBVIOUS
        <3>2. i # c
            BY <2>1, <3>1 DEF IsGrant
        <3>3. IsExpiry(L[c])
            BY <2>0, <2>1, <2>3, <3>1, <3>2 DEF GoodLedger, IsLedger, OnlyExpires
        <3> QED
            BY <2>1, <3>3 DEF IsExpiry
    <2>4. ASSUME NEW i \in DOMAIN L, NEW id \in IdsOf(L[i].alloc) PROVE id < m + 1
        <3>1. id \in Nat /\ id <= m
            BY <2>0, ReadableRow DEF GoodLedger, Within
        <3> QED
            BY <3>1
    <2> QED
        BY <2>1, <2>2, <2>3, <2>4 DEF Refs
<1> QED
    BY <1>1, <1>2 DEF Recalls

\* A request that begins keeps it: its time is later than anything in a ledger.
LEMMA BeginKeepsGrants ==
    ASSUME AccountInv, RecordInv, GrantInv, NEW h \in Handlers, Begin(h)
    PROVE  GrantInv'
<1>1. PICK u \in Users : \E t \in Requests(u) : task' = [task EXCEPT ![h] = t]
    BY DEF Begin
<1>2. PICK t \in Requests(u) : task' = [task EXCEPT ![h] = t]
    BY <1>1
<1>3. /\ clock \in Nat /\ clock' = clock + 1 /\ UNCHANGED <<ledger, due, rows>>
      /\ Period \in Nat \ {0} /\ Timely /\ step[h] = "idle"
      /\ began' = [began EXCEPT ![h] = clock + 1] /\ step' = [step EXCEPT ![h] = "begun"]
    BY ConstantsAssumption DEF RecordInv, Begin, Goto
<1>4. /\ task'[h] = t /\ began'[h] = clock' /\ step'[h] = "begun"
      /\ \A g \in Handlers \ {h} : task'[g] = task[g] /\ began'[g] = began[g] /\ step'[g] = step[g]
    BY <1>2, <1>3 DEF AccountInv, Typed, RecordInv
<1>5. \A g \in Handlers \ {h} : User(g)' = User(g)
    BY <1>4 DEF User
<1>6. \A v \in Users : GoodLedger(ledger'[v], clock')
    BY <1>3, TimePasses DEF GrantInv
<1>7. \A v \in Users : clock' \notin Refs(ledger[v])
    <2> SUFFICES ASSUME NEW v \in Users, NEW i \in DOMAIN ledger[v], ledger[v][i].ref = clock' PROVE FALSE
        BY DEF Refs
    <2>1. GoodLedger(ledger[v], clock)
        BY DEF GrantInv
    <2>2. ledger[v][i].ref \in Nat /\ ledger[v][i].ref <= clock
        BY <2>1, ReadableRow DEF GoodLedger, Within
    <2> QED
        BY <1>3, <2>2
<1>8. ASSUME NEW g \in Handlers, g # h, step[g] # "idle"
      PROVE  began'[g] # clock' /\ began'[g] \in 1 .. clock' /\ clock' < began'[g] + Period
    <2>1. Dated(g) /\ clock + 1 < began[g] + Period
        BY <1>3, <1>8 DEF GrantInv, Timely
    <2>2. began[g] \in 1 .. clock /\ began'[g] = began[g]
        BY <1>4, <1>8, <2>1 DEF Dated
    <2> QED
        BY <1>3, <2>1, <2>2
<1>9. Dated(h)'
    <2>1. User(h)' = u /\ Recalls(ledger[u], t, clock')
        BY <1>3, <1>4, RequestRecalls DEF GrantInv, User
    <2>2. began'[h] \in 1 .. clock' /\ clock' < began'[h] + Period
        BY <1>3, <1>4
    <2>3. \A v \in Users : began'[h] \notin Refs(ledger'[v])
        BY <1>3, <1>4, <1>7
    <2>4. \A g \in Handlers \ {h} : step'[g] # "idle" => began'[g] # began'[h]
        BY <1>4, <1>8
    <2>5. Recalls(ledger'[User(h)'], task'[h], began'[h])
        BY <1>3, <1>4, <2>1
    <2> QED
        BY <2>2, <2>3, <2>4, <2>5 DEF Dated
<1>10. ASSUME NEW g \in Handlers, g # h, step[g] # "idle" PROVE Dated(g)'
    <2>1. Dated(g)
        BY <1>10 DEF GrantInv
    <2>2. began'[g] \in 1 .. clock' /\ clock' < began'[g] + Period /\ began'[g] = began[g]
        BY <1>4, <1>8, <1>10
    <2>3. \A v \in Users : began'[g] \notin Refs(ledger'[v])
        BY <1>3, <2>1, <2>2 DEF Dated
    <2>4. \A f \in Handlers \ {g} : step'[f] # "idle" => began'[f] # began'[g]
        BY <1>4, <1>8, <1>10, <2>1 DEF Dated
    <2>5. Recalls(ledger'[User(g)'], task'[g], began'[g])
        BY <1>3, <1>4, <1>5, <1>10, <2>1 DEF Dated
    <2> QED
        BY <2>2, <2>3, <2>4, <2>5 DEF Dated
<1>11. \A g \in Handlers : step'[g] # "idle" => Dated(g)'
    BY <1>4, <1>9, <1>10
<1>12. ASSUME NEW g \in Handlers, Looked(step'[g])
       PROVE  Drafted(step'[g], ledger'[User(g)'], rows'[g], due'[g], began'[g], clock')
    <2>1. g # h
        BY <1>4, <1>12 DEF Looked
    <2>2. Drafted(step[g], ledger[User(g)], rows[g], due[g], began[g], clock)
        BY <1>4, <1>12, <2>1 DEF GrantInv
    <2>3. Drafted(step[g], ledger[User(g)], rows[g], due[g], began[g], clock + 1)
        BY <1>3, <2>2, TimePasses
    <2> QED
        BY <1>3, <1>4, <1>5, <2>1, <2>3
<1> QED
    BY <1>6, <1>11, <1>12 DEF GrantInv

\* What is known of a handler whose transaction is open.
LEMMA OpenTransaction ==
    ASSUME AccountInv, RecordInv, GrantInv, NEW h \in Handlers, step[h] # "idle"
    PROVE  LET L == ledger[User(h)]
               b == began[h]
           IN  /\ GoodLedger(L, clock) /\ Written(L) /\ b \notin Refs(L) /\ Recalls(L, task[h], b)
               /\ clock \in Nat /\ b \in Nat /\ b <= clock /\ clock < b + Period
               /\ Looked(step[h]) => Drafted(step[h], L, rows[h], due[h], b, clock)
<1>1. User(h) \in Users /\ clock \in Nat
    BY TimesAre
<1>2. Dated(h) /\ GoodLedger(ledger[User(h)], clock)
    BY <1>1 DEF GrantInv
<1>3. began[h] \in Nat /\ began[h] <= clock /\ clock < began[h] + Period
    BY <1>1, <1>2 DEF Dated
<1> QED
    BY <1>1, <1>2, <1>3 DEF GrantInv, GoodLedger, Dated

\* The upsert keeps the invariant.
LEMMA EnsureAccountKeepsGrants ==
    ASSUME AccountInv, RecordInv, GrantInv, NEW h \in Handlers, EnsureAccount(h)
    PROVE  GrantInv'
BY OwnStepKeepsGrants DEF EnsureAccount, Goto, Looked

\* What a transaction finds lapsed is older than itself, since it is younger than a period.
LEMMA ScanExpiredKeepsGrants ==
    ASSUME AccountInv, RecordInv, GrantInv, NEW h \in Handlers, ScanExpired(h)
    PROVE  GrantInv'
<1> DEFINE L == ledger[User(h)]
           b == began[h]
           found == ExpiredBuckets(L, clock)
<1>1. /\ step[h] = "ensured" /\ step' = [step EXCEPT ![h] = "scanned"]
      /\ due' = [due EXCEPT ![h] = found]
      /\ UNCHANGED <<clock, ledger, task, began, rows>>
    BY DEF ScanExpired, Goto
<1>2. /\ GoodLedger(L, clock) /\ Written(L)
      /\ clock \in Nat /\ b \in Nat /\ clock < b + Period /\ Period \in Nat
    BY <1>1, OpenTransaction, TimesAre
<1>3. rows[h] = <<>> /\ due'[h] = found /\ \A g \in Handlers \ {h} : due'[g] = due[g]
    BY <1>1 DEF AccountInv, NothingWrittenYet, RecordInv
<1> HIDE DEF L, b
<1>4. /\ \A k \in DOMAIN found : found[k].id \in Refs(L) /\ found[k].id + Period <= clock
      /\ \A k, l \in DOMAIN found : k # l => found[k].id # found[l].id
      /\ \A k \in DOMAIN found : \A j \in DOMAIN L :
            IsGrant(L[j]) /\ found[k].id = L[j].ref =>
                Expired(L[j].ref, L) + found[k].left <= L[j].delta
    BY <1>2, ExpiredBucketsAre DEF GoodLedger, Written
<1> HIDE DEF found
<1>5. /\ IsDraft(L, rows[h], b, clock) /\ OnlyExpiries(rows[h]) /\ NoGrants(rows[h])
      /\ \A id : Expired(id, rows[h]) = 0
    BY <1>2, <1>3, NoDraft
<1>6. Outstanding(L, rows[h], found, b)
    <2>1. \A k \in DOMAIN found : found[k].id < b
        <3>1. \A i \in DOMAIN L : L[i].ref \in Nat
            BY <1>2, ReadableRow
        <3>2. \A k \in DOMAIN found : found[k].id \in Nat
            BY <1>4, <3>1 DEF Refs
        <3> QED
            BY <1>2, <1>4, <3>2
    <2>2. ASSUME NEW i \in DOMAIN L, NEW k \in DOMAIN found, IsGrant(L[i]), found[k].id = L[i].ref
          PROVE  Expired(L[i].ref, L) + Expired(L[i].ref, rows[h]) + found[k].left <= L[i].delta
        <3>1. Expired(L[i].ref, L) \in Int
            BY <1>2, ExpiredIsInt
        <3>2. Expired(L[i].ref, L) + Expired(L[i].ref, rows[h]) = Expired(L[i].ref, L)
            BY <1>5, <3>1
        <3> QED
            BY <1>4, <2>2, <3>2
    <2> QED
        BY <1>4, <2>1, <2>2 DEF Outstanding
<1>7. Drafted("scanned", L, rows'[h], due'[h], b, clock)
    BY <1>1, <1>3, <1>5, <1>6 DEF Drafted
<1>8. \A g \in Handlers \ {h} : rows'[g] = rows[g] /\ due'[g] = due[g]
    BY <1>1, <1>3
<1> QED
    BY <1>1, <1>7, <1>8, OwnStepKeepsGrants DEF L, b

(***************************************************************************)
(* A step that writes no row, and that leaves what was found lapsed alone  *)
(* or is done with it.                                                     *)
(***************************************************************************)
LEMMA NoRowKeepsGrants ==
    ASSUME AccountInv, RecordInv, GrantInv, NEW h \in Handlers, Looked(step[h]),
           NEW s \in {"expiring", "ready", "charging", "written"},
           step' = [step EXCEPT ![h] = s], UNCHANGED <<clock, ledger, task, began, rows>>,
           \A g \in Handlers \ {h} : due'[g] = due[g],
           s = "expiring" => step[h] = "scanned" /\ due' = due,
           s = "ready" => step[h] \in {"scanned", "expiring"},
           s = "charging" => step[h] # "written"
    PROVE  GrantInv'
<1>1. step[h] # "idle"
    BY DEF Looked
<1>2. Drafted(step[h], ledger[User(h)], rows[h], due[h], began[h], clock)
    BY <1>1, OpenTransaction
<1>3. Drafted(s, ledger[User(h)], rows'[h], due'[h], began[h], clock)
    <2>1. OnlyExpiries(rows[h]) => NoGrants(rows[h])
        BY DEF OnlyExpiries, NoGrants, IsExpiry, IsGrant
    <2> QED
        BY <1>2, <2>1 DEF Drafted
<1> QED
    BY <1>1, <1>3, OwnStepKeepsGrants

\* What a handler does that writes one row with these fields.
AddsRow(h, kind, delta, ref, lapse, alloc) ==
    /\ \A g \in Handlers \ {h} : rows'[g] = rows[g]
    /\ \E e : /\ rows'[h] = Append(rows[h], e) /\ Readable(e)
              /\ e.kind = kind /\ e.delta = delta /\ e.ref = ref /\ e.at = began[h]
              /\ e.lapse = lapse /\ e.alloc = alloc

\* Write does it.
LEMMA WriteAddsRow ==
    ASSUME AccountInv, RecordInv, NEW h \in Handlers, total'[h] \in Int,
           NEW kind \in Kinds, NEW delta \in Int, NEW ref \in Nat, NEW lapse \in Nat,
           NEW alloc \in Seq(Allocation), kind = "refund" => delta > 0,
           Write(h, kind, delta, ref, lapse, alloc)
    PROVE  AddsRow(h, kind, delta, ref, lapse, alloc)
<1>1. PICK tie \in Ties :
          rows' = [rows EXCEPT ![h] =
                       Append(@, Row(h, kind, delta, ref, tie, lapse, alloc))]
    BY DEF Write
<1> DEFINE e == Row(h, kind, delta, ref, tie, lapse, alloc)
<1>2. began[h] \in Nat /\ DOMAIN rows = Handlers /\ tie \in Nat
    BY ConstantsAssumption DEF RecordInv, AccountInv, Typed
<1>3. e = [kind |-> kind, delta |-> delta, after |-> total'[h], ref |-> ref, at |-> began[h],
           tie |-> tie, lapse |-> lapse, alloc |-> alloc]
    BY DEF Row
<1> HIDE DEF e
<1>4. /\ e.kind = kind /\ e.delta = delta /\ e.ref = ref /\ e.at = began[h]
      /\ e.lapse = lapse /\ e.alloc = alloc /\ e.tie = tie
    BY <1>3
<1>5. Readable(e)
    BY <1>2, <1>4 DEF Readable
<1>6. rows'[h] = Append(rows[h], e) /\ \A g \in Handlers \ {h} : rows'[g] = rows[g]
    BY <1>1, <1>2, Zenon DEF e
<1>7. /\ \A g \in Handlers \ {h} : rows'[g] = rows[g]
      /\ \E x : /\ rows'[h] = Append(rows[h], x) /\ Readable(x)
                /\ x.kind = kind /\ x.delta = delta /\ x.ref = ref /\ x.at = began[h]
                /\ x.lapse = lapse /\ x.alloc = alloc
    BY <1>4, <1>5, <1>6
<1> QED
    BY <1>7 DEF AddsRow

\* An expiry of a bucket, and the row it writes.
LEMMA ExpiryRow ==
    ASSUME AccountInv, AccountInv', RecordInv, NEW h \in Handlers, ExpireBucket(h)
    PROVE  /\ step[h] = "expiring" /\ due[h] # <<>> /\ due' = [due EXCEPT ![h] = Tail(@)]
           /\ UNCHANGED <<clock, balance, ledger, task, began, step>>
           /\ due[h] \in Seq(Bucket) /\ Head(due[h]).id \in Nat /\ Head(due[h]).left \in Nat
           /\ total[h] \in Int
           /\ \E e : /\ rows'[h] = Append(rows[h], e) /\ Readable(e)
                     /\ e.kind = "subscription_expire" /\ e.delta < 0
                     /\ -e.delta <= total[h] /\ -e.delta <= Head(due[h]).left
                     /\ e.ref = Head(due[h]).id /\ e.at = began[h] /\ e.alloc = <<>>
                     /\ \A g \in Handlers \ {h} : rows'[g] = rows[g]
<1>1. /\ step[h] = "expiring" /\ due[h] # <<>> /\ due' = [due EXCEPT ![h] = Tail(@)]
      /\ UNCHANGED <<clock, balance, ledger, task, began, step>>
    BY DEF ExpireBucket
<1>2. PICK points \in 1..total[h], tie \in Ties :
          /\ points = Smaller(Head(due[h]).left, total[h])
          /\ rows' = [rows EXCEPT ![h] =
                Append(@, Row(h, "subscription_expire", -points, Head(due[h]).id, tie,
                              Never, <<>>))]
    BY DEF ExpireBucket
<1>3. total[h] \in Int /\ total'[h] \in Int /\ points \in Nat \ {0} /\ points <= total[h]
    BY DEF AccountInv, Typed
<1>4. due[h] \in Seq(Bucket) /\ Head(due[h]) \in Bucket
    BY <1>1 DEF RecordInv, Noted
<1>5. Head(due[h]).id \in Nat /\ Head(due[h]).left \in Nat
    BY <1>4 DEF Bucket
<1>6. points <= Head(due[h]).left
    BY <1>2, <1>3, <1>5 DEF Smaller
<1> DEFINE kind == "subscription_expire"
           none == <<>>
           ref == Head(due[h]).id
           delta == -points
<1>7. kind \in Kinds /\ none \in Seq(Allocation) /\ Never \in Nat
    BY NeverAssumption DEF Kinds
<1>8. delta \in Int /\ delta < 0 /\ -delta = points /\ ref \in Nat
    BY <1>3, <1>5
<1>9. Write(h, kind, delta, ref, Never, none)
    BY <1>2 DEF Write
<1>10. kind = "refund" => delta > 0
    OBVIOUS
<1> HIDE DEF kind, none, ref, delta
<1>11. AddsRow(h, kind, delta, ref, Never, none)
    BY <1>3, <1>7, <1>8, <1>9, <1>10, WriteAddsRow
<1>12. PICK e : /\ rows'[h] = Append(rows[h], e) /\ Readable(e) /\ e.kind = kind /\ e.delta = delta
                /\ e.ref = ref /\ e.at = began[h] /\ e.alloc = none
                /\ \A g \in Handlers \ {h} : rows'[g] = rows[g]
    BY <1>11 DEF AddsRow
<1>13. e.delta < 0 /\ -e.delta <= total[h] /\ -e.delta <= Head(due[h]).left
    BY <1>3, <1>6, <1>8, <1>12
<1> QED
    BY <1>1, <1>3, <1>4, <1>5, <1>12, <1>13 DEF kind, none, ref

\* An expiry of a bucket: what is outstanding fits, and it expires no more.
LEMMA ExpireBucketKeepsGrants ==
    ASSUME AccountInv, AccountInv', RecordInv, GrantInv, NEW h \in Handlers, ExpireBucket(h)
    PROVE  GrantInv'
<1> DEFINE L == ledger[User(h)]
           b == began[h]
           D == due[h]
           R == rows[h]
<1>1. /\ step[h] = "expiring" /\ D # <<>> /\ due' = [due EXCEPT ![h] = Tail(@)]
      /\ UNCHANGED <<clock, ledger, task, began, step>>
      /\ D \in Seq(Bucket) /\ Head(D).id \in Nat
    BY ExpiryRow
<1>2. PICK e : /\ rows'[h] = Append(rows[h], e) /\ Readable(e) /\ e.kind = "subscription_expire" /\ e.delta < 0
               /\ -e.delta <= total[h] /\ -e.delta <= Head(due[h]).left
               /\ e.ref = Head(due[h]).id /\ e.at = began[h] /\ e.alloc = <<>>
               /\ \A g \in Handlers \ {h} : rows'[g] = rows[g]
    BY ExpiryRow
<1>3. /\ Written(L) /\ b \notin Refs(L) /\ clock \in Nat /\ b \in Nat /\ b <= clock
      /\ Drafted("expiring", L, R, D, b, clock)
    BY <1>1, OpenTransaction DEF Looked
<1>4. /\ rows'[h] = Append(R, e) /\ Readable(e) /\ e.kind = "subscription_expire"
      /\ e.ref = Head(D).id /\ e.at = b /\ e.alloc = <<>>
      /\ \A g \in Handlers \ {h} : rows'[g] = rows[g]
      /\ e.delta < 0 /\ -e.delta <= Head(D).left
    BY <1>2
<1> HIDE DEF L, b, D, R
<1>5. IsDraft(L, R, b, clock) /\ OnlyExpiries(R) /\ Outstanding(L, R, D, b)
    BY <1>3 DEF Drafted
<1>6. D # <<>> /\ Head(D) = D[1] /\ 1 \in DOMAIN D
    BY <1>1
<1>7. e.ref < b /\ e.ref \in Refs(L)
    BY <1>4, <1>5, <1>6 DEF Outstanding
<1>8. IsExpiry(e)
    BY <1>4, <1>7 DEF IsExpiry
<1>9. IdsOf(e.alloc) = {}
    <2>1. DOMAIN e.alloc = {}
        BY <1>4, NoRows
    <2> QED
        BY <2>1 DEF IdsOf
<1>10. Within(e, clock)
    BY <1>1, <1>3, <1>4, <1>7, <1>9 DEF Within
<1>11. MayFollow(e, L, b, clock)
    BY <1>4, <1>7, <1>8, <1>10 DEF MayFollow, Told, OnlyExpires
<1>12. /\ IsDraft(L, Append(R, e), b, clock) /\ OnlyExpiries(Append(R, e))
       /\ Outstanding(L, Append(R, e), Tail(D), b)
    BY <1>1, <1>3, <1>4, <1>5, <1>6, <1>8, <1>11, ExpiryFits
<1>13. due'[h] = Tail(D) /\ \A g \in Handlers \ {h} : due'[g] = due[g]
    BY <1>1 DEF RecordInv, D
<1>14. Drafted("expiring", L, rows'[h], due'[h], b, clock)
    <2>1. NoGrants(rows'[h])
        BY <1>4, <1>12 DEF NoGrants, OnlyExpiries, IsExpiry, IsGrant
    <2> QED
        BY <1>4, <1>12, <1>13, <2>1 DEF Drafted
<1>15. step' = [step EXCEPT ![h] = "expiring"]
    BY <1>1 DEF AccountInv, Typed
<1> QED
    BY <1>1, <1>4, <1>13, <1>14, <1>15, OwnStepKeepsGrants DEF L, b

(***************************************************************************)
(* A row that a request itself makes: with the reference of the request,   *)
(* or the refund of an earlier charge.                                     *)
(***************************************************************************)
OwnRow(h, kind, delta, ref, lapse, alloc) ==
    /\ ref = began[h]
    /\ kind = "subscription_grant" => delta > 0 /\ lapse = began[h] + Period
    /\ kind # "consume" => alloc = <<>>
    /\ \A id \in IdsOf(alloc) : id <= clock

RefundRow(h, kind, ref, alloc) ==
    LET L == ledger[User(h)]
    IN  /\ kind = "refund" /\ ref \in Refs(L) /\ ref < began[h]
        /\ \A id \in IdsOf(alloc) : id \in Nat /\ id < began[h]
        /\ \A i \in DOMAIN L : L[i].ref = ref => ~IsGrant(L[i])

LEMMA OneRowKeepsGrants ==
    ASSUME AccountInv, RecordInv, GrantInv, NEW h \in Handlers,
           NEW s \in {"charging", "written"}, step[h] \in {"ready", "charging"},
           step' = [step EXCEPT ![h] = s], UNCHANGED <<clock, ledger, task, began, due>>,
           total'[h] \in Int,
           NEW kind \in Kinds, NEW delta \in Int, NEW ref \in Nat, NEW lapse \in Nat,
           NEW alloc \in Seq(Allocation), kind = "refund" => delta > 0,
           Write(h, kind, delta, ref, lapse, alloc),
           OwnRow(h, kind, delta, ref, lapse, alloc) \/ RefundRow(h, kind, ref, alloc),
           kind = "subscription_grant" => step[h] = "ready" /\ s = "written"
    PROVE  GrantInv'
<1> DEFINE L == ledger[User(h)]
           b == began[h]
           R == rows[h]
<1>1. /\ Written(L) /\ b \notin Refs(L) /\ clock \in Nat /\ b \in Nat /\ b <= clock
      /\ Drafted(step[h], L, R, due[h], b, clock) /\ step[h] # "idle"
    BY OpenTransaction DEF Looked
<1>2. IsDraft(L, R, b, clock) /\ NoGrants(R) /\ (kind = "subscription_grant" => OnlyExpiries(R))
    BY <1>1 DEF Drafted
<1>3. PICK e : /\ rows'[h] = Append(R, e) /\ Readable(e) /\ e.kind = kind
               /\ e.delta = delta /\ e.ref = ref /\ e.at = b /\ e.lapse = lapse /\ e.alloc = alloc
               /\ \A g \in Handlers \ {h} : rows'[g] = rows[g]
    <2>1. AddsRow(h, kind, delta, ref, lapse, alloc)
        BY WriteAddsRow
    <2> QED
        BY <2>1 DEF AddsRow
<1> HIDE DEF L, b, R
<1>4. MayFollow(e, L, b, clock) /\ (e.kind = "refund" \/ e.ref = b)
    <2>1. CASE OwnRow(h, kind, delta, ref, lapse, alloc)
        <3>1. e.ref = b /\ e.at = b /\ \A id \in IdsOf(e.alloc) : id <= clock
            BY <1>3, <2>1 DEF OwnRow, b
        <3>2. IsOwn(e)
            BY <1>3, <2>1 DEF OwnRow, IsOwn, IsGrant, b
        <3>3. \A i \in DOMAIN L : OnlyExpires(L[i], e)
            BY <1>1, <3>1 DEF OnlyExpires, Refs
        <3>4. Within(e, clock)
            BY <1>1, <3>1 DEF Within
        <3> QED
            BY <1>3, <3>1, <3>2, <3>3, <3>4 DEF MayFollow, Told
    <2>2. CASE RefundRow(h, kind, ref, alloc)
        <3>1. /\ e.kind = "refund" /\ e.ref \in Refs(L) /\ e.ref < b /\ e.at = b
              /\ \A id \in IdsOf(e.alloc) : id \in Nat /\ id < b
              /\ \A i \in DOMAIN L : L[i].ref = e.ref => ~IsGrant(L[i])
            BY <1>3, <2>2 DEF RefundRow, b, L
        <3>2. IsRefund(e)
            BY <3>1 DEF IsRefund
        <3>3. Within(e, clock)
            BY <1>1, <1>3, <3>1 DEF Within
        <3> QED
            BY <1>3, <3>1, <3>2, <3>3 DEF MayFollow, Told, OnlyExpires
    <2> QED
        BY <2>1, <2>2
<1>5. IsDraft(L, rows'[h], b, clock)
    BY <1>1, <1>2, <1>3, <1>4, OtherRowFits DEF IsGrant
<1>6. kind # "subscription_grant" => NoGrants(rows'[h])
    <2>1. IsSeq(R)
        BY <1>2 DEF IsDraft, Written
    <2>2. \A k \in DOMAIN Append(R, e) :
              \/ k \in DOMAIN R /\ Append(R, e)[k] = R[k]
              \/ k = Len(R) + 1 /\ Append(R, e)[k] = e
        BY <2>1, ElementsOfMore
    <2> QED
        BY <1>2, <1>3, <2>2 DEF NoGrants, IsGrant
<1>7. Drafted(s, L, rows'[h], due'[h], b, clock)
    BY <1>5, <1>6 DEF Drafted
<1> QED
    BY <1>1, <1>3, <1>7, OwnStepKeepsGrants DEF L, b

\* No identifiers in no allocations.
LEMMA NoIds == ASSUME NEW s, s = <<>> PROVE IdsOf(s) = {}
<1>1. DOMAIN s = {}
    BY NoRows
<1> QED
    BY <1>1 DEF IdsOf

\* The expiry keeps the invariant (_reconcile_expired_subscription_points).
LEMMA ExpireKeepsGrants ==
    ASSUME AccountInv, AccountInv', RecordInv, GrantInv, NEW h \in Handlers, Expire(h)
    PROVE  GrantInv'
<1>1. CASE ScanExpired(h)
    BY <1>1, ScanExpiredKeepsGrants
<1>2. CASE NothingExpired(h)
    BY <1>2, NoRowKeepsGrants DEF NothingExpired, Goto, Looked
<1>3. CASE LockForExpiry(h)
    BY <1>3, NoRowKeepsGrants DEF LockForExpiry, Goto, Looked
<1>4. CASE ExpireBucket(h)
    BY <1>4, ExpireBucketKeepsGrants
<1>5. CASE ExpiryDone(h)
    <2>1. \A g \in Handlers \ {h} : due'[g] = due[g]
        BY <1>5 DEF ExpiryDone, RecordInv
    <2> QED
        BY <1>5, <2>1, NoRowKeepsGrants DEF ExpiryDone, Goto, Looked
<1> QED
    BY <1>1, <1>2, <1>3, <1>4, <1>5 DEF Expire

\* A grant has the reference of its own transaction (_grant_points_with_ledger).
LEMMA GrantPointsKeepsGrants ==
    ASSUME AccountInv, AccountInv', RecordInv, GrantInv, NEW h \in Handlers, GrantPoints(h)
    PROVE  GrantInv'
<1> DEFINE kind == task[h].kind
           points == task[h].points
           lapse == IF task[h].kind = "subscription_grant" THEN began[h] + Period ELSE Never
           none == <<>>
<1>0. /\ total'[h] \in Int /\ began[h] \in Nat /\ Never \in Nat /\ none \in Seq(Allocation)
      /\ task[h] \in Tasks /\ Period \in Nat
    BY NeverAssumption, ConstantsAssumption DEF AccountInv, Typed, RecordInv, Noted
<1>1. kind \in Kinds /\ points \in Int /\ points > 0
    BY <1>0, TaskSays DEF GrantPoints, Kinds
<1>2. lapse \in Nat /\ (kind = "subscription_grant" => lapse = began[h] + Period)
    BY <1>0
<1>3. Write(h, kind, points, began[h], lapse, none)
    BY DEF GrantPoints
<1>4. /\ step[h] = "ready" /\ step' = [step EXCEPT ![h] = "written"]
      /\ UNCHANGED <<clock, ledger, task, began, due>>
    BY DEF GrantPoints, Goto
<1>5. none = <<>> /\ IdsOf(none) = {}
    BY NoIds
<1> HIDE DEF kind, points, lapse, none
<1>6. OwnRow(h, kind, points, began[h], lapse, none)
    BY <1>1, <1>2, <1>5 DEF OwnRow
<1> QED
    BY <1>0, <1>1, <1>2, <1>3, <1>4, <1>6, OneRowKeepsGrants

\* An adjustment is no grant (_adjust_user_points_with_ledger).
LEMMA AdjustPointsKeepsGrants ==
    ASSUME AccountInv, AccountInv', RecordInv, GrantInv, NEW h \in Handlers, AdjustPoints(h)
    PROVE  GrantInv'
<1> DEFINE kind == "admin_adjustment"
           points == task[h].points
           none == <<>>
<1>0. /\ total'[h] \in Int /\ began[h] \in Nat /\ Never \in Nat /\ none \in Seq(Allocation)
      /\ task[h] \in Tasks
    BY NeverAssumption DEF AccountInv, Typed, RecordInv, Noted
<1>1. kind \in Kinds /\ kind # "refund" /\ kind # "subscription_grant" /\ points \in Int
    BY <1>0, TaskSays DEF AdjustPoints, Kinds
<1>2. Write(h, kind, points, began[h], Never, none)
    BY DEF AdjustPoints
<1>3. /\ step[h] = "ready" /\ step' = [step EXCEPT ![h] = "written"]
      /\ UNCHANGED <<clock, ledger, task, began, due>>
    BY DEF AdjustPoints, Goto
<1>4. none = <<>> /\ IdsOf(none) = {}
    BY NoIds
<1> HIDE DEF kind, points, none
<1>5. OwnRow(h, kind, points, began[h], Never, none)
    BY <1>1, <1>4 DEF OwnRow
<1> QED
    BY <1>0, <1>1, <1>2, <1>3, <1>5, OneRowKeepsGrants

\* A refund names the reference of a charge, and buckets older than itself (refund_points).
LEMMA RefundPointsKeepsGrants ==
    ASSUME AccountInv, AccountInv', RecordInv, GrantInv, NEW h \in Handlers, RefundPoints(h)
    PROVE  GrantInv'
<1> DEFINE kind == "refund"
           points == task[h].points
           ref == task[h].ref
           L == ledger[User(h)]
           R == rows[h]
           seen == L \o R
           alloc == RefundAllocations(Visible(h), ref, points)
<1>0. /\ total'[h] \in Int /\ Never \in Nat /\ task[h] \in Tasks
    BY NeverAssumption DEF AccountInv, Typed, RecordInv, Noted
<1>1. /\ kind \in Kinds /\ points \in Int /\ points > 0 /\ points \in Nat /\ ref \in Nat
      /\ kind # "subscription_grant"
    BY <1>0, TaskSays DEF RefundPoints, Kinds
<1>2. /\ step[h] = "ready" /\ step' = [step EXCEPT ![h] = "written"] /\ task[h].type = "refund"
      /\ UNCHANGED <<clock, ledger, task, began, due>>
    BY DEF RefundPoints, Goto
<1>3. User(h) \in Users
    BY <1>2 DEF AccountInv, Asked
<1>4. Rows(Visible(h), Len(Visible(h)))
    BY <1>3, VisibleRows
<1>5. Write(h, kind, points, ref, Never, alloc)
    BY DEF RefundPoints
<1>6. /\ Written(L) /\ Recalls(L, task[h], began[h])
      /\ Drafted("ready", L, R, due[h], began[h], clock)
    BY <1>2, OpenTransaction DEF Looked
<1>7. Visible(h) = seen
    BY DEF Visible
<1> HIDE DEF kind, points, seen
<1>8. alloc \in Seq(Allocation)
    <2> HIDE DEF ref
    <2> QED
        BY <1>1, <1>4, RefundAllocationsAre
<1>9. ref \in Refs(L) /\ ref < began[h]
      /\ \A i \in DOMAIN L :
            L[i].ref = ref => /\ ~IsGrant(L[i])
                              /\ L[i].kind = "consume" => \A id \in IdsOf(L[i].alloc) : id < began[h]
    BY <1>2, <1>6 DEF Recalls
<1> HIDE DEF ref, L, R
<1>10. \A id \in IdsOf(alloc) :
           \E i \in DOMAIN seen : seen[i].kind = "consume" /\ seen[i].ref = ref /\ id \in IdsOf(seen[i].alloc)
    BY <1>1, <1>4, <1>7, RefundNames
<1> HIDE DEF alloc
<1>11. \A k \in DOMAIN seen :
           \/ k \in DOMAIN L /\ seen[k] = L[k]
           \/ k - Len(L) \in DOMAIN R /\ seen[k] = R[k - Len(L)]
    BY <1>6, ElementsOfBoth DEF seen, Written, Drafted, IsDraft
<1>12. ASSUME NEW id \in IdsOf(alloc) PROVE id \in Nat /\ id < began[h]
    <2>1. PICK i \in DOMAIN seen :
              seen[i].kind = "consume" /\ seen[i].ref = ref /\ id \in IdsOf(seen[i].alloc)
        BY <1>10
    <2>2. i \in DOMAIN L /\ seen[i] = L[i]
        BY <1>6, <1>11, <2>1 DEF Drafted, OnlyExpiries, IsExpiry
    <2> QED
        BY <1>6, <1>9, <2>1, <2>2, ReadableRow
<1>13. RefundRow(h, kind, ref, alloc)
    BY <1>9, <1>12 DEF RefundRow, kind, L
<1> QED
    BY <1>0, <1>1, <1>2, <1>5, <1>8, <1>13, OneRowKeepsGrants

\* What a charge is paid from has been mentioned before (charge_points).
LEMMA ChargeEventKeepsGrants ==
    ASSUME AccountInv, AccountInv', RecordInv, GrantInv, NEW h \in Handlers, ChargeEvent(h)
    PROVE  GrantInv'
<1>1. PICK q \in task[h].quotes :
          LET points == EventPoints(q, charged[h] + 1)
          IN  Write(h, "consume", -points, began[h], Never, Preview(Visible(h), points).taken)
    BY DEF ChargeEvent
<1> DEFINE points == EventPoints(q, charged[h] + 1)
           delta == -points
           alloc == Preview(Visible(h), points).taken
           kind == "consume"
           L == ledger[User(h)]
           R == rows[h]
           seen == L \o R
<1>2. /\ step[h] = "charging" /\ EventsLeft(h) /\ User(h) \in Users
      /\ UNCHANGED <<clock, ledger, task, began, due, step>>
    BY DEF ChargeEvent, AccountInv, Asked
<1>3. charged[h] + 1 \in DOMAIN q
    BY <1>2, EventPointsType
<1>4. IsQuote(q)
    BY <1>2, ConstantsAssumption DEF AccountInv, Asked
<1>5. points \in Nat
    BY <1>3, <1>4, EventPointsAre
<1>6. Rows(Visible(h), Len(Visible(h)))
    BY <1>2, VisibleRows
<1>7. Write(h, kind, delta, began[h], Never, alloc)
    BY <1>1
<1>8. Visible(h) = seen
    BY DEF Visible
<1> HIDE DEF points, seen
<1>9. alloc \in Seq(Allocation) /\ IdsOf(alloc) \subseteq Mentioned(seen)
    BY <1>5, <1>6, <1>8, PreviewTakes, PreviewNames
<1>10. kind \in Kinds /\ kind # "refund" /\ kind # "subscription_grant" /\ delta \in Int
    BY <1>5 DEF Kinds
<1>11. total'[h] \in Int /\ began[h] \in Nat /\ Never \in Nat
    BY NeverAssumption DEF AccountInv, Typed, RecordInv
<1>12. GoodLedger(L, clock) /\ Drafted("charging", L, R, due[h], began[h], clock)
    BY <1>2, OpenTransaction DEF Looked
<1> HIDE DEF alloc, delta, L, R
<1>13. \A k \in DOMAIN seen :
           \/ k \in DOMAIN L /\ seen[k] = L[k]
           \/ k - Len(L) \in DOMAIN R /\ seen[k] = R[k - Len(L)]
    BY <1>12, ElementsOfBoth DEF seen, Written, GoodLedger, Drafted, IsDraft
<1>14. \A k \in DOMAIN seen : Within(seen[k], clock)
    BY <1>12, <1>13 DEF GoodLedger, Drafted, IsDraft
<1>15. \A id \in IdsOf(alloc) : id <= clock
    BY <1>9, <1>14 DEF Mentioned, Refs, Within
<1>16. OwnRow(h, kind, delta, began[h], Never, alloc)
    BY <1>10, <1>15 DEF OwnRow
<1>17. step' = [step EXCEPT ![h] = "charging"]
    BY <1>2 DEF AccountInv, Typed
<1> HIDE DEF kind
<1> QED
    BY <1>2, <1>7, <1>9, <1>10, <1>11, <1>16, <1>17, OneRowKeepsGrants

\* What was asked for keeps the invariant.
LEMMA OperateKeepsGrants ==
    ASSUME AccountInv, AccountInv', RecordInv, GrantInv, NEW h \in Handlers, Operate(h)
    PROVE  GrantInv'
<1>1. CASE ViewAccount(h)
    BY <1>1, NoRowKeepsGrants DEF ViewAccount, Goto, Looked
<1>2. CASE CheckFunds(h)
    BY <1>2, NoRowKeepsGrants DEF CheckFunds, Goto, Looked
<1>3. CASE ChargeDone(h)
    BY <1>3, NoRowKeepsGrants DEF ChargeDone, Goto, Looked
<1> QED
    BY <1>1, <1>2, <1>3, GrantPointsKeepsGrants, AdjustPointsKeepsGrants, RefundPointsKeepsGrants,
       ChargeEventKeepsGrants DEF Operate

(***************************************************************************)
(* The end of a transaction keeps the invariant, if the ledger it leaves   *)
(* is sound, names nothing new but the time it began, and can still be     *)
(* refunded from; and changes only if it holds the row.                    *)
(***************************************************************************)
LEMMA EndKeepsGrants ==
    ASSUME AccountInv, RecordInv, GrantInv, NEW h \in Handlers, step[h] # "idle", End(h),
           \A u \in Users : GoodLedger(ledger'[u], clock),
           \A u \in Users : Refs(ledger'[u]) \subseteq Refs(ledger[u]) \cup {began[h]},
           \A u \in Users : \A t, c : Recalls(ledger[u], t, c) => Recalls(ledger'[u], t, c),
           lock[User(h)] = h \/ ledger' = ledger,
           \A u \in Users \ {User(h)} : ledger'[u] = ledger[u]
    PROVE  GrantInv'
<1>1. /\ clock' = clock
      /\ step' = [step EXCEPT ![h] = "idle"] /\ task' = [task EXCEPT ![h] = NoTask]
      /\ began' = [began EXCEPT ![h] = 0] /\ due' = [due EXCEPT ![h] = <<>>]
      /\ rows' = [rows EXCEPT ![h] = <<>>]
    BY DEF End, Goto
<1>2. /\ step'[h] = "idle"
      /\ \A g \in Handlers \ {h} :
            /\ step'[g] = step[g] /\ task'[g] = task[g] /\ began'[g] = began[g]
            /\ due'[g] = due[g] /\ rows'[g] = rows[g]
    BY <1>1 DEF AccountInv, Typed, RecordInv
<1>3. \A g \in Handlers \ {h} : User(g)' = User(g)
    BY <1>2 DEF User
<1>4. ASSUME NEW g \in Handlers, step'[g] # "idle" PROVE Dated(g)'
    <2>1. g # h /\ step[g] # "idle" /\ Dated(g) /\ User(g) \in Users
        BY <1>2, <1>4 DEF GrantInv, AccountInv, Asked
    <2>2. began'[g] \in 1 .. clock' /\ clock' < began'[g] + Period
        BY <1>1, <1>2, <2>1 DEF Dated
    <2>3. \A u \in Users : began'[g] \notin Refs(ledger'[u])
        BY <1>2, <2>1 DEF Dated
    <2>4. \A f \in Handlers \ {g} : step'[f] # "idle" => began'[f] # began'[g]
        BY <1>2, <2>1 DEF Dated
    <2>5. Recalls(ledger'[User(g)'], task'[g], began'[g])
        BY <1>2, <1>3, <2>1 DEF Dated
    <2> QED
        BY <2>2, <2>3, <2>4, <2>5 DEF Dated
<1>5. ASSUME NEW g \in Handlers, Looked(step'[g])
      PROVE  Drafted(step'[g], ledger'[User(g)'], rows'[g], due'[g], began'[g], clock')
    <2>1. g # h /\ Looked(step[g])
        BY <1>2, <1>5 DEF Looked
    <2>2. lock[User(g)] = g /\ User(g) \in Users
        BY <2>1 DEF AccountInv, Holds, Asked, Looked
    <2>3. ledger'[User(g)] = ledger[User(g)]
        BY <2>1, <2>2
    <2> QED
        BY <1>1, <1>2, <1>3, <2>1, <2>3 DEF GrantInv
<1> QED
    BY <1>1, <1>4, <1>5 DEF GrantInv

\* A commit keeps the invariant.
LEMMA CommitKeepsGrants ==
    ASSUME AccountInv, RecordInv, GrantInv, NEW h \in Handlers, Commit(h)
    PROVE  GrantInv'
<1> DEFINE L == ledger[User(h)]
           R == rows[h]
           b == began[h]
<1>1. /\ step[h] = "written" /\ User(h) \in Users /\ lock[User(h)] = h /\ End(h)
      /\ ledger'[User(h)] = L \o R /\ \A u \in Users \ {User(h)} : ledger'[u] = ledger[u]
    BY DEF AccountInv, Typed, Asked, Holds, Commit
<1>2. /\ GoodLedger(L, clock) /\ b \notin Refs(L) /\ b \in Nat
      /\ IsDraft(L, R, b, clock)
    BY <1>1, OpenTransaction DEF Looked, Drafted
<1> HIDE DEF L, R, b
<1>3. GoodLedger(L \o R, clock) /\ Refs(L \o R) \subseteq Refs(L) \cup {b}
    BY <1>2, DraftCommits
<1>4. \A t, c : Recalls(L, t, c) => Recalls(L \o R, t, c)
    BY <1>2, DraftIsRecalled
<1>5. \A u \in Users : GoodLedger(ledger'[u], clock)
    BY <1>1, <1>3 DEF GrantInv
<1>6. \A u \in Users : Refs(ledger'[u]) \subseteq Refs(ledger[u]) \cup {began[h]}
    BY <1>1, <1>3 DEF L, b
<1>7. \A u \in Users : \A t, c : Recalls(ledger[u], t, c) => Recalls(ledger'[u], t, c)
    BY <1>1, <1>4 DEF L
<1> QED
    BY <1>1, <1>5, <1>6, <1>7, EndKeepsGrants

\* A refusal or a crash keeps the invariant.
LEMMA RollbackKeepsGrants ==
    ASSUME AccountInv, RecordInv, GrantInv, NEW h \in Handlers, step[h] # "idle", End(h),
           UNCHANGED database
    PROVE  GrantInv'
<1>1. ledger' = ledger
    BY DEF database
<1>2. \A u \in Users : GoodLedger(ledger'[u], clock)
    BY <1>1 DEF GrantInv
<1> QED
    BY <1>1, <1>2, EndKeepsGrants

\* Nothing of it changes.
LEMMA SameGrants ==
    ASSUME GrantInv, UNCHANGED vars
    PROVE  GrantInv'
<1>1. UNCHANGED <<clock, ledger, step, task, began, due, rows>>
    BY DEF vars
<1>2. \A h \in Handlers : User(h)' = User(h)
    BY <1>1 DEF User
<1>3. ASSUME NEW h \in Handlers, step'[h] # "idle" PROVE Dated(h)'
    <2>1. Dated(h)
        BY <1>1, <1>3 DEF GrantInv
    <2> QED
        BY <1>1, <1>2, <2>1 DEF Dated
<1> QED
    BY <1>1, <1>2, <1>3 DEF GrantInv

\* Every step keeps the invariant.
LEMMA NextKeepsGrants ==
    AccountInv /\ AccountInv' /\ RecordInv /\ GrantInv /\ [Next]_vars => GrantInv'
<1> SUFFICES ASSUME AccountInv, AccountInv', RecordInv, GrantInv, [Next]_vars PROVE GrantInv'
    OBVIOUS
<1>1. CASE UNCHANGED vars
    BY <1>1, SameGrants
<1>2. CASE Tick
    BY <1>2, TickKeepsGrants
<1>3. ASSUME NEW h \in Handlers, Begin(h) PROVE GrantInv'
    BY <1>3, BeginKeepsGrants
<1>4. ASSUME NEW h \in Handlers, EnsureAccount(h) PROVE GrantInv'
    BY <1>4, EnsureAccountKeepsGrants
<1>5. ASSUME NEW h \in Handlers, Expire(h) PROVE GrantInv'
    BY <1>5, ExpireKeepsGrants
<1>6. ASSUME NEW h \in Handlers, Operate(h) PROVE GrantInv'
    BY <1>6, OperateKeepsGrants
<1>7. ASSUME NEW h \in Handlers, Commit(h) PROVE GrantInv'
    BY <1>7, CommitKeepsGrants
<1>8. ASSUME NEW h \in Handlers, Refuse(h) \/ Crash(h) PROVE GrantInv'
    <2>1. step[h] # "idle" /\ End(h) /\ UNCHANGED database
        BY <1>8 DEF Refuse, Crash
    <2> QED
        BY <2>1, RollbackKeepsGrants
<1> QED
    BY <1>1, <1>2, <1>3, <1>4, <1>5, <1>6, <1>7, <1>8 DEF Next, Progress

(***************************************************************************)
(* What expires of a grant never comes to more than was granted, for any   *)
(* users, handlers, charges, grants and bounds, however many handlers find *)
(* it lapsed at the same time (GrantExpiresOnce of CreditLedger).  A       *)
(* handler expires what its own replay of the ledger has left in the       *)
(* bucket; its lock keeps that replay true until it commits; and since no  *)
(* transaction is open for a period, what it finds lapsed is older than    *)
(* itself, so that no row it writes can be taken for the grant.            *)
(***************************************************************************)
THEOREM GrantsExpireOnce == Spec => []GrantExpiresOnce
<1>1. GrantInv => GrantExpiresOnce
    BY DEF GrantInv, GoodLedger, NotTwice, GrantExpiresOnce, SubscriptionGrants, IsGrant, Expired
<1>2. AccountInv /\ RecordInv /\ GrantInv /\ [Next]_vars => (AccountInv /\ RecordInv /\ GrantInv)'
    BY NextKeepsAccount, NextKeepsRecord, NextKeepsGrants
<1> QED
    BY <1>1, <1>2, InitAccount, InitRecord, InitGrants, PTL DEF Spec

-----------------------------------------------------------------------------
(* What buckets with certain identifiers lose. *)

\* Buckets that are lessened hold no more.
LEMMA HeldLess ==
    ASSUME NEW old \in Seq(Bucket), NEW new, Lessened(new, old), NEW G
    PROVE  new \in Seq(Bucket) /\ Held(G, new) <= Held(G, old)
<1> DEFINE v == Helds(G, old)
           w == Helds(G, new)
           D == DOMAIN old
<1>1. new \in Seq(Bucket) /\ DOMAIN new = D
    BY DEF Lessened
<1>2. IsFiniteSet(D) /\ \A k \in D : v[k] \in Int /\ w[k] \in Int
    BY <1>1, HeldsAre
<1>3. \A k \in D : w[k] <= v[k]
    <2>1. \A k \in D : new[k].id = old[k].id /\ new[k].left <= old[k].left
        BY DEF Lessened
    <2>2. \A k \in D : /\ v[k] = IF old[k].id \in G THEN old[k].left ELSE 0
                       /\ w[k] = IF new[k].id \in G THEN new[k].left ELSE 0
        BY <1>1, HeldsAre
    <2> HIDE DEF v, w
    <2> QED
        BY <2>1, <2>2
<1> HIDE DEF D, v, w
<1>4. Sigma(D, w) <= Sigma(D, v)
    BY <1>2, <1>3, SigmaOfLess
<1> QED
    BY <1>1, <1>4 DEF Held, D, v, w

\* A bucket with fewer points, all others as they were.
LEMMA HeldOfChanged ==
    ASSUME NEW old \in Seq(Bucket), NEW new, Lessened(new, old), NEW i \in DOMAIN old,
           \A k \in DOMAIN old \ {i} : new[k] = old[k], NEW G
    PROVE  Held(G, new) = Held(G, old) - IF old[i].id \in G THEN old[i].left - new[i].left ELSE 0
<1> DEFINE v == Helds(G, old)
           w == Helds(G, new)
           D == DOMAIN old
<1>1. new \in Seq(Bucket) /\ DOMAIN new = D /\ new[i].id = old[i].id
    BY DEF Lessened
<1>2. IsFiniteSet(D) /\ \A k \in D : v[k] \in Int /\ w[k] \in Int
    BY <1>1, HeldsAre
<1>3. /\ v[i] = IF old[i].id \in G THEN old[i].left ELSE 0
      /\ w[i] = IF old[i].id \in G THEN new[i].left ELSE 0
      /\ new[i].left \in Nat /\ old[i].left \in Nat
    BY <1>1, HeldsAre
<1>4. \A k \in D \ {i} : w[k] = v[k]
    <2>1. \A k \in D : /\ v[k] = IF old[k].id \in G THEN old[k].left ELSE 0
                       /\ w[k] = IF new[k].id \in G THEN new[k].left ELSE 0
        BY <1>1, HeldsAre
    <2> HIDE DEF v, w
    <2> QED
        BY <2>1
<1>5. i \in D
    OBVIOUS
<1> HIDE DEF D, v, w
<1>6. Sigma(D, w) = Sigma(D, v) - v[i] + w[i] /\ Sigma(D, v) \in Int
    BY <1>2, <1>4, <1>5, SigmaOfChanged, SigmaTakes
<1>7. Held(G, new) = Sigma(D, w) /\ Held(G, old) = Sigma(D, v)
    BY <1>1 DEF Held, D, v, w
<1> QED
    BY <1>3, <1>6, <1>7

-----------------------------------------------------------------------------
(* The points of allocations to certain identifiers. *)

Shares(G, alloc) == [k \in DOMAIN alloc |-> IF alloc[k].id \in G THEN alloc[k].points ELSE 0]
Share(G, alloc) == Sigma(DOMAIN alloc, Shares(G, alloc))

\* They are a number, and no more than all points of the allocations.
LEMMA ShareIs ==
    ASSUME NEW alloc \in Seq(Allocation), NEW G
    PROVE  /\ Share(G, alloc) \in Nat /\ Share(G, alloc) <= GivenBack(alloc)
           /\ Share(Nat, alloc) = GivenBack(alloc)
           /\ IsFiniteSet(DOMAIN alloc)
           /\ \A k \in DOMAIN alloc :
                 /\ Shares(G, alloc)[k] = IF alloc[k].id \in G THEN alloc[k].points ELSE 0
                 /\ Shares(G, alloc)[k] \in Nat /\ alloc[k].points \in Nat /\ alloc[k].id \in Nat
<1> DEFINE D == DOMAIN alloc
           p == PointsOf(alloc)
<1>1. D = 1 .. Len(alloc) /\ Len(alloc) \in Nat /\ \A k \in D : alloc[k] \in Allocation /\ p[k] = alloc[k].points
    BY PointsAre
<1>2. \A k \in D : alloc[k].points \in Nat /\ alloc[k].id \in Nat
    BY <1>1 DEF Allocation
<1>3. IsFiniteSet(D)
    BY <1>1, AllFinite
<1>4. \A H : \A k \in D : /\ Shares(H, alloc)[k] = IF alloc[k].id \in H THEN alloc[k].points ELSE 0
                          /\ Shares(H, alloc)[k] \in Nat
    BY <1>2 DEF Shares
<1>5. GivenBack(alloc) = Sigma(D, p)
    BY <1>1, GivenBackIsSigma
<1>6. Share(G, alloc) \in Nat
    <2> DEFINE v == Shares(G, alloc)
    <2>1. \A k \in D : v[k] \in Nat
        BY <1>4
    <2> HIDE DEF D, v
    <2>2. Sigma(D, v) \in Nat
        BY <1>3, <2>1, SigmaOfNats
    <2> QED
        BY <2>2 DEF Share, D, v
<1>7. Share(G, alloc) <= GivenBack(alloc)
    <2> DEFINE v == Shares(G, alloc)
    <2>1. \A k \in D : p[k] \in Int /\ v[k] \in Int /\ v[k] <= p[k]
        BY <1>1, <1>2, <1>4
    <2> HIDE DEF D, v, p
    <2>2. Sigma(D, v) <= Sigma(D, p)
        BY <1>3, <2>1, SigmaOfLess
    <2> QED
        BY <1>5, <2>2 DEF Share, D, v
<1>8. Share(Nat, alloc) = GivenBack(alloc)
    <2> DEFINE v == Shares(Nat, alloc)
    <2>1. \A k \in D : p[k] \in Int /\ v[k] = p[k]
        BY <1>1, <1>2, <1>4
    <2> HIDE DEF D, v, p
    <2>2. Sigma(D, v) = Sigma(D, p)
        BY <1>3, <2>1, SigmaOfSame
    <2> QED
        BY <1>5, <2>2 DEF Share, D, v
<1> QED
    BY <1>2, <1>3, <1>4, <1>6, <1>7, <1>8

\* No allocations have no points.
LEMMA ShareOfNone == <<>> \in Seq(Allocation) /\ \A G : Share(G, <<>>) = 0
<1>1. <<>> \in Seq(Allocation) /\ DOMAIN <<>> = {}
    OBVIOUS
<1>2. ASSUME NEW G PROVE Sigma({}, Shares(G, <<>>)) = 0
    <2>1. IsFiniteSet({})
        BY FS_EmptySet
    <2> QED
        BY <2>1, SigmaTakes
<1> QED
    BY <1>1, <1>2 DEF Share

\* One more allocation.
LEMMA ShareOfMore ==
    ASSUME NEW s \in Seq(Allocation), NEW a \in Allocation, NEW G
    PROVE  /\ Append(s, a) \in Seq(Allocation)
           /\ Share(G, Append(s, a)) = Share(G, s) + IF a.id \in G THEN a.points ELSE 0
<1> DEFINE t == Append(s, a)
           n == Len(s)
           v == Shares(G, s)
           w == Shares(G, t)
<1>1. /\ n \in Nat /\ DOMAIN s = 1 .. n /\ t \in Seq(Allocation) /\ DOMAIN t = 1 .. n + 1
      /\ t[n + 1] = a /\ \A i \in 1 .. n : t[i] = s[i]
    OBVIOUS
<1> HIDE DEF t, n
<1>2. \A i \in 1 .. n : v[i] = (IF s[i].id \in G THEN s[i].points ELSE 0) /\ v[i] \in Int
    BY <1>1, ShareIs
<1>3. \A i \in 1 .. n + 1 : w[i] = (IF t[i].id \in G THEN t[i].points ELSE 0) /\ w[i] \in Int
    BY <1>1, ShareIs
<1>4. n + 1 \in 1 .. n + 1 /\ \A i \in 1 .. n : i \in 1 .. n + 1
    BY <1>1
<1>5. w[n + 1] = (IF a.id \in G THEN a.points ELSE 0) /\ w[n + 1] \in Int
    BY <1>1, <1>3, <1>4
<1>6. \A i \in 1 .. n : v[i] \in Int /\ w[i] = v[i]
    BY <1>1, <1>2, <1>3, <1>4
<1> HIDE DEF v, w
<1>7. Sigma(1 .. n + 1, w) = Sigma(1 .. n, v) + w[n + 1]
    BY <1>1, <1>5, <1>6, SigmaOfMore
<1> QED
    BY <1>1, <1>5, <1>7 DEF Share, v, w, t

-----------------------------------------------------------------------------
(* What an allocation takes from them. *)

\* One bucket's turn.
LEMMA TakeFromHolds ==
    ASSUME NEW buckets \in Seq(Bucket), NEW points \in Nat, NEW state \in States,
           Drawn(state, buckets, points), NEW i \in DOMAIN buckets, NEW G
    PROVE  LET new == TakeFrom(state, i)
               taken == Smaller(state.buckets[i].left, state.rest)
               gone == IF state.buckets[i].id \in G THEN taken ELSE 0
           IN  /\ new.rest = state.rest - taken
               /\ Held(G, new.buckets) = Held(G, state.buckets) - gone
               /\ Share(G, new.taken) = Share(G, state.taken) + gone
<1> DEFINE old == state.buckets
           b == old[i]
           taken == Smaller(b.left, state.rest)
           new == TakeFrom(state, i)
           a == [id |-> b.id, source |-> b.source, points |-> taken, lapse |-> b.lapse]
           gone == IF b.id \in G THEN taken ELSE 0
<1>1. /\ old \in Seq(Bucket) /\ state.rest \in Nat /\ state.taken \in Seq(Allocation)
      /\ i \in DOMAIN old /\ DOMAIN old = DOMAIN buckets
    BY DEF States, Drawn
<1>2. b \in Bucket
    BY <1>1
<1>3. b.left \in Nat /\ b.id \in Nat /\ b.source \in Sources /\ b.lapse \in Nat
    <2> HIDE DEF b
    <2> QED
        BY <1>2 DEF Bucket
<1>4. taken \in Nat
    BY <1>1, <1>3, SmallerIs
<1>5. /\ Lessened(new.buckets, old) /\ new.buckets[i].left = b.left - taken
      /\ \A k \in DOMAIN old \ {i} : new.buckets[k] = old[k]
    BY <1>1, TakeFromLessens
<1>6. new.rest = state.rest - taken /\ new.taken = IF taken = 0 THEN state.taken ELSE Append(state.taken, a)
    BY <1>1 DEF TakeFrom
<1>7. a \in Allocation /\ a.id = b.id /\ a.points = taken
    <2>1. a.id = b.id /\ a.points = taken
        OBVIOUS
    <2> HIDE DEF b, taken
    <2> QED
        BY <1>3, <1>4, <2>1 DEF Allocation
<1> HIDE DEF old, b, taken, new, a
<1>8. Held(G, new.buckets) = Held(G, old) - IF old[i].id \in G THEN old[i].left - new.buckets[i].left ELSE 0
    <2> DEFINE c == new.buckets
    <2>1. Lessened(c, old) /\ \A k \in DOMAIN old \ {i} : c[k] = old[k]
        BY <1>5
    <2> HIDE DEF c
    <2>2. Held(G, c) = Held(G, old) - IF old[i].id \in G THEN old[i].left - c[i].left ELSE 0
        BY <1>1, <2>1, HeldOfChanged
    <2> QED
        BY <2>2 DEF c
<1>9. Held(G, new.buckets) = Held(G, old) - gone
    BY <1>3, <1>4, <1>5, <1>8 DEF b
<1>10. Share(G, new.taken) = Share(G, state.taken) + gone
    <2>1. Share(G, state.taken) \in Nat
        BY <1>1, ShareIs
    <2>2. CASE taken = 0
        BY <1>6, <2>1, <2>2
    <2>3. CASE taken # 0
        BY <1>1, <1>6, <1>7, <2>3, ShareOfMore
    <2> QED
        BY <2>2, <2>3
<1> QED
    BY <1>6, <1>9, <1>10 DEF old, b, taken, new

\* What is wanted first is visited first.
LEMMA VisitedFirst ==
    ASSUME NEW buckets \in Seq(Bucket), NEW id, NEW source, NEW G, G = Nat \/ G = {id},
           NEW k \in DOMAIN buckets, NEW i \in DOMAIN buckets, Visited(buckets, id, source, k, i),
           buckets[i].id \in G
    PROVE  buckets[k].id \in G
<1>1. buckets[k].id \in Nat
    BY HeldsAre
<1>2. CASE G = {id}
    BY <1>2 DEF Visited
<1> QED
    BY <1>1, <1>2

(***************************************************************************)
(* All turns: what buckets with certain identifiers lose is allocated to   *)
(* them; and the wanted ones give all that is asked for, or all they have. *)
(***************************************************************************)
LEMMA AllocateHolds ==
    ASSUME NEW buckets \in Seq(Bucket), NEW points \in Nat, NEW id, NEW source, NEW G
    PROVE  LET drawn == Allocate(buckets, points, id, source)
           IN  /\ Held(G, drawn.buckets) + Share(G, drawn.taken) = Held(G, buckets)
               /\ G = Nat \/ G = {id} => \/ Held(G, drawn.buckets) <= Held(G, buckets) - points
                                         \/ Held(G, drawn.buckets) = 0
<1> DEFINE S == Takers(buckets, points)
           R == {k \in DOMAIN buckets : buckets[k].id \in G}
           drawn == Allocate(buckets, points, id, source)
           Choice(T) == LastVisited(buckets, id, source, T)
           last == [T \in SUBSET S |-> Choice(T)]
<1>1. PICK iter : /\ drawn = iter[S]
                  /\ AllocatesInTurn(iter, buckets, points, id, source)
    BY AllocateTurns
<1>2. S \in SUBSET DOMAIN buckets /\ IsFiniteSet(S)
    BY BucketsKeyed, FS_Subset DEF Takers
<1>3. \A T \in SUBSET S : T # {} =>
          Choice(T) \in T /\ \A k \in T : Choice(T) = k \/ Visited(buckets, id, source, k, Choice(T))
    BY <1>2, LastVisitedIs
<1>4. /\ iter[{}] = Untaken(buckets, points)
      /\ \A T \in SUBSET S :
            /\ iter[T] \in States /\ Drawn(iter[T], buckets, points)
            /\ T # {} => iter[T] = TakeFrom(iter[T \ {Choice(T)}], Choice(T))
    BY <1>1 DEF AllocatesInTurn
<1>5. \A k \in DOMAIN buckets : k \notin S => points = 0 \/ buckets[k].left = 0
    BY HeldsAre DEF Takers
<1> HIDE DEF S, Choice, drawn
<1>6. Chooses(last, S)
    BY <1>3 DEF Chooses
<1> DEFINE Empty(state, T) == \A k \in T : state.buckets[k].left = 0
           Sound(state, T) ==
               /\ Lessened(state.buckets, buckets)
               /\ Held(G, state.buckets) + Share(G, state.taken) = Held(G, buckets)
               /\ state.rest = 0 \/ Empty(state, T)
               /\ T \subseteq R => Share(G, state.taken) = points - state.rest
               /\ G = Nat \/ G = {id} => Share(G, state.taken) >= points \/ Empty(state, T \cap R)
           family == {T \in SUBSET S : Sound(iter[T], T)}
<1>7. {} \in family
    <2>1. iter[{}].buckets = buckets /\ iter[{}].taken = <<>> /\ iter[{}].rest = points
        BY <1>4 DEF Untaken
    <2>2. Lessened(buckets, buckets) /\ Held(G, buckets) \in Nat /\ Share(G, <<>>) = 0
        BY LessenedTwice, HeldIs, ShareOfNone
    <2> QED
        BY <2>1, <2>2
<1>8. HasWithRest(family, last, S)
    <2>1. ASSUME NEW T \in SUBSET S, T # {}, T \ {last[T]} \in family PROVE T \in family
        <3> DEFINE i == Choice(T)
                   state == iter[T \ {i}]
                   new == iter[T]
                   taken == Smaller(state.buckets[i].left, state.rest)
        <3>1. /\ last[T] = i /\ i \in T /\ i \in DOMAIN buckets /\ T \ {i} \in SUBSET S
              /\ \A k \in T : k \in DOMAIN buckets /\ (k = i \/ Visited(buckets, id, source, k, i))
            BY <1>2, <1>3, <2>1
        <3>2. new = TakeFrom(state, i) /\ state \in States /\ Drawn(state, buckets, points)
            BY <1>4, <2>1, <3>1
        <3>3. Sound(state, T \ {i})
            BY <2>1, <3>1
        <3>4. state.rest \in Nat /\ state.buckets \in Seq(Bucket) /\ state.taken \in Seq(Allocation)
            BY <3>2 DEF States
        <3>5. state.buckets[i].left \in Nat /\ state.buckets[i].id = buckets[i].id
            BY <3>1, <3>3, <3>4, HeldsAre DEF Lessened
        <3> HIDE DEF i, state, new, Sound
        <3>6. /\ Lessened(new.buckets, state.buckets)
              /\ new.buckets[i].left = state.buckets[i].left - taken
              /\ \A k \in DOMAIN buckets \ {i} : new.buckets[k] = state.buckets[k]
            <4>1. /\ Lessened(TakeFrom(state, i).buckets, state.buckets)
                  /\ TakeFrom(state, i).buckets[i].left = state.buckets[i].left - taken
                  /\ \A k \in DOMAIN buckets \ {i} : TakeFrom(state, i).buckets[k] = state.buckets[k]
                BY <3>1, <3>2, TakeFromLessens
            <4> QED
                BY <3>2, <4>1
        <3>7. /\ new.rest = state.rest - taken
              /\ Held(G, new.buckets) = Held(G, state.buckets) - IF buckets[i].id \in G THEN taken ELSE 0
              /\ Share(G, new.taken) = Share(G, state.taken) + IF buckets[i].id \in G THEN taken ELSE 0
            BY <3>1, <3>2, <3>5, TakeFromHolds
        <3>8. /\ taken \in Nat /\ (taken = state.buckets[i].left \/ taken = state.rest)
              /\ state.rest = 0 => taken = 0
            BY <3>4, <3>5 DEF Smaller
        <3>9. Held(G, state.buckets) \in Nat /\ Share(G, state.taken) \in Nat
            BY <3>4, HeldIs, ShareIs
        <3>10. Lessened(new.buckets, buckets)
            BY <3>3, <3>6, LessenedTwice DEF Sound
        <3> HIDE DEF taken
        <3>11. Held(G, new.buckets) + Share(G, new.taken) = Held(G, buckets)
            <4>1. Held(G, state.buckets) + Share(G, state.taken) = Held(G, buckets)
                BY <3>3 DEF Sound
            <4> QED
                BY <3>7, <3>8, <3>9, <4>1
        <3>12. new.rest = 0 \/ Empty(new, T)
            <4>1. CASE state.rest = 0
                <5>1. taken = 0
                    BY <3>8, <4>1
                <5>2. new.rest = 0 - 0
                    BY <3>7, <4>1, <5>1
                <5> QED
                    BY <5>2
            <4>2. CASE taken = state.rest
                BY <3>4, <3>7, <4>2
            <4>3. CASE state.rest # 0 /\ taken = state.buckets[i].left
                <5>1. new.buckets[i].left = 0
                    BY <3>5, <3>6, <4>3
                <5>2. \A k \in T \ {i} : state.buckets[k].left = 0
                    BY <3>3, <4>3 DEF Sound
                <5> QED
                    BY <3>1, <3>6, <5>1, <5>2
            <4> QED
                BY <3>8, <4>1, <4>2, <4>3
        <3>13. T \subseteq R => Share(G, new.taken) = points - new.rest
            <4> SUFFICES ASSUME T \subseteq R PROVE Share(G, new.taken) = points - new.rest
                OBVIOUS
            <4>1. Share(G, state.taken) = points - state.rest
                BY <3>3 DEF Sound
            <4>2. buckets[i].id \in G
                BY <3>1
            <4> QED
                BY <3>4, <3>7, <3>8, <4>1, <4>2
        <3>14. ASSUME G = Nat \/ G = {id} PROVE Share(G, new.taken) >= points \/ Empty(new, T \cap R)
            <4>1. CASE buckets[i].id \in G
                <5>1. \A k \in T : buckets[k].id \in G
                    BY <3>1, <3>14, <4>1, VisitedFirst
                <5>2. T \subseteq R
                    BY <3>1, <5>1
                <5>3. Share(G, new.taken) = points - new.rest
                    BY <3>13, <5>2
                <5> QED
                    BY <3>12, <5>3
            <4>2. CASE buckets[i].id \notin G
                <5>1. Share(G, new.taken) = Share(G, state.taken)
                    BY <3>7, <3>9, <4>2
                <5>2. T \cap R = (T \ {i}) \cap R /\ \A k \in T \cap R : k \in DOMAIN buckets \ {i}
                    BY <4>2
                <5>3. Share(G, state.taken) >= points \/ Empty(state, (T \ {i}) \cap R)
                    BY <3>3, <3>14 DEF Sound
                <5> QED
                    BY <3>6, <5>1, <5>2, <5>3
            <4> QED
                BY <4>1, <4>2
        <3>15. Sound(new, T)
            BY <3>10, <3>11, <3>12, <3>13, <3>14 DEF Sound
        <3> QED
            BY <3>15 DEF new
    <2> QED
        BY <2>1 DEF HasWithRest
<1> HIDE DEF family, last
<1>9. SUBSET S \subseteq family
    BY <1>2, <1>6, <1>7, <1>8, TakingOff
<1>10. Sound(drawn, S) /\ drawn \in States /\ Drawn(drawn, buckets, points)
    <2>1. S \in family
        BY <1>9
    <2> QED
        BY <1>1, <1>4, <2>1 DEF family
<1>11. drawn.buckets \in Seq(Bucket) /\ drawn.taken \in Seq(Allocation) /\ drawn.rest \in Nat
    BY <1>10 DEF States
<1>12. /\ Held(G, drawn.buckets) \in Nat /\ Share(G, drawn.taken) \in Nat /\ Held(G, buckets) \in Nat
       /\ GivenBack(drawn.taken) = Share(Nat, drawn.taken)
    BY <1>11, HeldIs, ShareIs
<1>13. ASSUME G = Nat \/ G = {id}
       PROVE  Held(G, drawn.buckets) <= Held(G, buckets) - points \/ Held(G, drawn.buckets) = 0
    <2>1. CASE Share(G, drawn.taken) >= points
        BY <1>10, <1>12, <2>1
    <2>2. CASE points = 0
        BY <1>10, <1>12, <2>2
    <2>3. CASE points # 0 /\ Empty(drawn, S \cap R)
        <3>1. /\ DOMAIN drawn.buckets = DOMAIN buckets
              /\ \A k \in DOMAIN buckets : /\ drawn.buckets[k].left \in Nat
                                           /\ drawn.buckets[k].left <= buckets[k].left
                                           /\ drawn.buckets[k].id = buckets[k].id
            BY <1>10, <1>11, HeldsAre DEF Lessened
        <3>2. \A k \in DOMAIN drawn.buckets : drawn.buckets[k].id \in G => drawn.buckets[k].left = 0
            BY <1>5, <2>3, <3>1
        <3> QED
            BY <1>11, <3>2, HeldIs
    <2> QED
        BY <1>10, <1>13, <2>1, <2>2, <2>3
<1> QED
    BY <1>10, <1>13 DEF drawn

\* What is allocated is what is no longer wanted.
LEMMA AllocateGives ==
    ASSUME NEW buckets \in Seq(Bucket), NEW points \in Nat, NEW id, NEW source
    PROVE  LET drawn == Allocate(buckets, points, id, source)
           IN  GivenBack(drawn.taken) = points - drawn.rest
<1> DEFINE drawn == Allocate(buckets, points, id, source)
<1>1. Drawn(drawn, buckets, points)
    BY AllocateDraws
<1>2. Held(Nat, drawn.buckets) + Share(Nat, drawn.taken) = Held(Nat, buckets)
    BY AllocateHolds
<1> HIDE DEF drawn
<1>3. /\ drawn.buckets \in Seq(Bucket) /\ drawn.taken \in Seq(Allocation) /\ drawn.rest \in Nat
      /\ PointsIn(drawn.buckets) = PointsIn(buckets) - (points - drawn.rest)
    BY <1>1 DEF Drawn
<1>4. /\ Held(Nat, drawn.buckets) = PointsIn(drawn.buckets) /\ Held(Nat, buckets) = PointsIn(buckets)
      /\ Held(Nat, drawn.buckets) \in Nat /\ Held(Nat, buckets) \in Nat
    BY <1>3, HeldIs
<1>5. Share(Nat, drawn.taken) = GivenBack(drawn.taken) /\ Share(Nat, drawn.taken) \in Nat
    BY <1>3, ShareIs
<1>6. PointsIn(drawn.buckets) + GivenBack(drawn.taken) = PointsIn(buckets)
    BY <1>2, <1>4, <1>5
<1>7. PointsIn(drawn.buckets) \in Int /\ PointsIn(buckets) \in Int /\ GivenBack(drawn.taken) \in Int
    BY <1>3, PointsInIsSigma, GivenBackIsSigma
<1>8. GivenBack(drawn.taken) = points - drawn.rest
    <2> DEFINE g == GivenBack(drawn.taken)
               p == PointsIn(drawn.buckets)
               q == PointsIn(buckets)
               r == drawn.rest
    <2>1. p = q - (points - r) /\ r \in Int /\ p + g = q /\ p \in Int /\ q \in Int /\ g \in Int
        BY <1>3, <1>6, <1>7
    <2> HIDE DEF g, p, q, r
    <2>2. g = points - r
        BY <2>1
    <2> QED
        BY <2>2 DEF g, r
<1> QED
    BY <1>8 DEF drawn
-----------------------------------------------------------------------------
(* What a row of the ledger does to them. *)

(***************************************************************************)
(* The allocations recorded with a consumption take what they say from the *)
(* buckets they name, or all there is, when they come to no more than the  *)
(* consumption.                                                            *)
(***************************************************************************)
LEMMA PayAllHolds ==
    ASSUME NEW start \in Payments, NEW alloc \in Seq(Allocation), GivenBack(alloc) <= start.rest, NEW g
    PROVE  LET paid == PayAll(start, alloc)
           IN  \/ Held({g}, paid.buckets) <= Held({g}, start.buckets) - Share({g}, alloc)
               \/ Held({g}, paid.buckets) = 0
<1> DEFINE S == 1 .. Len(alloc)
           paid == PayAll(start, alloc)
           last == [T \in SUBSET S |-> Max(T)]
           p == PointsOf(alloc)
           v == Shares({g}, alloc)
           points == PointsIn(start.buckets)
           wanted == start.rest
<1>1. start.buckets \in Seq(Bucket) /\ start.rest \in Nat
    BY DEF Payments
<1>2. points \in Int /\ wanted \in Nat /\ Paid(start, points, wanted)
    <2>1. points \in Int
        BY <1>1, PointsInIsSigma
    <2> QED
        BY <1>1, <2>1 DEF Paid
<1>3. PICK iter : paid = iter[S] /\ PaysInTurn(iter, start, alloc, points, wanted)
    BY <1>2, PayTurns
<1>4. /\ iter[{}] = start
      /\ \A T \in SUBSET S : /\ iter[T] \in Payments
                             /\ T # {} => iter[T] = PayFrom(iter[T \ {Max(T)}], alloc[Max(T)])
    BY <1>3 DEF PaysInTurn
<1>5. /\ Len(alloc) \in Nat /\ IsFiniteSet(S) /\ DOMAIN alloc = S
      /\ \A k \in S : /\ alloc[k] \in Allocation /\ p[k] = alloc[k].points /\ p[k] \in Nat
                      /\ v[k] = IF alloc[k].id \in {g} THEN alloc[k].points ELSE 0
                      /\ v[k] \in Nat
    <2>1. /\ Len(alloc) \in Nat /\ DOMAIN alloc = S
          /\ \A k \in S : alloc[k] \in Allocation /\ p[k] = alloc[k].points
        BY PointsAre
    <2>2. /\ IsFiniteSet(DOMAIN alloc)
          /\ \A k \in DOMAIN alloc :
                /\ v[k] = IF alloc[k].id \in {g} THEN alloc[k].points ELSE 0
                /\ v[k] \in Nat /\ alloc[k].points \in Nat
        BY ShareIs
    <2> HIDE DEF S, p, v
    <2> QED
        BY <2>1, <2>2
<1>6. \A T \in SUBSET S : T # {} => Max(T) \in T
    BY <1>5, MaxOf
<1>7. GivenBack(alloc) = Sigma(S, p) /\ Share({g}, alloc) = Sigma(S, v)
    BY <1>5, GivenBackIsSigma DEF Share
<1> HIDE DEF S, paid, p, v, points, wanted
<1>8. Chooses(last, S)
    BY <1>6 DEF Chooses
<1>9. /\ \A T \in SUBSET S : IsFiniteSet(T)
      /\ \A T \in SUBSET S : /\ Sigma(T, p) \in Nat /\ Sigma(T, p) <= Sigma(S, p)
                             /\ Sigma(T, v) \in Nat
    <2>1. \A T \in SUBSET S : IsFiniteSet(T)
        BY <1>5, FS_Subset
    <2> QED
        BY <1>5, <2>1, SigmaOfNats
<1> DEFINE Sound(state, T) ==
               /\ state.rest >= start.rest - Sigma(T, p)
               /\ \/ Held({g}, state.buckets) <= Held({g}, start.buckets) - Sigma(T, v)
                  \/ Held({g}, state.buckets) = 0
           family == {T \in SUBSET S : Sound(iter[T], T)}
<1>10. {} \in family
    <2>1. Sigma({}, p) = 0 /\ Sigma({}, v) = 0
        BY <1>5, SigmaTakes
    <2>2. Held({g}, start.buckets) \in Nat
        BY <1>1, HeldIs
    <2> QED
        BY <1>1, <1>4, <2>1, <2>2
<1>11. HasWithRest(family, last, S)
    <2>1. ASSUME NEW T \in SUBSET S, T # {}, T \ {last[T]} \in family PROVE T \in family
        <3> DEFINE m == Max(T)
                   U == T \ {m}
                   a == alloc[m]
                   old == iter[U]
                   new == iter[T]
                   drawn == Allocate(old.buckets, a.points, a.id, a.source)
        <3>1. last[T] = m /\ m \in T /\ m \in S /\ U \in SUBSET S
            BY <1>6, <2>1
        <3>2. new = PayFrom(old, a) /\ old \in Payments /\ Sound(old, U) /\ a \in Allocation
            BY <1>4, <1>5, <2>1, <3>1
        <3>3. /\ old.buckets \in Seq(Bucket) /\ old.rest \in Nat
              /\ a.points \in Nat /\ a.points = p[m]
              /\ v[m] = IF a.id \in {g} THEN a.points ELSE 0
            BY <1>5, <3>1, <3>2 DEF Payments, Allocation
        <3>4. /\ Sigma(T, p) = Sigma(U, p) + p[m] /\ Sigma(T, v) = Sigma(U, v) + v[m]
              /\ Sigma(U, p) \in Nat /\ Sigma(U, v) \in Nat /\ Sigma(T, p) <= Sigma(S, p) /\ Sigma(T, p) \in Nat
            <4>1. IsFiniteSet(T) /\ \A k \in T : p[k] \in Int /\ v[k] \in Int
                BY <1>5, <1>9
            <4>2. Sigma(T, p) = Sigma(U, p) + p[m] /\ Sigma(T, v) = Sigma(U, v) + v[m]
                BY <3>1, <4>1, SigmaTakes
            <4> QED
                BY <1>9, <3>1, <4>2
        <3> HIDE DEF m, U, a, old, new
        <3>5. Smaller(old.rest, a.points) = a.points
            <4>1. old.rest >= start.rest - Sigma(U, p) /\ Sigma(S, p) <= start.rest
                BY <1>7, <3>2
            <4>2. old.rest >= a.points
                <5> DEFINE s == Sigma(S, p)
                           t == Sigma(T, p)
                           u == Sigma(U, p)
                           r == start.rest
                <5>1. /\ t = u + a.points /\ u \in Nat /\ t \in Nat /\ t <= s /\ s \in Nat /\ r \in Nat
                      /\ old.rest >= r - u /\ s <= r
                    BY <1>1, <1>9, <3>3, <3>4, <4>1
                <5> HIDE DEF s, t, u, r
                <5> QED
                    BY <3>3, <5>1
            <4> QED
                BY <3>3, <4>2 DEF Smaller
        <3>6. new.buckets = drawn.buckets /\ new.rest = old.rest - (a.points - drawn.rest)
            BY <3>2, <3>5 DEF PayFrom
        <3>7. /\ Lessened(drawn.buckets, old.buckets) /\ drawn.rest \in Nat
              /\ a.id = g => \/ Held({g}, drawn.buckets) <= Held({g}, old.buckets) - a.points
                             \/ Held({g}, drawn.buckets) = 0
            <4>1. Lessened(drawn.buckets, old.buckets)
                BY <3>3, AllocateLessens
            <4>2. Drawn(drawn, old.buckets, a.points)
                BY <3>3, AllocateDraws
            <4>3. drawn.rest \in Nat
                <5> HIDE DEF drawn
                <5> QED
                    BY <3>3, <4>2 DEF Drawn
            <4>4. {a.id} = Nat \/ {a.id} = {a.id} => \/ Held({a.id}, drawn.buckets) <= Held({a.id}, old.buckets) - a.points
                                                     \/ Held({a.id}, drawn.buckets) = 0
                BY <3>3, AllocateHolds
            <4> QED
                BY <4>1, <4>3, <4>4
        <3> HIDE DEF drawn
        <3>8. /\ Held({g}, drawn.buckets) \in Nat /\ Held({g}, old.buckets) \in Nat
              /\ Held({g}, drawn.buckets) <= Held({g}, old.buckets) /\ Held({g}, start.buckets) \in Nat
            <4>1. drawn.buckets \in Seq(Bucket) /\ Held({g}, drawn.buckets) <= Held({g}, old.buckets)
                BY <3>3, <3>7, HeldLess
            <4> QED
                BY <1>1, <3>3, <4>1, HeldIs
        <3>9. new.rest >= start.rest - Sigma(T, p)
            <4> DEFINE t == Sigma(T, p)
                       u == Sigma(U, p)
                       r == start.rest
                       x == drawn.rest
                       y == old.rest
                       z == a.points
            <4>1. /\ t = u + z /\ u \in Nat /\ t \in Nat /\ r \in Nat /\ x \in Nat /\ y \in Nat /\ z \in Nat
                  /\ y >= r - u /\ new.rest = y - (z - x)
                BY <1>1, <3>2, <3>3, <3>4, <3>6, <3>7
            <4> HIDE DEF t, u, r, x, y, z
            <4>2. new.rest >= r - t
                BY <4>1
            <4> QED
                BY <4>2 DEF r, t
        <3>10. \/ Held({g}, drawn.buckets) <= Held({g}, start.buckets) - Sigma(T, v)
               \/ Held({g}, drawn.buckets) = 0
            <4> DEFINE t == Sigma(T, v)
                       u == Sigma(U, v)
                       x == Held({g}, drawn.buckets)
                       y == Held({g}, old.buckets)
                       r == Held({g}, start.buckets)
                       z == a.points
            <4>1. /\ t = u + v[m] /\ u \in Nat /\ r \in Nat /\ x \in Nat /\ y \in Nat /\ z \in Nat
                  /\ x <= y /\ (y <= r - u \/ y = 0)
                  /\ v[m] = IF a.id = g THEN z ELSE 0
                  /\ a.id = g => x <= y - z \/ x = 0
                BY <3>2, <3>3, <3>4, <3>7, <3>8
            <4> HIDE DEF t, u, x, y, r, z
            <4>2. x <= r - t \/ x = 0
                BY <4>1
            <4> QED
                BY <4>2 DEF x, r, t
        <3>11. Sound(new, T)
            BY <3>6, <3>9, <3>10
        <3> QED
            BY <3>11 DEF new
    <2> QED
        BY <2>1 DEF HasWithRest
<1> HIDE DEF family, last
<1>12. SUBSET S \subseteq family
    BY <1>5, <1>8, <1>10, <1>11, TakingOff
<1>13. Sound(paid, S)
    <2>1. S \in family
        BY <1>12
    <2> QED
        BY <1>3, <2>1 DEF family
<1> QED
    BY <1>7, <1>13 DEF paid
\* What is allocated to one identifier is such a total.
Allotted(g, alloc) == SumOver(alloc, LAMBDA a : IF a.id = g THEN a.points ELSE 0)

LEMMA AllottedIsShare ==
    ASSUME NEW alloc \in Seq(Allocation), NEW g
    PROVE  Allotted(g, alloc) = Share({g}, alloc)
<1> DEFINE n == Len(alloc)
           v == Shares({g}, alloc)
           IsIter(f) == f = [S \in SUBSET DOMAIN alloc |->
                                IF S = {} THEN 0
                                ELSE f[S \ {Max(S)}] + IF alloc[Max(S)].id = g THEN alloc[Max(S)].points ELSE 0]
           iter == CHOOSE f : IsIter(f)
<1>1. /\ n \in Nat /\ DOMAIN alloc = 1 .. n
      /\ \A i \in 1 .. n : v[i] = (IF alloc[i].id = g THEN alloc[i].points ELSE 0) /\ v[i] \in Int
    <2>1. n \in Nat /\ DOMAIN alloc = 1 .. n
        BY PointsAre
    <2>2. \A i \in DOMAIN alloc : v[i] = (IF alloc[i].id \in {g} THEN alloc[i].points ELSE 0) /\ v[i] \in Nat
        BY ShareIs
    <2> HIDE DEF n, v
    <2> QED
        BY <2>1, <2>2
<1>2. Allotted(g, alloc) = iter[DOMAIN alloc]
    BY DEF Allotted, SumOver, FoldLeft, MapThenFoldSet, Max
<1>3. ASSUME NEW f PROVE IsIter(f) <=> Sums(f, n, v)
    <2>1. \A S \in SUBSET (1 .. n) : S # {} => Max(S) \in 1 .. n
        BY <1>1, MaxOf
    <2> HIDE DEF v, n
    <2>2. \A S \in SUBSET (1 .. n) :
              S # {} => (IF alloc[Max(S)].id = g THEN alloc[Max(S)].points ELSE 0) = v[Max(S)]
        BY <1>1, <2>1
    <2>3. [S \in SUBSET (1 .. n) |->
              IF S = {} THEN 0
              ELSE f[S \ {Max(S)}] + IF alloc[Max(S)].id = g THEN alloc[Max(S)].points ELSE 0]
             = [S \in SUBSET (1 .. n) |-> IF S = {} THEN 0 ELSE f[S \ {Max(S)}] + v[Max(S)]]
        BY <2>2
    <2> QED
        BY <1>1, <2>3 DEF Sums
<1> HIDE DEF IsIter, n, v
<1>4. (\E f : Sums(f, n, v)) => Sums(iter, n, v)
    BY <1>3
<1>5. iter[1 .. n] = Sigma(1 .. n, v) /\ Sigma(1 .. n, v) \in Int
    BY <1>1, <1>4, ChosenSum
<1> QED
    BY <1>1, <1>2, <1>5 DEF v, Share

(***************************************************************************)
(* What a row of the ledger may add to the points of one identifier: what  *)
(* it grants under it, less what it expires of it or allocates to it; for  *)
(* a refund, what it gives back to it.                                     *)
(***************************************************************************)
Given(g, r) == IF r.delta > 0 /\ ~(r.kind = "refund" /\ r.alloc # <<>>) /\ r.ref = g THEN r.delta ELSE 0
Weight(g, r) == Given(g, r) - ExpiredFrom(g, r) - AllocatedTo(g, r)

\* Its parts are numbers, and an allocation counts for a charge and against a refund.
LEMMA WeightIs ==
    ASSUME NEW r, Readable(r), NEW g
    PROVE  /\ Given(g, r) \in Nat /\ ExpiredFrom(g, r) \in Int /\ AllocatedTo(g, r) \in Int
           /\ Weight(g, r) \in Int
           /\ AllocatedTo(g, r) = IF r.kind = "consume" THEN Share({g}, r.alloc)
                                  ELSE IF r.kind = "refund" THEN -Share({g}, r.alloc) ELSE 0
           /\ r.alloc = <<>> => AllocatedTo(g, r) = 0
           /\ Share({g}, r.alloc) \in Nat
<1>1. r.delta \in Int /\ r.alloc \in Seq(Allocation)
    BY DEF Readable
<1>2. Given(g, r) \in Nat /\ ExpiredFrom(g, r) \in Int
    BY <1>1 DEF Given, ExpiredFrom
<1>3. Share({g}, r.alloc) \in Nat /\ (r.alloc = <<>> => Share({g}, r.alloc) = 0)
    BY <1>1, ShareIs, ShareOfNone
<1> DEFINE a == Allotted(g, r.alloc)
<1>4. AllocatedTo(g, r) = CASE r.kind = "consume" -> a [] r.kind = "refund" -> -a [] OTHER -> 0
    BY DEF AllocatedTo, Allotted
<1>5. a = Share({g}, r.alloc)
    BY <1>1, AllottedIsShare
<1> HIDE DEF a
<1>6. AllocatedTo(g, r) = IF r.kind = "consume" THEN Share({g}, r.alloc)
                          ELSE IF r.kind = "refund" THEN -Share({g}, r.alloc) ELSE 0
    BY <1>4, <1>5
<1>7. AllocatedTo(g, r) \in Int /\ (r.alloc = <<>> => AllocatedTo(g, r) = 0)
    BY <1>3, <1>6
<1> QED
    BY <1>2, <1>3, <1>6, <1>7 DEF Weight
(***************************************************************************)
(* The points of a row and of its allocations agree: a charge allocates no *)
(* more than it takes, a refund gives back no more than it adds, and no    *)
(* other row that adds points has allocations.                             *)
(***************************************************************************)
Balanced(r) ==
    /\ r.delta <= 0 => GivenBack(r.alloc) <= -r.delta
    /\ r.delta > 0 /\ r.kind # "refund" => r.alloc = <<>>
    /\ r.kind = "refund" => GivenBack(r.alloc) <= r.delta

\* A row that takes points leaves no more than its weight says, or none.
LEMMA DrainHolds ==
    ASSUME NEW buckets \in Seq(Bucket), NEW row, Readable(row), Balanced(row), row.delta < 0, NEW g
    PROVE  LET new == DrainBuckets(buckets, row)
           IN  /\ PointsIn(new) <= PointsIn(buckets) + row.delta \/ PointsIn(new) = 0
               /\ Held({g}, new) <= Held({g}, buckets) + Weight(g, row) \/ Held({g}, new) = 0
<1> DEFINE wanted == -row.delta
           points == PointsIn(buckets)
           drawn == Allocate(buckets, wanted, row.ref, NoSource)
           targeted == IF row.kind = "subscription_expire" THEN drawn
                       ELSE [buckets |-> buckets, rest |-> wanted]
           start == [buckets |-> targeted.buckets, rest |-> targeted.rest]
           recorded == PayAll(start, row.alloc)
           final == Allocate(recorded.buckets, recorded.rest, NoId, NoSource)
<1>1. DrainBuckets(buckets, row) = final.buckets
    BY DEF DrainBuckets, PayAll, PayFrom
<1>2. /\ row.delta \in Int /\ row.alloc \in Seq(Allocation) /\ row.kind # "refund"
      /\ wanted \in Nat /\ wanted > 0 /\ points \in Int
    BY PointsInIsSigma DEF Readable
<1> HIDE DEF wanted
<1>3. /\ Paid(targeted, points, wanted) /\ Lessened(targeted.buckets, buckets)
      /\ row.kind = "subscription_expire" => targeted = drawn
      /\ row.kind # "subscription_expire" => targeted.buckets = buckets /\ targeted.rest = wanted
    <2>1. CASE row.kind = "subscription_expire"
        <3>1. targeted = drawn
            BY <2>1
        <3>2. Drawn(drawn, buckets, wanted) /\ Lessened(drawn.buckets, buckets)
            BY <1>2, AllocateDraws, AllocateLessens
        <3> HIDE DEF drawn, targeted
        <3> QED
            BY <2>1, <3>1, <3>2 DEF Drawn, Paid
    <2>2. CASE row.kind # "subscription_expire"
        <3>1. targeted.buckets = buckets /\ targeted.rest = wanted
            BY <2>2
        <3>2. wanted \in 0 .. wanted /\ points = points - (wanted - wanted)
            BY <1>2
        <3> HIDE DEF targeted
        <3> QED
            BY <2>2, <3>1, <3>2, LessenedTwice DEF Paid
    <2> QED
        BY <2>1, <2>2
<1> HIDE DEF targeted
<1>4. /\ start \in Payments /\ Paid(start, points, wanted)
      /\ start.buckets = targeted.buckets /\ start.rest = targeted.rest
      /\ targeted.buckets \in Seq(Bucket)
    <2>1. targeted.buckets \in Seq(Bucket) /\ targeted.rest \in Nat
        BY <1>2, <1>3 DEF Paid
    <2> QED
        BY <1>3, <2>1 DEF Paid, Payments
<1> HIDE DEF start, points
<1>5. Paid(recorded, points, wanted) /\ Lessened(recorded.buckets, start.buckets)
    BY <1>2, <1>4, PayAllPays, PayAllLessens
<1>6. row.kind = "consume" =>
          \/ Held({g}, recorded.buckets) <= Held({g}, start.buckets) - Share({g}, row.alloc)
          \/ Held({g}, recorded.buckets) = 0
    <2> SUFFICES ASSUME row.kind = "consume"
                 PROVE  \/ Held({g}, recorded.buckets) <= Held({g}, start.buckets) - Share({g}, row.alloc)
                        \/ Held({g}, recorded.buckets) = 0
        OBVIOUS
    <2>1. GivenBack(row.alloc) <= start.rest
        <3>1. start.rest = wanted
            BY <1>3, <1>4
        <3>2. GivenBack(row.alloc) <= wanted
            BY <1>2 DEF Balanced, wanted
        <3> QED
            BY <3>1, <3>2
    <2> QED
        BY <1>2, <1>4, <2>1, PayAllHolds
<1> HIDE DEF recorded
<1>7. /\ recorded.buckets \in Seq(Bucket) /\ recorded.rest \in Nat
      /\ PointsIn(recorded.buckets) = points - (wanted - recorded.rest)
    BY <1>2, <1>5 DEF Paid
<1>8. /\ Lessened(final.buckets, recorded.buckets)
      /\ \/ Held(Nat, final.buckets) <= Held(Nat, recorded.buckets) - recorded.rest
         \/ Held(Nat, final.buckets) = 0
    BY <1>7, AllocateLessens, AllocateHolds
<1>9. /\ Lessened(final.buckets, targeted.buckets) /\ Lessened(final.buckets, buckets)
    BY <1>3, <1>4, <1>5, <1>8, LessenedTwice
<1>10. /\ final.buckets \in Seq(Bucket)
       /\ Held({g}, final.buckets) <= Held({g}, recorded.buckets)
       /\ Held({g}, final.buckets) <= Held({g}, targeted.buckets)
       /\ Held({g}, final.buckets) <= Held({g}, buckets)
    BY <1>4, <1>7, <1>8, <1>9, HeldLess
<1>11. \/ row.kind = "subscription_expire" /\ row.ref = g =>
              Held({g}, targeted.buckets) <= Held({g}, buckets) - wanted
       \/ Held({g}, targeted.buckets) = 0
    <2> SUFFICES ASSUME row.kind = "subscription_expire", row.ref = g
                 PROVE  \/ Held({g}, targeted.buckets) <= Held({g}, buckets) - wanted
                        \/ Held({g}, targeted.buckets) = 0
        OBVIOUS
    <2>1. {g} = Nat \/ {g} = {row.ref} => \/ Held({g}, drawn.buckets) <= Held({g}, buckets) - wanted
                                          \/ Held({g}, drawn.buckets) = 0
        BY <1>2, AllocateHolds
    <2> QED
        BY <1>3, <2>1
<1> HIDE DEF final, drawn
<1>12. PointsIn(final.buckets) <= PointsIn(buckets) + row.delta \/ PointsIn(final.buckets) = 0
    <2> DEFINE x == PointsIn(final.buckets)
               y == PointsIn(recorded.buckets)
               r == recorded.rest
    <2>1. x = Held(Nat, final.buckets) /\ y = Held(Nat, recorded.buckets)
        BY <1>7, <1>10, HeldIs
    <2>2. (x <= y - r \/ x = 0) /\ y = points - (wanted - r)
        BY <1>7, <1>8, <2>1
    <2>3. x \in Int /\ y \in Int /\ r \in Int
        BY <1>7, <1>10, PointsInIsSigma
    <2> HIDE DEF x, y, r
    <2>4. x <= points - wanted \/ x = 0
        BY <1>2, <2>2, <2>3
    <2> QED
        BY <1>2, <2>4 DEF x, points, wanted
<1>13. Held({g}, final.buckets) <= Held({g}, buckets) + Weight(g, row) \/ Held({g}, final.buckets) = 0
    <2> DEFINE x == Held({g}, final.buckets)
               t == Held({g}, targeted.buckets)
               y == Held({g}, recorded.buckets)
               z == Held({g}, buckets)
               a == Share({g}, row.alloc)
               w == Weight(g, row)
    <2>1. /\ x \in Nat /\ y \in Nat /\ z \in Nat /\ t \in Nat /\ x <= z /\ x <= y /\ x <= t
          /\ row.kind = "consume" => start.buckets = buckets
        BY <1>3, <1>4, <1>7, <1>10, HeldIs
    <2>2. /\ a \in Nat
          /\ row.kind = "consume" => y <= z - a \/ y = 0
        BY <1>2, <1>6, <2>1, ShareIs
    <2>3. row.kind = "subscription_expire" /\ row.ref = g => t <= z - wanted \/ t = 0
        BY <1>11
    <2>4. w = Given(g, row) - ExpiredFrom(g, row) - AllocatedTo(g, row)
        BY DEF Weight
    <2>5. Given(g, row) = 0
        BY <1>2 DEF Given
    <2>6. ExpiredFrom(g, row) = IF row.kind = "subscription_expire" /\ row.ref = g THEN wanted ELSE 0
        BY DEF ExpiredFrom, wanted
    <2>7. AllocatedTo(g, row) = IF row.kind = "consume" THEN a ELSE 0
        BY <1>2, WeightIs
    <2> HIDE DEF x, t, y, z, a, w
    <2>8. CASE row.kind = "consume"
        <3>1. w = 0 - 0 - a
            BY <2>4, <2>5, <2>6, <2>7, <2>8
        <3>2. x <= z + w \/ x = 0
            BY <2>1, <2>2, <2>8, <3>1
        <3> QED
            BY <3>2 DEF x, z, w
    <2>9. CASE row.kind = "subscription_expire" /\ row.ref = g
        <3>1. w = 0 - wanted - 0
            BY <2>4, <2>5, <2>6, <2>7, <2>9
        <3>2. x <= z + w \/ x = 0
            BY <1>2, <2>1, <2>3, <2>9, <3>1
        <3> QED
            BY <3>2 DEF x, z, w
    <2>10. CASE row.kind # "consume" /\ ~(row.kind = "subscription_expire" /\ row.ref = g)
        <3>1. w = 0 - 0 - 0
            BY <2>4, <2>5, <2>6, <2>7, <2>10
        <3>2. x <= z + w \/ x = 0
            BY <2>1, <3>1
        <3> QED
            BY <3>2 DEF x, z, w
    <2> QED
        BY <2>8, <2>9, <2>10
<1> QED
    BY <1>1, <1>12, <1>13

\* What a refund reopens for an identifier is what it gives back to it.
LEMMA ReopenedShares ==
    ASSUME NEW row, row.at \in Nat, row.alloc \in Seq(Allocation), NEW G
    PROVE  Held(G, Reopened(row)) = Share(G, row.alloc)
<1> DEFINE alloc == row.alloc
           new == Reopened(row)
           v == Shares(G, alloc)
           w == Helds(G, new)
           D == DOMAIN alloc
<1>1. new \in Seq(Bucket) /\ DOMAIN new = D
    BY ReopenedHolds DEF Reopened
<1>2. \A i \in D : new[i].id = alloc[i].id /\ new[i].left = alloc[i].points
    BY DEF Reopened
<1>3. /\ IsFiniteSet(D)
      /\ \A i \in D : v[i] = (IF alloc[i].id \in G THEN alloc[i].points ELSE 0) /\ v[i] \in Nat
    <2>1. alloc \in Seq(Allocation)
        OBVIOUS
    <2> HIDE DEF alloc
    <2> QED
        BY <2>1, ShareIs
<1>4. \A i \in D : w[i] = IF new[i].id \in G THEN new[i].left ELSE 0
    BY <1>1, HeldsAre
<1> HIDE DEF alloc, new, v, w, D
<1>5. Sigma(D, w) = Sigma(D, v)
    BY <1>2, <1>3, <1>4, SigmaOfSame
<1> QED
    BY <1>1, <1>5 DEF Held, Share, v, w, D, alloc, new

\* A row that adds points adds no more than its weight says.
LEMMA OpenHolds ==
    ASSUME NEW buckets \in Seq(Bucket), NEW row, Readable(row), Balanced(row), row.delta > 0, NEW g
    PROVE  LET new == OpenBuckets(buckets, row)
           IN  /\ PointsIn(new) <= PointsIn(buckets) + row.delta
               /\ Held({g}, new) <= Held({g}, buckets) + Weight(g, row)
<1> DEFINE new == OpenBuckets(buckets, row)
           x == Held({g}, buckets)
           w == Weight(g, row)
<1>1. /\ row.delta \in Int /\ row.alloc \in Seq(Allocation) /\ row.at \in Nat
      /\ GivenBack(row.alloc) \in Int /\ PointsIn(buckets) \in Int /\ x \in Nat
    BY PointsInIsSigma, GivenBackIsSigma, HeldIs DEF Readable
<1>2. PointsIn(new) <= PointsIn(buckets) + row.delta
    <2>1. PointsIn(new) = PointsIn(buckets) + row.delta - Beyond(row)
        BY OpenAdds
    <2>2. Beyond(row) \in Int /\ Beyond(row) >= 0
        BY <1>1 DEF Beyond, Balanced
    <2> DEFINE p == PointsIn(new)
               q == PointsIn(buckets)
               y == Beyond(row)
    <2>3. p = q + row.delta - y /\ y \in Int /\ y >= 0 /\ q \in Int
        BY <1>1, <2>1, <2>2
    <2> HIDE DEF p, q, y
    <2>4. p <= q + row.delta
        BY <1>1, <2>3
    <2> QED
        BY <2>4 DEF p, q
<1>3. /\ w = Given(g, row) - ExpiredFrom(g, row) - AllocatedTo(g, row)
      /\ AllocatedTo(g, row) = IF row.kind = "consume" THEN Share({g}, row.alloc)
                               ELSE IF row.kind = "refund" THEN -Share({g}, row.alloc) ELSE 0
      /\ row.alloc = <<>> => AllocatedTo(g, row) = 0
      /\ Share({g}, row.alloc) \in Nat
    BY WeightIs DEF Weight
<1>4. CASE row.kind = "refund" /\ row.alloc # <<>>
    <2>1. new = buckets \o Reopened(row)
        BY <1>4 DEF OpenBuckets, Reopened
    <2> DEFINE r == Reopened(row)
    <2>2. r \in Seq(Bucket) /\ Held({g}, r) = Share({g}, row.alloc)
        BY <1>1, ReopenedHolds, ReopenedShares
    <2> HIDE DEF r
    <2>3. Held({g}, buckets \o r) = x + Share({g}, row.alloc)
        BY <2>2, HeldOfBoth
    <2>4. Given(g, row) = 0 /\ ExpiredFrom(g, row) = 0 /\ AllocatedTo(g, row) = -Share({g}, row.alloc)
        BY <1>3, <1>4 DEF Given, ExpiredFrom
    <2> HIDE DEF x, w
    <2>5. w = 0 - 0 - (-Share({g}, row.alloc))
        BY <1>3, <2>4
    <2>6. x + Share({g}, row.alloc) <= x + w
        BY <1>1, <1>3, <2>5
    <2> QED
        BY <1>2, <2>1, <2>3, <2>6 DEF r, x, w
<1>5. CASE ~(row.kind = "refund" /\ row.alloc # <<>>)
    <2> DEFINE b == [id |-> row.ref, kind |-> row.kind, source |-> SourceOf(row.kind),
                     left |-> row.delta, at |-> row.at,
                     lapse |-> IF row.kind = "subscription_grant" THEN row.lapse ELSE Never]
               one == <<b>>
               d == IF row.ref = g THEN row.delta ELSE 0
    <2>1. new = Append(buckets, b)
        BY <1>5 DEF OpenBuckets
    <2>2. b \in Bucket /\ b.left = row.delta /\ b.id = row.ref
        <3> DEFINE lapse == IF row.kind = "subscription_grant" THEN row.lapse ELSE Never
        <3>1. /\ row.ref \in Nat /\ row.kind \in Kinds /\ row.at \in Nat /\ lapse \in Nat
              /\ SourceOf(row.kind) \in Sources /\ row.delta \in Nat
            BY NeverAssumption DEF Readable, SourceOf, Sources
        <3>2. b = [id |-> row.ref, kind |-> row.kind, source |-> SourceOf(row.kind),
                   left |-> row.delta, lapse |-> lapse, at |-> row.at]
            OBVIOUS
        <3> HIDE DEF b, lapse
        <3> QED
            BY <3>1, <3>2 DEF Bucket
    <2> HIDE DEF b
    <2>3. Append(buckets, b) = buckets \o one /\ one \in Seq(Bucket)
        BY <2>2
    <2>4. Held({g}, one) = d
        <3>1. Held({g}, one) = IF b.id \in {g} THEN b.left ELSE 0
            BY <2>2, HeldOfOne
        <3> HIDE DEF one
        <3> QED
            BY <2>2, <3>1
    <2> HIDE DEF one
    <2>5. Held({g}, buckets \o one) = x + d
        BY <2>3, <2>4, HeldOfBoth
    <2>6. /\ AllocatedTo(g, row) = 0 /\ Given(g, row) = d
          /\ ExpiredFrom(g, row) \in Int /\ ExpiredFrom(g, row) <= 0 /\ d \in Int
        <3>1. row.alloc = <<>>
            BY <1>5 DEF Balanced
        <3>2. AllocatedTo(g, row) = 0
            BY <1>3, <3>1
        <3>3. Given(g, row) = d
            BY <1>5 DEF Given
        <3>4. ExpiredFrom(g, row) \in Int /\ ExpiredFrom(g, row) <= 0 /\ d \in Int
            BY <1>1 DEF ExpiredFrom
        <3> QED
            BY <3>2, <3>3, <3>4
    <2> HIDE DEF x, w, d
    <2>7. w = d - ExpiredFrom(g, row) - 0
        BY <1>3, <2>6
    <2>8. x + d <= x + w
        BY <1>1, <2>6, <2>7
    <2> QED
        BY <1>2, <2>1, <2>3, <2>5, <2>8 DEF x, w
<1> QED
    BY <1>4, <1>5
-----------------------------------------------------------------------------
(* What a replay leaves at most. *)

Weights(g, rs) == [i \in DOMAIN rs |-> Weight(g, rs[i])]

\* Neither the balance nor any grant was ever overdrawn, in the order of the replay.
Sound(rs) ==
    /\ \A i \in DOMAIN rs : Balanced(rs[i])
    /\ NeverNegative(rs, Deltas(rs))
    /\ \A g \in Nat : NeverNegative(rs, Weights(g, rs))

\* Weights are numbers.
LEMMA WeightsAre ==
    ASSUME NEW rs, NEW n, Rows(rs, n), NEW g
    PROVE  \A i \in 1 .. n : Weights(g, rs)[i] = Weight(g, rs[i]) /\ Weights(g, rs)[i] \in Int
<1>1. DOMAIN rs = 1 .. n /\ \A i \in 1 .. n : Readable(rs[i])
    BY DEF Rows
<1>2. \A i \in 1 .. n : Weight(g, rs[i]) \in Int
    BY <1>1, WeightIs
<1> QED
    BY <1>1, <1>2 DEF Weights

\* What each row adds at most to the points of certain identifiers.
Bounds(G, rs, n, v) ==
    \A i \in 1 .. n : \A buckets \in Seq(Bucket) :
        LET new == ApplyRow(rs, buckets, i)
        IN  Held(G, new) <= Held(G, buckets) + v[i] \/ Held(G, new) = 0

\* The weights of the rows are such bounds, and so are their points.
LEMMA RowsBound ==
    ASSUME NEW rs, NEW n, Rows(rs, n), \A i \in DOMAIN rs : Balanced(rs[i])
    PROVE  Bounds(Nat, rs, n, Deltas(rs)) /\ \A g : Bounds({g}, rs, n, Weights(g, rs))
<1>1. ASSUME NEW i \in 1 .. n, NEW buckets \in Seq(Bucket), NEW g
      PROVE  LET new == ApplyRow(rs, buckets, i)
             IN  /\ Held(Nat, new) <= Held(Nat, buckets) + Deltas(rs)[i] \/ Held(Nat, new) = 0
                 /\ Held({g}, new) <= Held({g}, buckets) + Weights(g, rs)[i] \/ Held({g}, new) = 0
    <2> DEFINE row == rs[i]
               new == ApplyRow(rs, buckets, i)
    <2>1. Readable(row) /\ Balanced(row)
        BY DEF Rows
    <2>2. Deltas(rs)[i] = row.delta /\ Weights(g, rs)[i] = Weight(g, row)
        BY RowsAre, WeightsAre
    <2>3. new \in Seq(Bucket)
        BY ApplyRowAdds
    <2>4. new = IF row.delta > 0 THEN OpenBuckets(buckets, row)
                ELSE IF row.delta < 0 THEN DrainBuckets(buckets, row) ELSE buckets
        BY DEF ApplyRow
    <2> HIDE DEF row, new
    <2>5. /\ Held(Nat, new) = PointsIn(new) /\ Held(Nat, buckets) = PointsIn(buckets)
          /\ Held({g}, buckets) \in Nat /\ Held(Nat, buckets) \in Nat /\ row.delta \in Int
        BY <2>1, <2>3, HeldIs DEF Readable
    <2>6. /\ PointsIn(new) <= PointsIn(buckets) + row.delta \/ PointsIn(new) = 0
          /\ Held({g}, new) <= Held({g}, buckets) + Weight(g, row) \/ Held({g}, new) = 0
        <3>1. CASE row.delta > 0
            BY <2>1, <2>4, <3>1, OpenHolds
        <3>2. CASE row.delta < 0
            <4>1. ~(row.delta > 0)
                BY <2>5, <3>2
            <4>2. new = DrainBuckets(buckets, row)
                BY <2>4, <3>2, <4>1
            <4> QED
                BY <2>1, <3>2, <4>2, DrainHolds
        <3>3. CASE row.delta = 0
            <4>1. new = buckets
                BY <2>4, <3>3
            <4>2. row.kind # "refund"
                BY <2>1, <3>3 DEF Readable
            <4>3. Share({g}, row.alloc) = 0
                <5>1. /\ row.alloc \in Seq(Allocation) /\ GivenBack(row.alloc) <= 0
                    BY <2>1, <3>3 DEF Readable, Balanced
                <5>2. Share({g}, row.alloc) \in Nat /\ Share({g}, row.alloc) <= GivenBack(row.alloc)
                      /\ GivenBack(row.alloc) \in Int
                    BY <5>1, ShareIs, GivenBackIsSigma
                <5> QED
                    BY <5>1, <5>2
            <4>4. AllocatedTo(g, row) = 0 /\ ExpiredFrom(g, row) = 0 /\ Given(g, row) = 0
                <5>1. AllocatedTo(g, row) = IF row.kind = "consume" THEN Share({g}, row.alloc)
                                            ELSE IF row.kind = "refund" THEN -Share({g}, row.alloc) ELSE 0
                    BY <2>1, WeightIs
                <5>2. AllocatedTo(g, row) = 0
                    <6>1. CASE row.kind = "consume"
                        BY <4>3, <5>1, <6>1
                    <6>2. CASE row.kind # "consume"
                        BY <4>2, <5>1, <6>2
                    <6> QED
                        BY <6>1, <6>2
                <5>3. ExpiredFrom(g, row) = 0
                    <6>1. \A d \in Int : d <= 0 /\ d >= 0 => -d <= 0 /\ -d >= 0 /\ -d \in Int
                        OBVIOUS
                    <6>2. -row.delta = 0
                        <7>1. row.delta <= 0 /\ row.delta >= 0
                            BY <3>3
                        <7>2. -row.delta <= 0 /\ -row.delta >= 0 /\ -row.delta \in Int
                            BY <2>5, <6>1, <7>1
                        <7> QED
                            BY <7>2
                    <6> QED
                        BY <6>2 DEF ExpiredFrom
                <5>4. Given(g, row) = 0
                    BY <3>3 DEF Given
                <5> QED
                    BY <5>2, <5>3, <5>4
            <4>5. Weight(g, row) = 0
                BY <4>4 DEF Weight
            <4> QED
                BY <2>5, <3>3, <4>1, <4>5
        <3> QED
            BY <2>5, <3>1, <3>2, <3>3
    <2> QED
        BY <2>2, <2>5, <2>6 DEF new
<1> QED
    BY <1>1 DEF Bounds

\* As long as the bounds come to no less than nothing, they bound what a replay leaves.
LEMMA ReplayBounded ==
    ASSUME NEW rs, NEW n, Rows(rs, n), NEW G, NEW v, \A i \in 1 .. n : v[i] \in Int,
           Bounds(G, rs, n, v), NeverNegative(rs, v)
    PROVE  Replay(rs) \in Seq(Bucket) /\ Held(G, Replay(rs)) <= Sigma(1 .. n, v)
<1> DEFINE D == 1 .. n
           last == [T \in SUBSET D |-> LastRow(rs, T)]
<1>1. PICK iter : Replay(rs) = iter[D] /\ ReplaysInTurn(iter, rs, n)
    BY ReplayTurns
<1>2. IsFiniteSet(DOMAIN rs) /\ Stamped(rs) /\ DOMAIN rs = D
    BY RowsAre DEF Rows
<1>3. /\ iter[{}] = <<>>
      /\ \A T \in SUBSET D :
            /\ iter[T] \in Seq(Bucket)
            /\ T # {} => iter[T] = ApplyRow(rs, iter[T \ {LastRow(rs, T)}], LastRow(rs, T))
    BY <1>1 DEF ReplaysInTurn, Covers
<1>4. \A T \in SUBSET D :
          T # {} => /\ LastRow(rs, T) \in T
                    /\ \A j \in T : LastRow(rs, T) = j \/ Earlier(rs, j, LastRow(rs, T))
    BY <1>2, LastRowIs
<1> HIDE DEF D
<1>5. Chooses(last, D)
    BY <1>4 DEF Chooses
<1> DEFINE family == {T \in SUBSET D : UpToTime(rs, T) => Held(G, iter[T]) <= Sigma(T, v)}
<1>6. {} \in family
    <2>1. Sigma({}, v) = 0
        BY <1>2, SigmaTakes, FS_EmptySet
    <2>2. Held(G, <<>>) = 0
        <3>1. <<>> \in Seq(Bucket) /\ DOMAIN <<>> = {}
            OBVIOUS
        <3> QED
            BY <3>1, HeldIs
    <2> QED
        BY <1>3, <2>1, <2>2
<1>7. HasWithRest(family, last, D)
    <2>1. ASSUME NEW T \in SUBSET D, T # {}, T \ {last[T]} \in family, UpToTime(rs, T)
          PROVE  Held(G, iter[T]) <= Sigma(T, v)
        <3> DEFINE i == LastRow(rs, T)
                   U == T \ {i}
        <3>1. last[T] = i /\ i \in T /\ i \in D /\ U \in SUBSET D
            BY <1>4, <2>1
        <3>2. UpToTime(rs, U)
            <4> SUFFICES ASSUME NEW k \in U, NEW j \in DOMAIN rs, rs[j].at < rs[k].at PROVE j \in U
                BY DEF UpToTime
            <4>1. j \in T
                BY <2>1 DEF UpToTime
            <4>2. Earlier(rs, k, i) /\ k \in DOMAIN rs /\ i \in DOMAIN rs
                BY <1>2, <1>4, <2>1, <3>1
            <4>3. rs[k].at <= rs[i].at /\ rs[k].at \in Nat /\ rs[i].at \in Nat /\ rs[j].at \in Nat
                <5>1. rs[k].at \in Nat /\ rs[i].at \in Nat /\ rs[j].at \in Nat
                    BY <1>2, <4>2 DEF Stamped
                <5> QED
                    BY <4>2, <5>1 DEF Earlier
            <4>4. j # i
                BY <4>3
            <4> QED
                BY <4>1, <4>4
        <3>3. Held(G, iter[U]) <= Sigma(U, v) /\ iter[U] \in Seq(Bucket) /\ iter[T] = ApplyRow(rs, iter[U], i)
            BY <1>3, <2>1, <3>1, <3>2
        <3>4. Held(G, iter[T]) <= Held(G, iter[U]) + v[i] \/ Held(G, iter[T]) = 0
            BY <3>1, <3>3 DEF Bounds, D
        <3>5. Sigma(T, v) = Sigma(U, v) + v[i] /\ Sigma(T, v) \in Int /\ Sigma(U, v) \in Int /\ v[i] \in Int
            <4>1. \A W \in SUBSET D : IsFiniteSet(W) /\ \A x \in W : v[x] \in Int
                BY <1>2, FS_Subset DEF D
            <4> QED
                BY <3>1, <4>1, SigmaTakes
        <3>6. Sigma(T, v) >= 0
            BY <1>2, <2>1 DEF NeverNegative
        <3>7. Held(G, iter[T]) \in Nat /\ Held(G, iter[U]) \in Nat
            BY <1>3, <3>1, HeldIs
        <3> HIDE DEF i, U
        <3> QED
            BY <3>3, <3>4, <3>5, <3>6, <3>7
    <2> QED
        BY <2>1 DEF HasWithRest
<1> HIDE DEF family, last
<1>8. SUBSET D \subseteq family
    BY <1>2, <1>5, <1>6, <1>7, TakingOff
<1>9. D \in family /\ UpToTime(rs, D)
    BY <1>2, <1>8 DEF UpToTime
<1>10. Held(G, iter[D]) <= Sigma(D, v)
    BY <1>9 DEF family
<1> QED
    BY <1>1, <1>3, <1>10 DEF D
-----------------------------------------------------------------------------
(* What a new row must be like. *)

\* A row that adds points weighs nothing less than zero, and no other row more.
LEMMA WeightSign ==
    ASSUME NEW r, Readable(r), Balanced(r), NEW g
    PROVE  /\ Weight(g, r) \in Int
           /\ r.delta > 0 => Weight(g, r) >= 0
           /\ r.delta <= 0 => Weight(g, r) <= 0
<1> DEFINE w == Weight(g, r)
           a == AllocatedTo(g, r)
           x == ExpiredFrom(g, r)
           d == Given(g, r)
           s == Share({g}, r.alloc)
<1>1. /\ w = d - x - a /\ d \in Nat /\ x \in Int /\ a \in Int /\ s \in Nat
      /\ a = IF r.kind = "consume" THEN s ELSE IF r.kind = "refund" THEN -s ELSE 0
      /\ r.alloc = <<>> => a = 0
    BY WeightIs DEF Weight
<1>2. r.delta \in Int /\ (r.kind = "refund" => r.delta > 0)
    BY DEF Readable
<1>3. ASSUME r.delta > 0 PROVE x <= 0 /\ a <= 0
    <2>1. x <= 0
        BY <1>2, <1>3 DEF ExpiredFrom
    <2>2. a <= 0
        <3> HIDE DEF a, s
        <3>1. CASE r.kind = "refund"
            BY <1>1, <3>1
        <3>2. CASE r.kind # "refund"
            <4>1. r.alloc = <<>>
                BY <1>3, <3>2 DEF Balanced
            <4> QED
                BY <1>1, <4>1
        <3> QED
            BY <3>1, <3>2
    <2> QED
        BY <2>1, <2>2
<1>4. ASSUME r.delta <= 0 PROVE d = 0 /\ x >= 0 /\ a >= 0
    <2>1. d = 0
        BY <1>2, <1>4 DEF Given
    <2>2. x >= 0
        BY <1>2, <1>4 DEF ExpiredFrom
    <2>3. a >= 0
        <3>1. r.kind # "refund"
            BY <1>2, <1>4
        <3> HIDE DEF a, s
        <3> QED
            BY <1>1, <3>1
    <2> QED
        BY <2>1, <2>2, <2>3
<1> HIDE DEF w, a, x, d, s
<1>5. w \in Int /\ (r.delta > 0 => w >= 0) /\ (r.delta <= 0 => w <= 0)
    BY <1>1, <1>2, <1>3, <1>4
<1> QED
    BY <1>5 DEF w

Total(rs) == Sigma(DOMAIN rs, Deltas(rs))
TotalOf(g, rs) == Sigma(DOMAIN rs, Weights(g, rs))

\* One row more, row by row.
LEMMA RowsOfMore ==
    ASSUME NEW V, Written(V), NEW e, Readable(e)
    PROVE  LET n == Len(V)
               t == Append(V, e)
           IN  Rows(V, n) /\ Rows(t, n + 1) /\ t[n + 1] = e /\ \A i \in 1 .. n : t[i] = V[i]
<1> DEFINE n == Len(V)
           t == Append(V, e)
<1>1. Len(t) = n + 1 /\ t[n + 1] = e /\ \A i \in 1 .. n : t[i] = V[i]
    BY AppendIsSeq DEF Written
<1>2. Written(t)
    BY WrittenMore
<1> HIDE DEF t, n
<1>3. Rows(t, n + 1)
    BY <1>1, <1>2 DEF Written
<1> QED
    BY <1>1, <1>3 DEF Written, t, n

\* One row more adds its points and its weight to the totals.
LEMMA TotalsOfMore ==
    ASSUME NEW V, Written(V), NEW e, Readable(e)
    PROVE  /\ Total(V) \in Int /\ \A g : TotalOf(g, V) \in Int
           /\ Total(Append(V, e)) = Total(V) + e.delta
           /\ \A g : TotalOf(g, Append(V, e)) = TotalOf(g, V) + Weight(g, e)
<1> DEFINE n == Len(V)
           t == Append(V, e)
<1>1. /\ Rows(V, n) /\ Rows(t, n + 1) /\ t[n + 1] = e
      /\ \A i \in 1 .. n : t[i] = V[i]
    BY RowsOfMore
<1>2. n \in Nat /\ DOMAIN V = 1 .. n /\ DOMAIN t = 1 .. n + 1
    BY <1>1 DEF Rows
<1> HIDE DEF n, t
<1>3. /\ IsFiniteSet(1 .. n) /\ n + 1 \in 1 .. n + 1 /\ \A i \in 1 .. n : i \in 1 .. n + 1
    BY <1>2, AllFinite
<1>4. /\ \A i \in 1 .. n : Deltas(V)[i] \in Int /\ Deltas(t)[i] = Deltas(V)[i]
      /\ Deltas(t)[n + 1] = e.delta /\ e.delta \in Int
    <2>1. /\ \A i \in 1 .. n : Deltas(V)[i] = V[i].delta /\ Deltas(V)[i] \in Int
          /\ \A i \in 1 .. n + 1 : Deltas(t)[i] = t[i].delta /\ Deltas(t)[i] \in Int
        BY <1>1, RowsAre
    <2> QED
        BY <1>1, <1>3, <2>1
<1>5. ASSUME NEW g
      PROVE  /\ \A i \in 1 .. n : Weights(g, V)[i] \in Int /\ Weights(g, t)[i] = Weights(g, V)[i]
             /\ Weights(g, t)[n + 1] = Weight(g, e) /\ Weight(g, e) \in Int
    <2>1. /\ \A i \in 1 .. n : Weights(g, V)[i] = Weight(g, V[i]) /\ Weights(g, V)[i] \in Int
          /\ \A i \in 1 .. n + 1 : Weights(g, t)[i] = Weight(g, t[i]) /\ Weights(g, t)[i] \in Int
        BY <1>1, WeightsAre
    <2> QED
        BY <1>1, <1>3, <2>1
<1>6. /\ Sigma(1 .. n, Deltas(V)) \in Int
      /\ Sigma(1 .. n + 1, Deltas(t)) = Sigma(1 .. n, Deltas(V)) + e.delta
    <2>1. Sigma(1 .. n, Deltas(V)) \in Int
        BY <1>3, <1>4, SigmaTakes
    <2>2. Sigma(1 .. n + 1, Deltas(t)) = Sigma(1 .. n, Deltas(V)) + Deltas(t)[n + 1]
        BY <1>2, <1>4, SigmaOfMore
    <2> QED
        BY <1>4, <2>1, <2>2
<1>7. ASSUME NEW g
      PROVE  /\ Sigma(1 .. n, Weights(g, V)) \in Int
             /\ Sigma(1 .. n + 1, Weights(g, t)) = Sigma(1 .. n, Weights(g, V)) + Weight(g, e)
    <2> DEFINE v == Weights(g, V)
               w == Weights(g, t)
    <2>1. /\ \A i \in 1 .. n : v[i] \in Int /\ w[i] = v[i]
          /\ w[n + 1] = Weight(g, e) /\ w[n + 1] \in Int
        BY <1>5
    <2> HIDE DEF v, w
    <2>2. Sigma(1 .. n, v) \in Int
        BY <1>3, <2>1, SigmaTakes
    <2>3. Sigma(1 .. n + 1, w) = Sigma(1 .. n, v) + w[n + 1]
        BY <1>2, <2>1, SigmaOfMore
    <2> QED
        BY <2>1, <2>2, <2>3 DEF v, w
<1> QED
    BY <1>2, <1>6, <1>7 DEF Total, TotalOf, t

\* So a row may follow a sound ledger that adds points, or does not take more than there are.
Follows(V, e) ==
    \/ e.delta > 0
    \/ /\ Total(V) + e.delta >= 0
       /\ \A g \in Nat : TotalOf(g, V) + Weight(g, e) >= 0
       /\ e.delta <= 0 /\ \A i \in DOMAIN V : V[i].at = e.at => V[i].delta <= 0

LEMMA SoundMore ==
    ASSUME NEW V, Written(V), Sound(V), NEW e, Readable(e), Balanced(e),
           \A i \in DOMAIN V : V[i].at <= e.at, Follows(V, e)
    PROVE  Sound(Append(V, e))
<1> DEFINE n == Len(V)
           t == Append(V, e)
<1>1. /\ Rows(V, n) /\ Rows(t, n + 1) /\ t[n + 1] = e /\ Len(V) = n
      /\ \A i \in 1 .. n : t[i] = V[i]
    BY RowsOfMore
<1>2. n \in Nat /\ DOMAIN V = 1 .. n /\ DOMAIN t = 1 .. n + 1
    BY <1>1 DEF Rows
<1>3. n + 1 \in 1 .. n + 1 /\ \A i \in 1 .. n : i \in 1 .. n + 1
    BY <1>2
<1>4. /\ \A i \in 1 .. n : Readable(V[i]) /\ Balanced(V[i])
      /\ NeverNegative(V, Deltas(V))
      /\ \A g \in Nat : NeverNegative(V, Weights(g, V))
    BY <1>1, <1>2 DEF Rows, Sound
<1>5. IsSeq(V) /\ e.at \in Nat /\ \A i \in DOMAIN V : V[i].at \in Nat /\ V[i].at <= e.at
    BY <1>2, <1>4 DEF Written, Readable
<1> HIDE DEF n, t
<1>6. \A i \in DOMAIN t : Balanced(t[i])
    <2>1. \A i \in 1 .. n + 1 : i \in 1 .. n \/ i = n + 1
        BY <1>2
    <2> QED
        BY <1>1, <1>2, <1>4, <2>1
<1>7. NeverNegative(t, Deltas(t))
    <2> DEFINE v == Deltas(V)
               w == Deltas(t)
    <2>1. /\ \A i \in 1 .. n : v[i] = V[i].delta /\ v[i] \in Int
          /\ \A i \in 1 .. n + 1 : w[i] = t[i].delta /\ w[i] \in Int
        BY <1>1, RowsAre
    <2>2. /\ \A i \in 1 .. n : v[i] \in Int /\ w[i] = v[i]
          /\ w[n + 1] = e.delta /\ w[n + 1] \in Int
        BY <1>1, <1>3, <2>1
    <2>3. Total(V) = Sigma(1 .. n, v)
        BY <1>2 DEF Total
    <2> HIDE DEF v, w
    <2>4. \/ w[n + 1] >= 0
          \/ Sigma(1 .. n, v) + w[n + 1] >= 0 /\ \A i \in 1 .. n : V[i].at = e.at => v[i] <= 0
        <3>1. CASE e.delta > 0
            BY <2>2, <3>1
        <3>2. CASE Total(V) + e.delta >= 0 /\ \A i \in DOMAIN V : V[i].at = e.at => V[i].delta <= 0
            BY <1>2, <2>1, <2>2, <2>3, <3>2
        <3> QED
            BY <3>1, <3>2 DEF Follows
    <2>5. MayAdd(V, e, n, v, w)
        BY <2>2, <2>4 DEF MayAdd
    <2> QED
        BY <1>1, <1>4, <1>5, <2>5, NeverNegativeMore DEF v, w, t
<1>8. ASSUME NEW g \in Nat PROVE NeverNegative(t, Weights(g, t))
    <2> DEFINE v == Weights(g, V)
               w == Weights(g, t)
    <2>1. /\ \A i \in 1 .. n : v[i] = Weight(g, V[i]) /\ v[i] \in Int
          /\ \A i \in 1 .. n + 1 : w[i] = Weight(g, t[i]) /\ w[i] \in Int
        BY <1>1, WeightsAre
    <2>2. /\ \A i \in 1 .. n : v[i] \in Int /\ w[i] = v[i]
          /\ w[n + 1] = Weight(g, e) /\ w[n + 1] \in Int
        BY <1>1, <1>3, <2>1
    <2>3. TotalOf(g, V) = Sigma(1 .. n, v)
        BY <1>2 DEF TotalOf
    <2>4. NeverNegative(V, v)
        BY <1>4
    <2> HIDE DEF v, w
    <2>5. \/ w[n + 1] >= 0
          \/ Sigma(1 .. n, v) + w[n + 1] >= 0 /\ \A i \in 1 .. n : V[i].at = e.at => v[i] <= 0
        <3>1. CASE e.delta > 0
            BY <2>2, <3>1, WeightSign
        <3>2. CASE /\ TotalOf(g, V) + Weight(g, e) >= 0
                   /\ \A i \in DOMAIN V : V[i].at = e.at => V[i].delta <= 0
            <4>1. \A i \in 1 .. n : V[i].at = e.at => v[i] <= 0
                BY <1>2, <1>4, <2>1, <3>2, WeightSign
            <4> QED
                BY <2>2, <2>3, <3>2, <4>1
        <3> QED
            BY <3>1, <3>2 DEF Follows
    <2>6. MayAdd(V, e, n, v, w)
        BY <2>2, <2>5 DEF MayAdd
    <2> QED
        BY <1>1, <1>5, <2>4, <2>6, NeverNegativeMore DEF v, w, t
<1> QED
    BY <1>6, <1>7, <1>8 DEF Sound, t

\* The totals of a sound ledger are not negative, and bound what its replay leaves.
LEMMA SoundReplay ==
    ASSUME NEW V, Written(V), Sound(V)
    PROVE  /\ Replay(V) \in Seq(Bucket)
           /\ Total(V) \in Int /\ Total(V) >= 0 /\ PointsIn(Replay(V)) <= Total(V)
           /\ \A g \in Nat : TotalOf(g, V) \in Int /\ TotalOf(g, V) >= 0
                             /\ Held({g}, Replay(V)) <= TotalOf(g, V)
<1> DEFINE n == Len(V)
<1>1. Rows(V, n) /\ n \in Nat /\ DOMAIN V = 1 .. n /\ IsFiniteSet(1 .. n)
    BY AllFinite DEF Written, Rows
<1>2. /\ \A i \in DOMAIN V : Balanced(V[i])
      /\ NeverNegative(V, Deltas(V)) /\ \A g \in Nat : NeverNegative(V, Weights(g, V))
    BY DEF Sound
<1> HIDE DEF n
<1>3. DOMAIN V \in SUBSET DOMAIN V /\ UpToTime(V, DOMAIN V)
    BY DEF UpToTime
<1>4. /\ \A i \in 1 .. n : Deltas(V)[i] \in Int
      /\ \A g : \A i \in 1 .. n : Weights(g, V)[i] \in Int
    BY <1>1, RowsAre, WeightsAre
<1>5. Bounds(Nat, V, n, Deltas(V)) /\ \A g : Bounds({g}, V, n, Weights(g, V))
    BY <1>1, <1>2, RowsBound
<1>6. Replay(V) \in Seq(Bucket) /\ Held(Nat, Replay(V)) <= Sigma(1 .. n, Deltas(V))
    BY <1>1, <1>2, <1>4, <1>5, ReplayBounded
<1>7. Total(V) \in Int /\ Total(V) >= 0
    BY <1>1, <1>2, <1>3, <1>4, SigmaTakes DEF Total, NeverNegative
<1>8. ASSUME NEW g \in Nat
      PROVE  TotalOf(g, V) \in Int /\ TotalOf(g, V) >= 0 /\ Held({g}, Replay(V)) <= TotalOf(g, V)
    <2> DEFINE v == Weights(g, V)
    <2>1. (\A i \in 1 .. n : v[i] \in Int) /\ NeverNegative(V, v) /\ Bounds({g}, V, n, v)
        BY <1>2, <1>4, <1>5
    <2>2. TotalOf(g, V) = Sigma(1 .. n, v)
        BY <1>1 DEF TotalOf
    <2> HIDE DEF v
    <2>3. Sigma(1 .. n, v) \in Int /\ Sigma(1 .. n, v) >= 0
        BY <1>1, <1>3, <2>1, SigmaTakes DEF NeverNegative
    <2>4. Held({g}, Replay(V)) <= Sigma(1 .. n, v)
        BY <1>1, <2>1, ReplayBounded
    <2> QED
        BY <2>2, <2>3, <2>4
<1> QED
    BY <1>1, <1>6, <1>7, <1>8, HeldIs DEF Total
\* A bucket that has lapsed holds no more than its grant has left.
LEMMA FoundAreLeft ==
    ASSUME NEW rs, Written(rs), Sound(rs), NEW now
    PROVE  \A k \in DOMAIN ExpiredBuckets(rs, now) :
               LET b == ExpiredBuckets(rs, now)[k]
               IN  b.id \in Nat /\ b.left <= TotalOf(b.id, rs)
<1> DEFINE buckets == Replay(rs)
           S == Lapsed(buckets, now)
           Choice(T) == LastConsumed(buckets, T)
           last == [T \in SUBSET S |-> Choice(T)]
<1>1. PICK iter : ExpiredBuckets(rs, now) = iter[S] /\ FindsInTurn(iter, buckets, now)
    BY ExpiredTurns DEF Written
<1>2. buckets \in Seq(Bucket) /\ \A g \in Nat : TotalOf(g, rs) \in Int /\ Held({g}, buckets) <= TotalOf(g, rs)
    BY SoundReplay
<1> HIDE DEF buckets
<1>3. IsFiniteSet(S) /\ S \subseteq DOMAIN buckets
    BY <1>2, BucketsKeyed, FS_Subset DEF Lapsed
<1>4. /\ iter[{}] = <<>>
      /\ \A T \in SUBSET S :
            /\ iter[T] \in Seq(Bucket)
            /\ T # {} => /\ Choice(T) \in T
                         /\ iter[T] = NoteBucket(buckets, iter[T \ {Choice(T)}], Choice(T))
    BY <1>1 DEF FindsInTurn
<1>5. ASSUME NEW b \in DOMAIN buckets
      PROVE  buckets[b].id \in Nat /\ buckets[b].left <= TotalOf(buckets[b].id, rs)
    <2> DEFINE g == buckets[b].id
    <2>1. g \in Nat /\ buckets[b].left \in Nat
        BY <1>2, HeldsAre
    <2> HIDE DEF g
    <2>2. Held({g}, buckets) \in Nat /\ (buckets[b].id \in {g} => buckets[b].left <= Held({g}, buckets))
        BY <1>2, HeldIs
    <2>3. buckets[b].left <= Held({g}, buckets)
        BY <2>2 DEF g
    <2>4. buckets[b].left <= TotalOf(g, rs)
        BY <1>2, <2>1, <2>2, <2>3
    <2> QED
        BY <2>1, <2>4 DEF g
<1> HIDE DEF S, Choice
<1>6. Chooses(last, S)
    BY <1>4 DEF Chooses
<1> DEFINE family == {T \in SUBSET S : \A k \in DOMAIN iter[T] : \E b \in S : iter[T][k] = buckets[b]}
<1>7. {} \in family
    BY <1>4
<1>8. HasWithRest(family, last, S)
    <2>1. ASSUME NEW T \in SUBSET S, T # {}, T \ {last[T]} \in family PROVE T \in family
        <3> DEFINE i == Choice(T)
                   found == iter[T \ {i}]
                   new == iter[T]
        <3>1. last[T] = i /\ i \in S /\ T \ {i} \in SUBSET S
            BY <1>4, <2>1
        <3>2. new = Append(found, buckets[i]) /\ found \in Seq(Bucket)
            BY <1>4, <2>1, <3>1 DEF NoteBucket
        <3>3. \A k \in DOMAIN found : \E b \in S : found[k] = buckets[b]
            BY <2>1, <3>1
        <3> HIDE DEF i, found, new
        <3>4. IsSeq(found)
            BY <3>2, InSeqIsSeq
        <3>5. \A k \in DOMAIN new : (k \in DOMAIN found /\ new[k] = found[k]) \/ new[k] = buckets[i]
            BY <3>2, <3>4, ElementsOfMore
        <3>6. \A k \in DOMAIN new : \E b \in S : new[k] = buckets[b]
            BY <3>1, <3>3, <3>5
        <3> QED
            BY <3>6 DEF new
    <2> QED
        BY <2>1 DEF HasWithRest
<1> HIDE DEF family, last
<1>9. SUBSET S \subseteq family
    BY <1>3, <1>6, <1>7, <1>8, TakingOff
<1>10. S \in family
    BY <1>9
<1>11. \A k \in DOMAIN iter[S] : \E b \in S : iter[S][k] = buckets[b]
    BY <1>10 DEF family
<1>12. \A k \in DOMAIN iter[S] : iter[S][k].id \in Nat /\ iter[S][k].left <= TotalOf(iter[S][k].id, rs)
    BY <1>3, <1>5, <1>11
<1> QED
    BY <1>1, <1>12

\* What is given back comes to no more than what is to be given back.
LEMMA ReturnGives ==
    ASSUME NEW start \in Returns, start.back = <<>>, NEW alloc \in Seq(Allocation)
    PROVE  GivenBack(ReturnAll(start, alloc).back) <= start.rest
<1> DEFINE D == 1 .. Len(alloc)
           last == [T \in SUBSET D |-> Max(T)]
<1>1. PICK iter : ReturnAll(start, alloc) = iter[D] /\ ReturnsInTurn(iter, start, alloc)
    BY ReturnTurns
<1>2. Len(alloc) \in Nat /\ IsFiniteSet(D) /\ DOMAIN alloc = D
    BY AllFinite
<1>3. \A T \in SUBSET D : T # {} => Max(T) \in T
    BY <1>2, MaxOf
<1>4. /\ iter[{}] = start
      /\ \A T \in SUBSET D : /\ iter[T] \in Returns
                             /\ T # {} => iter[T] = GiveBackOf(iter[T \ {Max(T)}], alloc[Max(T)])
    BY <1>1 DEF ReturnsInTurn
<1>5. start.rest \in Nat
    BY DEF Returns
<1> HIDE DEF D
<1>6. Chooses(last, D)
    BY <1>3 DEF Chooses
<1> DEFINE family == {T \in SUBSET D : Share(Nat, iter[T].back) + iter[T].rest = start.rest}
<1>7. {} \in family
    BY <1>4, <1>5, ShareOfNone
<1>8. HasWithRest(family, last, D)
    <2>1. ASSUME NEW T \in SUBSET D, T # {}, T \ {last[T]} \in family PROVE T \in family
        <3> DEFINE i == Max(T)
                   state == iter[T \ {i}]
                   new == iter[T]
                   a == alloc[i]
                   back == Smaller(state.rest, a.points)
                   e == [a EXCEPT !.points = back]
        <3>1. last[T] = i /\ i \in D /\ T \ {i} \in SUBSET D
            BY <1>3, <2>1
        <3>2. new = GiveBackOf(state, a) /\ state \in Returns
            BY <1>4, <2>1, <3>1
        <3>3. Share(Nat, state.back) + state.rest = start.rest
            BY <2>1, <3>1
        <3>4. a \in Allocation
            BY <1>2, <3>1
        <3> HIDE DEF i, state, a, new
        <3>5. state.rest \in Nat /\ state.back \in Seq(Allocation) /\ a.points \in Nat
            BY <3>2, <3>4 DEF Returns, Allocation
        <3>6. back \in Nat
            BY <3>5, SmallerIs
        <3>7. new = IF back = 0 THEN state
                    ELSE [rest |-> state.rest - back, back |-> Append(state.back, e)]
            BY <3>2 DEF GiveBackOf
        <3> HIDE DEF back
        <3>8. e \in Allocation /\ e.points = back /\ e.id \in Nat
            BY <3>4, <3>6 DEF Allocation
        <3> HIDE DEF e
        <3>9. Share(Nat, Append(state.back, e)) = Share(Nat, state.back) + back /\ Share(Nat, state.back) \in Nat
            <4>1. Share(Nat, Append(state.back, e)) = Share(Nat, state.back) + IF e.id \in Nat THEN e.points ELSE 0
                BY <3>5, <3>8, ShareOfMore
            <4>2. Share(Nat, state.back) \in Nat
                BY <3>5, ShareIs
            <4> QED
                BY <3>8, <4>1, <4>2
        <3>10. Share(Nat, new.back) + new.rest = start.rest
            <4>1. CASE back = 0
                BY <3>3, <3>7, <4>1
            <4>2. CASE back # 0
                <5>1. new.back = Append(state.back, e) /\ new.rest = state.rest - back
                    BY <3>7, <4>2
                <5> QED
                    BY <3>3, <3>5, <3>6, <3>9, <5>1
            <4> QED
                BY <4>1, <4>2
        <3> QED
            BY <3>10 DEF new
    <2> QED
        BY <2>1 DEF HasWithRest
<1> HIDE DEF family, last
<1>9. SUBSET D \subseteq family
    BY <1>2, <1>6, <1>7, <1>8, TakingOff
<1>10. D \in family
    BY <1>9
<1>11. Share(Nat, iter[D].back) + iter[D].rest = start.rest /\ iter[D] \in Returns
    BY <1>4, <1>10 DEF family
<1>12. iter[D].rest \in Nat /\ iter[D].back \in Seq(Allocation)
    BY <1>11 DEF Returns
<1>13. GivenBack(iter[D].back) = Share(Nat, iter[D].back) /\ Share(Nat, iter[D].back) \in Nat
    BY <1>12, ShareIs
<1> QED
    BY <1>1, <1>5, <1>11, <1>12, <1>13

\* No allocations give nothing back.
LEMMA NothingGivenBack == GivenBack(<<>>) = 0
BY ShareIs, ShareOfNone

\* A refund gives no more back than it adds.
LEMMA RefundGives ==
    ASSUME NEW rs, NEW n, Rows(rs, n), NEW ref, NEW points \in Nat
    PROVE  GivenBack(RefundAllocations(rs, ref, points)) <= points
<1> DEFINE charges == {i \in DOMAIN rs : rs[i].kind = "consume" /\ rs[i].ref = ref}
           latest == LastRow(rs, charges)
           start == [rest |-> points, back |-> <<>>]
<1>1. RefundAllocations(rs, ref, points) =
          IF charges = {} THEN <<>> ELSE ReturnAll(start, rs[latest].alloc).back
    BY DEF RefundAllocations, ReturnAll, GiveBackOf, LastRow
<1>2. CASE charges = {}
    BY <1>1, <1>2, NothingGivenBack
<1>3. CASE charges # {}
    <2>1. charges \in SUBSET DOMAIN rs /\ IsFiniteSet(DOMAIN rs) /\ Stamped(rs)
        BY RowsAre
    <2>2. start \in Returns /\ start.back = <<>> /\ start.rest = points
        <3>1. <<>> \in Seq(Allocation)
            OBVIOUS
        <3> QED
            BY <3>1 DEF Returns
    <2> HIDE DEF charges, start
    <2>3. latest \in DOMAIN rs
        BY <1>3, <2>1, LastRowIs
    <2> HIDE DEF latest
    <2>4. rs[latest].alloc \in Seq(Allocation)
        BY <2>3 DEF Rows, Readable
    <2>5. GivenBack(ReturnAll(start, rs[latest].alloc).back) <= start.rest
        BY <2>2, <2>4, ReturnGives
    <2> QED
        BY <1>1, <1>3, <2>2, <2>5
<1> QED
    BY <1>2, <1>3

-----------------------------------------------------------------------------
(* What the handlers write may follow what they have read. *)

\* A row that adds points, with no more allocations than it adds.
LEMMA GainFollows ==
    ASSUME NEW V, NEW e, Readable(e), e.delta > 0,
           e.kind # "refund" => e.alloc = <<>>,
           e.kind = "refund" => GivenBack(e.alloc) <= e.delta
    PROVE  Balanced(e) /\ Follows(V, e)
<1>1. e.delta \in Int
    BY DEF Readable
<1> QED
    BY <1>1 DEF Balanced, Follows

\* A row that takes points and allocates none has no weight but for the grant it expires.
LEMMA LossWeighs ==
    ASSUME NEW e, Readable(e), e.delta <= 0, e.alloc = <<>>
    PROVE  /\ Balanced(e) /\ e.delta \in Int
           /\ \A g : Weight(g, e) = IF e.kind = "subscription_expire" /\ e.ref = g THEN e.delta ELSE 0
<1>1. e.delta \in Int /\ (e.kind = "refund" => e.delta > 0)
    BY DEF Readable
<1>2. Balanced(e)
    <2>1. GivenBack(e.alloc) = 0
        BY NothingGivenBack
    <2> HIDE DEF GivenBack
    <2> QED
        BY <1>1, <2>1 DEF Balanced
<1>3. ASSUME NEW g
      PROVE  Weight(g, e) = IF e.kind = "subscription_expire" /\ e.ref = g THEN e.delta ELSE 0
    <2>1. AllocatedTo(g, e) = 0 /\ Given(g, e) = 0
        <3>1. AllocatedTo(g, e) = 0
            BY WeightIs
        <3>2. ~(e.delta > 0)
            BY <1>1
        <3>3. Given(g, e) = 0
            BY <3>2 DEF Given
        <3> QED
            BY <3>1, <3>3
    <2> DEFINE x == ExpiredFrom(g, e)
    <2>2. x = IF e.kind = "subscription_expire" /\ e.ref = g THEN -e.delta ELSE 0
        BY DEF ExpiredFrom
    <2>3. Weight(g, e) = 0 - x - 0
        BY <2>1 DEF Weight
    <2> HIDE DEF x
    <2>4. CASE e.kind = "subscription_expire" /\ e.ref = g
        BY <1>1, <2>2, <2>3, <2>4
    <2>5. CASE ~(e.kind = "subscription_expire" /\ e.ref = g)
        <3>1. x = 0
            BY <2>2, <2>5
        <3>2. Weight(g, e) = 0
            BY <2>3, <3>1
        <3> QED
            BY <2>5, <3>2
    <2> QED
        BY <2>4, <2>5
<1> QED
    BY <1>1, <1>2, <1>3

\* Such a row follows when the balance covers it, and the grant it expires has as much left.
LEMMA LossFollows ==
    ASSUME NEW V, Written(V), Sound(V), NEW e, Readable(e), e.delta <= 0, e.alloc = <<>>,
           Total(V) + e.delta >= 0,
           e.kind = "subscription_expire" => TotalOf(e.ref, V) + e.delta >= 0,
           \A i \in DOMAIN V : V[i].at = e.at => V[i].delta <= 0
    PROVE  Balanced(e) /\ Follows(V, e)
<1>1. /\ Balanced(e) /\ e.delta \in Int
      /\ \A g : Weight(g, e) = IF e.kind = "subscription_expire" /\ e.ref = g THEN e.delta ELSE 0
    BY LossWeighs
<1>2. ASSUME NEW g \in Nat PROVE TotalOf(g, V) + Weight(g, e) >= 0
    <2>1. TotalOf(g, V) \in Int /\ TotalOf(g, V) >= 0
        BY SoundReplay
    <2>2. CASE e.kind = "subscription_expire" /\ e.ref = g
        BY <1>1, <2>2
    <2>3. CASE ~(e.kind = "subscription_expire" /\ e.ref = g)
        <3>1. Weight(g, e) = 0
            BY <1>1, <2>3
        <3> QED
            BY <2>1, <3>1
    <2> QED
        BY <2>2, <2>3
<1> QED
    BY <1>1, <1>2 DEF Follows

(***************************************************************************)
(* A charge follows when the buckets cover it: they hold no more than the  *)
(* balance, and those of a grant no more than is left of the grant.        *)
(***************************************************************************)
LEMMA ChargeFollows ==
    ASSUME NEW V, Written(V), Sound(V), NEW points \in Nat, Preview(V, points).rest = 0,
           NEW e, Readable(e), e.kind = "consume", e.delta = -points,
           e.alloc = Preview(V, points).taken,
           \A i \in DOMAIN V : V[i].at = e.at => V[i].delta <= 0
    PROVE  Balanced(e) /\ Follows(V, e)
<1> DEFINE buckets == Replay(V)
           drawn == Allocate(buckets, points, NoId, NoSource)
<1>1. Preview(V, points) = drawn
    BY DEF Preview
<1>2. /\ buckets \in Seq(Bucket)
      /\ Total(V) \in Int /\ PointsIn(buckets) <= Total(V)
      /\ \A g \in Nat : TotalOf(g, V) \in Int /\ Held({g}, buckets) <= TotalOf(g, V)
    BY SoundReplay
<1> HIDE DEF buckets
<1>3. /\ drawn.buckets \in Seq(Bucket) /\ drawn.taken \in Seq(Allocation)
      /\ PointsIn(drawn.buckets) = PointsIn(buckets) - (points - drawn.rest)
    BY <1>2, AllocateDraws DEF Drawn
<1>4. GivenBack(drawn.taken) = points - drawn.rest
    BY <1>2, AllocateGives
<1>5. \A G : Held(G, drawn.buckets) + Share(G, drawn.taken) = Held(G, buckets)
    BY <1>2, AllocateHolds
<1>6. drawn.rest = 0 /\ e.alloc = drawn.taken
    BY <1>1
<1> HIDE DEF drawn
<1>7. \A G : Held(G, drawn.buckets) \in Nat /\ Held(G, buckets) \in Nat /\ Share(G, e.alloc) \in Nat
    BY <1>2, <1>3, <1>6, HeldIs, ShareIs
<1>8. PointsIn(drawn.buckets) \in Nat /\ PointsIn(buckets) \in Nat
    <2>1. Held(Nat, drawn.buckets) = PointsIn(drawn.buckets) /\ Held(Nat, buckets) = PointsIn(buckets)
        BY <1>2, <1>3, HeldIs
    <2> QED
        BY <1>7, <2>1
<1>9. GivenBack(e.alloc) = points
    BY <1>4, <1>6
<1>10. -e.delta = points /\ e.delta <= 0 /\ (e.delta > 0 <=> FALSE)
    OBVIOUS
<1>11. Balanced(e)
    <2> HIDE DEF GivenBack
    <2> QED
        BY <1>9, <1>10 DEF Balanced
<1>12. Total(V) + e.delta >= 0
    <2> HIDE DEF PointsIn, Total
    <2>1. PointsIn(drawn.buckets) = PointsIn(buckets) - points
        BY <1>3, <1>6
    <2> QED
        BY <1>2, <1>8, <2>1
<1>13. ASSUME NEW g \in Nat PROVE TotalOf(g, V) + Weight(g, e) >= 0
    <2> DEFINE s == Share({g}, e.alloc)
               w == Weight(g, e)
               b == Held({g}, buckets)
               t == TotalOf(g, V)
    <2>1. AllocatedTo(g, e) = s /\ Given(g, e) = 0 /\ ExpiredFrom(g, e) = 0
        BY <1>10, WeightIs DEF Given, ExpiredFrom
    <2>2. w = 0 - 0 - s
        BY <2>1 DEF Weight
    <2>3. Held({g}, drawn.buckets) + s = b /\ b <= t /\ t \in Int /\ b \in Nat /\ s \in Nat
        BY <1>2, <1>5, <1>6, <1>7
    <2>4. Held({g}, drawn.buckets) \in Nat
        BY <1>7
    <2> HIDE DEF s, w, b, t
    <2>5. t + w >= 0
        BY <2>2, <2>3, <2>4
    <2> QED
        BY <2>5 DEF w, t
<1> QED
    BY <1>10, <1>11, <1>12, <1>13 DEF Follows

-----------------------------------------------------------------------------
(***************************************************************************)
(* The inductive invariant behind the properties of handlers that run one  *)
(* after the other.  Read in the order of the times, no ledger ever        *)
(* overdraws the balance or a grant, also with the rows that a transaction *)
(* is about to commit; its own rows are later than those of the ledger,    *)
(* and take points until the last; and what it has found lapsed is left.   *)
(***************************************************************************)
Serially ==
    \A g, h \in Handlers : g # h /\ step[g] # "idle" /\ step[h] # "idle" => User(g) # User(h)

Orderly(L, m) == Sound(L) /\ NoRowBelowZero(L) /\ \A i \in DOMAIN L : L[i].at <= m

LaterThan(L, b) == \A i \in DOMAIN L : L[i].at < b

Proper(s, L, R, D) ==
    /\ Sound(L \o R) /\ NoRowBelowZero(R)
    /\ s # "written" => \A i \in DOMAIN R : R[i].delta <= 0
    /\ s \in {"scanned", "expiring"} =>
          \A k \in DOMAIN D : D[k].left <= TotalOf(D[k].id, L \o R)

SerialInv ==
    /\ \A u \in Users : Orderly(ledger[u], clock)
    /\ \A h \in Handlers : step[h] # "idle" => LaterThan(ledger[User(h)], began[h])
    /\ \A h \in Handlers :
          Looked(step[h]) => Proper(step[h], ledger[User(h)], rows[h], due[h])

\* Ledgers without rows are sound.
LEMMA NoRowsSound ==
    /\ Written(<<>>) /\ Sound(<<>>) /\ NoRowBelowZero(<<>>) /\ DOMAIN <<>> = {}
<1> DEFINE none == <<>>
<1>1. Written(none) /\ DOMAIN none = {}
    BY NoRows
<1> HIDE DEF none
<1>2. \A v : Sigma({}, v) >= 0
    BY FS_EmptySet, SigmaTakes
<1>3. \A v : NeverNegative(none, v)
    <2> SUFFICES ASSUME NEW v, NEW T \in SUBSET DOMAIN none PROVE Sigma(T, v) >= 0
        BY DEF NeverNegative
    <2>1. T = {}
        BY <1>1
    <2> QED
        BY <1>2, <2>1
<1>4. Sound(none) /\ NoRowBelowZero(none)
    BY <1>1, <1>3 DEF Sound, NoRowBelowZero
<1> QED
    BY <1>1, <1>4 DEF none

\* It holds of ledgers without rows.
LEMMA InitSerial == Init => SerialInv
<1> SUFFICES ASSUME Init PROVE SerialInv
    OBVIOUS
<1>1. \A u \in Users : ledger[u] = <<>>
    BY DEF Init
<1>2. \A u \in Users : Orderly(ledger[u], clock)
    BY <1>1, NoRowsSound DEF Orderly
<1>3. \A h \in Handlers : step[h] = "idle"
    BY DEF Init
<1> QED
    BY <1>2, <1>3 DEF SerialInv, Looked

\* The points of a chain of rows are what it ends with.
LEMMA TotalIsEnd ==
    ASSUME NEW L, NEW R, Written(L), Written(R), IsChain(0, L), IsChain(EndOf(0, L), R)
    PROVE  /\ Written(L \o R) /\ Total(L \o R) = EndOf(EndOf(0, L), R)
           /\ Total(L) = EndOf(0, L)
<1> DEFINE V == L \o R
<1>1. IsSeq(L) /\ IsSeq(R) /\ Rows(L, Len(L))
    BY DEF Written
<1>2. IsChain(0, V) /\ EndOf(0, V) = EndOf(EndOf(0, L), R)
    BY <1>1, ChainConcat
<1>3. Written(V)
    BY WrittenBoth
<1> HIDE DEF V
<1>4. IsSeq(V) /\ Rows(V, Len(V))
    BY <1>3 DEF Written
<1>5. EndOf(0, V) = Sigma(1 .. Len(V), Deltas(V)) /\ EndOf(0, L) = Sigma(1 .. Len(L), Deltas(L))
    BY <1>1, <1>2, <1>4, ChainEnds
<1>6. DOMAIN V = 1 .. Len(V) /\ DOMAIN L = 1 .. Len(L)
    BY <1>1, <1>4 DEF Rows
<1>7. Total(V) = EndOf(0, V) /\ Total(L) = EndOf(0, L)
    BY <1>5, <1>6 DEF Total
<1> QED
    BY <1>2, <1>3, <1>7 DEF V

\* What a handler that has looked for lapsed points sees in the ledger.
LEMMA SeenRows ==
    ASSUME AccountInv, RecordInv, GrantInv, SerialInv, NEW h \in Handlers, Looked(step[h])
    PROVE  LET L == ledger[User(h)]
               R == rows[h]
               V == L \o R
           IN  /\ Visible(h) = V /\ User(h) \in Users /\ began[h] \in Nat
               /\ Written(L) /\ Written(R) /\ Written(V) /\ Sound(V)
               /\ Total(V) = EndOf(balance[User(h)], R)
               /\ \A i \in DOMAIN V : V[i].at <= began[h]
               /\ step[h] # "written" => \A i \in DOMAIN V : V[i].at = began[h] => V[i].delta <= 0
<1> DEFINE L == ledger[User(h)]
           R == rows[h]
           V == L \o R
           b == began[h]
<1>0. step[h] # "idle"
    BY DEF Looked
<1>1. /\ User(h) \in Users /\ b \in Nat /\ Written(L) /\ Written(R)
      /\ IsDraft(L, R, b, clock)
    BY <1>0, TimesAre, OpenTransaction DEF Drafted
<1>2. Proper(step[h], L, R, due[h]) /\ LaterThan(L, b)
    BY <1>0 DEF SerialInv
<1>3. IsChain(0, L) /\ balance[User(h)] = EndOf(0, L) /\ IsChain(balance[User(h)], R)
    BY <1>1 DEF AccountInv, LedgerExplainsBalance, CarriesOn
<1> HIDE DEF L, R, b
<1>4. Written(V) /\ Total(V) = EndOf(balance[User(h)], R)
    BY <1>1, <1>3, TotalIsEnd
<1>5. \A k \in DOMAIN V :
          \/ k \in DOMAIN L /\ V[k] = L[k]
          \/ k - Len(L) \in DOMAIN R /\ V[k] = R[k - Len(L)]
    BY <1>1, ElementsOfBoth DEF Written
<1>6. /\ \A i \in DOMAIN L : L[i].at \in Nat /\ L[i].at < b
      /\ \A i \in DOMAIN R : R[i].at = b /\ (step[h] # "written" => R[i].delta <= 0)
    BY <1>1, <1>2, ReadableRow DEF IsDraft, LaterThan, Proper
<1> HIDE DEF V
<1>7. \A i \in DOMAIN V : V[i].at <= b /\ (step[h] # "written" /\ V[i].at = b => V[i].delta <= 0)
    BY <1>1, <1>5, <1>6
<1>8. Sound(V)
    BY <1>2 DEF Proper, V
<1>9. Visible(h) = V
    BY DEF Visible, V, L, R
<1> QED
    BY <1>1, <1>4, <1>7, <1>8, <1>9 DEF V, L, R, b

\* A row that may follow what a handler has seen leaves the account solvent.
LEMMA RowFits ==
    ASSUME AccountInv, AccountInv', RecordInv, GrantInv, SerialInv, NEW h \in Handlers,
           Looked(step[h]), UNCHANGED <<balance, ledger, task>>,
           NEW e, rows'[h] = Append(rows[h], e), Readable(e), e.at = began[h],
           Balanced(e), Follows(ledger[User(h)] \o rows[h], e)
    PROVE  LET V == ledger[User(h)] \o rows[h]
           IN  /\ ledger[User(h)] \o rows'[h] = Append(V, e)
               /\ Sound(Append(V, e)) /\ NoRowBelowZero(rows'[h])
<1> DEFINE L == ledger[User(h)]
           R == rows[h]
           V == L \o R
<1>1. /\ Written(L) /\ Written(R) /\ Written(V) /\ Sound(V) /\ User(h) \in Users
      /\ \A i \in DOMAIN V : V[i].at <= began[h]
    BY SeenRows
<1>2. Sound(Append(V, e)) /\ Written(Append(V, e)) /\ Written(Append(R, e))
    BY <1>1, SoundMore, WrittenMore
<1>3. L \o Append(R, e) = Append(V, e)
    <2>1. IsSeq(L) /\ IsSeq(R)
        BY <1>1 DEF Written
    <2> HIDE DEF L, R
    <2> QED
        BY <2>1, AppendToBoth
<1>4. Total(Append(V, e)) >= 0
    <2> DEFINE W == Append(V, e)
    <2>1. Written(W) /\ Sound(W)
        BY <1>2
    <2> HIDE DEF W
    <2>2. Total(W) >= 0
        BY <2>1, SoundReplay
    <2> QED
        BY <2>2 DEF W
<1>5. /\ IsChain(0, L) /\ balance[User(h)] = EndOf(0, L)
      /\ IsChain(balance[User(h)], Append(R, e))
    <2>1. User(h)' = User(h)
        BY DEF User
    <2>2. IsChain(balance[User(h)], Append(R, e))
        BY <2>1 DEF AccountInv, CarriesOn
    <2> QED
        BY <1>1, <2>2 DEF AccountInv, LedgerExplainsBalance
<1>6. NoRowBelowZero(R)
    BY DEF SerialInv, Proper
<1> HIDE DEF L, R, V
<1>7. EndOf(balance[User(h)], Append(R, e)) >= 0
    BY <1>1, <1>2, <1>3, <1>4, <1>5, TotalIsEnd
<1>8. e.after >= 0
    <2> DEFINE S == Append(R, e)
    <2>1. S # <<>> /\ Len(S) = Len(R) + 1 /\ S[Len(R) + 1] = e
        BY <1>1, AppendIsSeq DEF Written
    <2> HIDE DEF S
    <2>2. EndOf(balance[User(h)], S) = e.after
        BY <2>1 DEF EndOf
    <2> QED
        BY <1>7, <2>2 DEF S
<1>9. NoRowBelowZero(Append(R, e))
    BY <1>1, <1>6, <1>8, NoRowBelowZeroAppend DEF Written
<1> QED
    BY <1>2, <1>3, <1>9 DEF L, R, V

(***************************************************************************)
(* A step of a transaction that leaves the clock, what is committed and    *)
(* the other handlers alone keeps the invariant, if what the handler       *)
(* itself then has is proper.                                              *)
(***************************************************************************)
LEMMA OwnStepKeepsSerial ==
    ASSUME AccountInv, SerialInv, NEW h \in Handlers, step[h] # "idle",
           NEW s, s # "idle", step' = [step EXCEPT ![h] = s],
           UNCHANGED <<clock, ledger, task, began>>,
           \A g \in Handlers \ {h} : rows'[g] = rows[g] /\ due'[g] = due[g],
           Looked(s) => Proper(s, ledger[User(h)], rows'[h], due'[h])
    PROVE  SerialInv'
<1>1. \A g \in Handlers : User(g)' = User(g)
    BY DEF User
<1>2. step'[h] = s /\ \A g \in Handlers \ {h} : step'[g] = step[g]
    BY DEF AccountInv, Typed
<1>3. \A u \in Users : Orderly(ledger'[u], clock')
    BY DEF SerialInv
<1>4. ASSUME NEW g \in Handlers, step'[g] # "idle" PROVE LaterThan(ledger'[User(g)'], began'[g])
    <2>1. step[g] # "idle"
        BY <1>2, <1>4
    <2> QED
        BY <1>1, <2>1 DEF SerialInv
<1>5. ASSUME NEW g \in Handlers, Looked(step'[g])
      PROVE  Proper(step'[g], ledger'[User(g)'], rows'[g], due'[g])
    <2>1. CASE g = h
        BY <1>1, <1>2, <1>5, <2>1
    <2>2. CASE g # h
        BY <1>1, <1>2, <1>5, <2>2 DEF SerialInv
    <2> QED
        BY <2>1, <2>2
<1> QED
    BY <1>3, <1>4, <1>5 DEF SerialInv

\* The passing of time keeps the invariant.
LEMMA TickKeepsSerial ==
    ASSUME AccountInv, RecordInv, GrantInv, SerialInv, Tick
    PROVE  SerialInv'
<1>1. clock \in Nat /\ clock' = clock + 1 /\ UNCHANGED <<ledger, step, task, began, due, rows>>
    BY DEF RecordInv, Tick
<1>2. ASSUME NEW u \in Users PROVE Orderly(ledger'[u], clock')
    <2>1. Orderly(ledger[u], clock) /\ Written(ledger[u])
        BY DEF SerialInv, GrantInv, GoodLedger
    <2>2. \A i \in DOMAIN ledger[u] : ledger[u][i].at \in Nat /\ ledger[u][i].at <= clock
        BY <2>1, ReadableRow DEF Orderly
    <2>3. \A i \in DOMAIN ledger[u] : ledger[u][i].at <= clock + 1
        BY <1>1, <2>2
    <2> QED
        BY <1>1, <2>1, <2>3 DEF Orderly
<1>3. \A h \in Handlers : User(h)' = User(h)
    BY <1>1 DEF User
<1>4. \A h \in Handlers : step'[h] # "idle" => LaterThan(ledger'[User(h)'], began'[h])
    BY <1>1, <1>3 DEF SerialInv
<1>5. \A h \in Handlers : Looked(step'[h]) => Proper(step'[h], ledger'[User(h)'], rows'[h], due'[h])
    BY <1>1, <1>3 DEF SerialInv
<1> QED
    BY <1>2, <1>4, <1>5 DEF SerialInv

\* A request that begins is later than all that is committed.
LEMMA BeginKeepsSerial ==
    ASSUME AccountInv, RecordInv, GrantInv, SerialInv, NEW h \in Handlers, Begin(h)
    PROVE  SerialInv'
<1>1. PICK u \in Users : \E t \in Requests(u) : task' = [task EXCEPT ![h] = t]
    BY DEF Begin
<1>2. PICK t \in Requests(u) : task' = [task EXCEPT ![h] = t]
    BY <1>1
<1>3. /\ clock \in Nat /\ clock' = clock + 1 /\ UNCHANGED <<ledger, due, rows>>
      /\ step[h] = "idle"
      /\ began' = [began EXCEPT ![h] = clock + 1] /\ step' = [step EXCEPT ![h] = "begun"]
    BY DEF RecordInv, Begin, Goto
<1>4. /\ task'[h] = t /\ began'[h] = clock + 1 /\ step'[h] = "begun"
      /\ \A g \in Handlers \ {h} : task'[g] = task[g] /\ began'[g] = began[g] /\ step'[g] = step[g]
    BY <1>2, <1>3 DEF AccountInv, Typed, RecordInv
<1>5. \A g \in Handlers \ {h} : User(g)' = User(g)
    BY <1>4 DEF User
<1>6. ASSUME NEW v \in Users
      PROVE  /\ Orderly(ledger[v], clock)
             /\ \A i \in DOMAIN ledger[v] : ledger[v][i].at < clock + 1 /\ ledger[v][i].at <= clock + 1
    <2>1. Orderly(ledger[v], clock) /\ Written(ledger[v])
        BY DEF SerialInv, GrantInv, GoodLedger
    <2>2. \A i \in DOMAIN ledger[v] : ledger[v][i].at \in Nat /\ ledger[v][i].at <= clock
        BY <2>1, ReadableRow DEF Orderly
    <2> QED
        BY <1>3, <2>1, <2>2
<1>7. \A v \in Users : Orderly(ledger'[v], clock')
    BY <1>3, <1>6 DEF Orderly
<1>8. User(h)' = u
    <2>1. t.user = u
        BY RequestRecalls, <1>3 DEF GrantInv
    <2> QED
        BY <1>4, <2>1 DEF User
<1>9. ASSUME NEW g \in Handlers, step'[g] # "idle" PROVE LaterThan(ledger'[User(g)'], began'[g])
    <2>1. CASE g = h
        BY <1>3, <1>4, <1>6, <1>8, <2>1 DEF LaterThan
    <2>2. CASE g # h
        BY <1>3, <1>4, <1>5, <1>9, <2>2 DEF SerialInv
    <2> QED
        BY <2>1, <2>2
<1>10. ASSUME NEW g \in Handlers, Looked(step'[g])
       PROVE  Proper(step'[g], ledger'[User(g)'], rows'[g], due'[g])
    <2>1. g # h
        BY <1>4, <1>10 DEF Looked
    <2> QED
        BY <1>3, <1>4, <1>5, <1>10, <2>1 DEF SerialInv
<1> QED
    BY <1>7, <1>9, <1>10 DEF SerialInv

\* What a transaction finds lapsed is left of its grant.
LEMMA ScanExpiredKeepsSerial ==
    ASSUME AccountInv, RecordInv, GrantInv, SerialInv, NEW h \in Handlers, ScanExpired(h)
    PROVE  SerialInv'
<1> DEFINE L == ledger[User(h)]
           found == ExpiredBuckets(L, clock)
<1>1. /\ step[h] = "ensured" /\ step' = [step EXCEPT ![h] = "scanned"]
      /\ due' = [due EXCEPT ![h] = found]
      /\ UNCHANGED <<clock, ledger, task, began, rows>>
    BY DEF ScanExpired, Goto
<1>2. Written(L) /\ User(h) \in Users
    BY <1>1, OpenTransaction, TimesAre
<1>3. Sound(L)
    BY <1>2 DEF SerialInv, Orderly
<1>4. rows[h] = <<>> /\ due'[h] = found /\ \A g \in Handlers \ {h} : due'[g] = due[g]
    BY <1>1 DEF AccountInv, NothingWrittenYet, RecordInv
<1> HIDE DEF L
<1>5. \A k \in DOMAIN found : found[k].left <= TotalOf(found[k].id, L)
    BY <1>2, <1>3, FoundAreLeft
<1>6. L \o <<>> = L
    <2>1. L \in Seq(ElementsOf(L))
        BY <1>2 DEF Written, IsSeq
    <2> QED
        BY <2>1, ConcatEmptySeq
<1>7. Proper("scanned", L, <<>>, found)
    BY <1>3, <1>5, <1>6, NoRowsSound DEF Proper
<1>8. Proper("scanned", L, rows'[h], due'[h])
    BY <1>1, <1>4, <1>7
<1>9. \A g \in Handlers \ {h} : rows'[g] = rows[g] /\ due'[g] = due[g]
    BY <1>1, <1>4
<1> QED
    BY <1>1, <1>8, <1>9, OwnStepKeepsSerial DEF L

(***************************************************************************)
(* A step that writes no row, and that leaves what was found lapsed alone  *)
(* or is done with it.                                                     *)
(***************************************************************************)
LEMMA NoRowKeepsSerial ==
    ASSUME AccountInv, SerialInv, NEW h \in Handlers, Looked(step[h]), step[h] # "written",
           NEW s \in {"expiring", "ready", "charging", "written"},
           step' = [step EXCEPT ![h] = s], UNCHANGED <<clock, ledger, task, began, rows>>,
           \A g \in Handlers \ {h} : due'[g] = due[g],
           s = "expiring" => step[h] = "scanned" /\ due' = due
    PROVE  SerialInv'
<1>1. step[h] # "idle"
    BY DEF Looked
<1>2. Proper(step[h], ledger[User(h)], rows[h], due[h])
    BY DEF SerialInv
<1>3. Proper(s, ledger[User(h)], rows'[h], due'[h])
    BY <1>2 DEF Proper
<1> QED
    BY <1>1, <1>3, OwnStepKeepsSerial

\* An expiry of a bucket: the balance and the grant have what it takes.
LEMMA ExpireBucketKeepsSerial ==
    ASSUME AccountInv, AccountInv', RecordInv, GrantInv, SerialInv, NEW h \in Handlers, ExpireBucket(h)
    PROVE  SerialInv'
<1> DEFINE L == ledger[User(h)]
           b == began[h]
           D == due[h]
           R == rows[h]
           V == L \o R
<1>1. /\ step[h] = "expiring" /\ D # <<>> /\ due' = [due EXCEPT ![h] = Tail(@)]
      /\ UNCHANGED <<clock, balance, ledger, task, began, step>>
      /\ D \in Seq(Bucket) /\ Head(D).id \in Nat /\ Head(D).left \in Nat /\ total[h] \in Int
    BY ExpiryRow
<1>2. PICK e : /\ rows'[h] = Append(rows[h], e) /\ Readable(e) /\ e.kind = "subscription_expire" /\ e.delta < 0
               /\ -e.delta <= total[h] /\ -e.delta <= Head(due[h]).left
               /\ e.ref = Head(due[h]).id /\ e.at = began[h] /\ e.alloc = <<>>
               /\ \A g \in Handlers \ {h} : rows'[g] = rows[g]
    BY ExpiryRow
<1>3. /\ rows'[h] = Append(R, e) /\ Readable(e) /\ e.kind = "subscription_expire"
      /\ e.ref = Head(D).id /\ e.at = b /\ e.alloc = <<>>
      /\ \A g \in Handlers \ {h} : rows'[g] = rows[g]
      /\ e.delta < 0 /\ -e.delta <= total[h] /\ -e.delta <= Head(D).left
    BY <1>2
<1>4. /\ Written(V) /\ Sound(V) /\ Total(V) = EndOf(balance[User(h)], R)
      /\ \A i \in DOMAIN V : V[i].at = b => V[i].delta <= 0
    BY <1>1, SeenRows DEF Looked
<1>5. total[h] = EndOf(balance[User(h)], R)
    BY <1>1 DEF AccountInv, CarriesOn
<1>6. Outstanding(L, R, D, b)
    BY <1>1, OpenTransaction DEF Looked, Drafted
<1>7. /\ \A k \in DOMAIN D : D[k].left <= TotalOf(D[k].id, V)
      /\ \A i \in DOMAIN R : R[i].delta <= 0
    BY <1>1 DEF SerialInv, Proper, Looked
<1> HIDE DEF L, b, D, R, V
<1>8. D # <<>> /\ Head(D) = D[1] /\ 1 \in DOMAIN D
    BY <1>1
<1>9. e.delta <= 0 /\ e.delta \in Int
    BY <1>3 DEF Readable
<1>10. Total(V) + e.delta >= 0
    BY <1>1, <1>3, <1>4, <1>5, <1>9
<1>11. TotalOf(e.ref, V) + e.delta >= 0
    <2>1. Head(D).left <= TotalOf(e.ref, V)
        BY <1>3, <1>7, <1>8
    <2>2. TotalOf(e.ref, V) \in Int
        BY <1>1, <1>3, <1>4, SoundReplay
    <2> QED
        BY <1>1, <1>3, <1>9, <2>1, <2>2
<1>12. Balanced(e) /\ Follows(V, e)
    BY <1>3, <1>4, <1>9, <1>10, <1>11, LossFollows
<1>13. L \o rows'[h] = Append(V, e) /\ Sound(Append(V, e)) /\ NoRowBelowZero(rows'[h])
    <2>1. /\ e.at = began[h] /\ Follows(ledger[User(h)] \o rows[h], e) /\ Looked(step[h])
          /\ rows'[h] = Append(rows[h], e)
        BY <1>1, <1>3, <1>12 DEF L, R, V, b, Looked
    <2> QED
        BY <1>1, <1>3, <1>12, <2>1, RowFits DEF L, R, V
<1>14. due'[h] = Tail(D) /\ \A g \in Handlers \ {h} : due'[g] = due[g]
    BY <1>1 DEF RecordInv, D
<1>15. ASSUME NEW k \in DOMAIN Tail(D)
       PROVE  Tail(D)[k].left <= TotalOf(Tail(D)[k].id, Append(V, e))
    <2>1. k + 1 \in DOMAIN D /\ Tail(D)[k] = D[k + 1] /\ k + 1 # 1
        BY <1>1, <1>8
    <2> DEFINE d == D[k + 1]
    <2>2. d.id # e.ref
        BY <1>3, <1>6, <1>8, <2>1 DEF Outstanding
    <2>3. d.left <= TotalOf(d.id, V) /\ d.id \in Nat
        <3>1. d \in Bucket
            BY <1>1, <2>1
        <3>2. d.id \in Nat
            BY <3>1 DEF Bucket
        <3> QED
            BY <1>7, <2>1, <3>2
    <2> HIDE DEF d
    <2>4. Weight(d.id, e) = 0
        BY <1>3, <1>9, <2>2, LossWeighs
    <2>5. TotalOf(d.id, Append(V, e)) = TotalOf(d.id, V) + Weight(d.id, e) /\ TotalOf(d.id, V) \in Int
        BY <1>3, <1>4, TotalsOfMore
    <2>6. d.left <= TotalOf(d.id, Append(V, e))
        BY <2>3, <2>4, <2>5
    <2> QED
        BY <2>1, <2>6 DEF d
<1>16. \A i \in DOMAIN rows'[h] : rows'[h][i].delta <= 0
    <2>1. IsSeq(R)
        BY DEF AccountInv, Typed, R
    <2>2. \A k \in DOMAIN Append(R, e) :
              \/ k \in DOMAIN R /\ Append(R, e)[k] = R[k]
              \/ k = Len(R) + 1 /\ Append(R, e)[k] = e
        BY <2>1, ElementsOfMore
    <2>3. rows'[h] = Append(R, e) /\ \A i \in DOMAIN R : R[i].delta <= 0
        BY <1>3, <1>7
    <2> QED
        BY <1>9, <2>2, <2>3
<1>17. Proper("expiring", L, rows'[h], due'[h])
    BY <1>13, <1>14, <1>15, <1>16 DEF Proper
<1>18. step' = [step EXCEPT ![h] = "expiring"]
    BY <1>1 DEF AccountInv, Typed
<1> QED
    BY <1>1, <1>3, <1>14, <1>17, <1>18, OwnStepKeepsSerial DEF L

\* A row that a request itself makes, if it may follow what the handler has seen.
LEMMA OneRowKeepsSerial ==
    ASSUME AccountInv, AccountInv', RecordInv, GrantInv, SerialInv, NEW h \in Handlers,
           NEW s \in {"charging", "written"}, step[h] \in {"ready", "charging"},
           step' = [step EXCEPT ![h] = s], UNCHANGED <<clock, balance, ledger, task, began, due>>,
           \A g \in Handlers \ {h} : rows'[g] = rows[g],
           NEW e, rows'[h] = Append(rows[h], e), Readable(e), e.at = began[h],
           Balanced(e), Follows(ledger[User(h)] \o rows[h], e),
           s = "charging" => e.delta <= 0
    PROVE  SerialInv'
<1> DEFINE L == ledger[User(h)]
           R == rows[h]
           V == L \o R
<1>1. step[h] # "idle" /\ Looked(step[h]) /\ step[h] # "written"
    BY DEF Looked
<1>2. L \o rows'[h] = Append(V, e) /\ Sound(Append(V, e)) /\ NoRowBelowZero(rows'[h])
    BY <1>1, RowFits
<1>3. IsSeq(R) /\ \A i \in DOMAIN R : R[i].delta <= 0
    BY <1>1 DEF SerialInv, Proper, AccountInv, Typed
<1>4. \A k \in DOMAIN Append(R, e) :
          \/ k \in DOMAIN R /\ Append(R, e)[k] = R[k]
          \/ k = Len(R) + 1 /\ Append(R, e)[k] = e
    BY <1>3, ElementsOfMore
<1>5. rows'[h] = Append(R, e)
    OBVIOUS
<1> HIDE DEF L, R, V
<1>6. s # "written" => \A i \in DOMAIN rows'[h] : rows'[h][i].delta <= 0
    BY <1>3, <1>4, <1>5
<1>7. Proper(s, L, rows'[h], due'[h])
    BY <1>2, <1>6 DEF Proper
<1> QED
    BY <1>1, <1>7, OwnStepKeepsSerial DEF L

\* The expiry keeps the invariant (_reconcile_expired_subscription_points).
LEMMA ExpireKeepsSerial ==
    ASSUME AccountInv, AccountInv', RecordInv, GrantInv, SerialInv, NEW h \in Handlers, Expire(h)
    PROVE  SerialInv'
<1>1. CASE ScanExpired(h)
    BY <1>1, ScanExpiredKeepsSerial
<1>2. CASE NothingExpired(h)
    BY <1>2, NoRowKeepsSerial DEF NothingExpired, Goto, Looked
<1>3. CASE LockForExpiry(h)
    BY <1>3, NoRowKeepsSerial DEF LockForExpiry, Goto, Looked
<1>4. CASE ExpireBucket(h)
    BY <1>4, ExpireBucketKeepsSerial
<1>5. CASE ExpiryDone(h)
    <2>1. \A g \in Handlers \ {h} : due'[g] = due[g]
        BY <1>5 DEF ExpiryDone, RecordInv
    <2> QED
        BY <1>5, <2>1, NoRowKeepsSerial DEF ExpiryDone, Goto, Looked
<1> QED
    BY <1>1, <1>2, <1>3, <1>4, <1>5 DEF Expire

\* A row that adds points, of a grant, an adjustment or a refund.
LEMMA GainKeepsSerial ==
    ASSUME AccountInv, AccountInv', RecordInv, GrantInv, SerialInv, NEW h \in Handlers,
           step[h] = "ready", step' = [step EXCEPT ![h] = "written"],
           UNCHANGED <<clock, balance, ledger, task, began, due>>, total'[h] \in Int,
           NEW kind \in Kinds, NEW delta \in Int, delta > 0, NEW ref \in Nat, NEW lapse \in Nat,
           NEW alloc \in Seq(Allocation), Write(h, kind, delta, ref, lapse, alloc),
           kind # "refund" => alloc = <<>>, kind = "refund" => GivenBack(alloc) <= delta
    PROVE  SerialInv'
<1>0. kind = "refund" => delta > 0
    OBVIOUS
<1>1. PICK e : /\ rows'[h] = Append(rows[h], e) /\ Readable(e) /\ e.kind = kind
               /\ e.delta = delta /\ e.at = began[h] /\ e.alloc = alloc
               /\ \A g \in Handlers \ {h} : rows'[g] = rows[g]
    <2>1. AddsRow(h, kind, delta, ref, lapse, alloc)
        BY <1>0, WriteAddsRow
    <2> QED
        BY <2>1 DEF AddsRow
<1>2. e.delta > 0 /\ (e.kind # "refund" => e.alloc = <<>>)
    BY <1>1
<1>3. e.kind = "refund" => GivenBack(e.alloc) <= e.delta
    <2> HIDE DEF GivenBack
    <2> QED
        BY <1>1
<1> DEFINE V == ledger[User(h)] \o rows[h]
<1> HIDE DEF V
<1>4. Balanced(e) /\ Follows(V, e)
    BY <1>1, <1>2, <1>3, GainFollows
<1> QED
    BY <1>1, <1>4, OneRowKeepsSerial DEF V

\* A grant adds points (_grant_points_with_ledger).
LEMMA GrantPointsKeepsSerial ==
    ASSUME AccountInv, AccountInv', RecordInv, GrantInv, SerialInv, NEW h \in Handlers, GrantPoints(h)
    PROVE  SerialInv'
<1> DEFINE kind == task[h].kind
           points == task[h].points
           lapse == IF task[h].kind = "subscription_grant" THEN began[h] + Period ELSE Never
           none == <<>>
<1>0. /\ total'[h] \in Int /\ began[h] \in Nat /\ Never \in Nat /\ none \in Seq(Allocation)
      /\ task[h] \in Tasks /\ Period \in Nat
    BY NeverAssumption, ConstantsAssumption DEF AccountInv, Typed, RecordInv, Noted
<1>1. kind \in Kinds /\ points \in Int /\ points > 0
    BY <1>0, TaskSays DEF GrantPoints, Kinds
<1>2. lapse \in Nat
    BY <1>0
<1>3. Write(h, kind, points, began[h], lapse, none)
    BY DEF GrantPoints
<1>4. /\ step[h] = "ready" /\ step' = [step EXCEPT ![h] = "written"]
      /\ UNCHANGED <<clock, balance, ledger, task, began, due>>
    BY DEF GrantPoints, Goto
<1>5. none = <<>> /\ GivenBack(none) = 0
    BY NothingGivenBack
<1> HIDE DEF kind, points, lapse, none, GivenBack
<1>6. GivenBack(none) <= points
    BY <1>1, <1>5
<1> QED
    BY <1>0, <1>1, <1>2, <1>3, <1>4, <1>5, <1>6, GainKeepsSerial

\* An adjustment adds points, or takes what the balance has (_adjust_user_points_with_ledger).
LEMMA AdjustPointsKeepsSerial ==
    ASSUME AccountInv, AccountInv', RecordInv, GrantInv, SerialInv, NEW h \in Handlers, AdjustPoints(h)
    PROVE  SerialInv'
<1> DEFINE kind == "admin_adjustment"
           points == task[h].points
           none == <<>>
           V == ledger[User(h)] \o rows[h]
<1>0. /\ total'[h] \in Int /\ began[h] \in Nat /\ Never \in Nat /\ none \in Seq(Allocation)
      /\ task[h] \in Tasks
    BY NeverAssumption DEF AccountInv, Typed, RecordInv, Noted
<1>1. kind \in Kinds /\ kind # "refund" /\ kind # "subscription_expire" /\ points \in Int
    BY <1>0, TaskSays DEF AdjustPoints, Kinds
<1>2. Write(h, kind, points, began[h], Never, none)
    BY DEF AdjustPoints
<1>3. /\ step[h] = "ready" /\ step' = [step EXCEPT ![h] = "written"]
      /\ UNCHANGED <<clock, balance, ledger, task, began, due>>
      /\ ReadBalance(h) + points >= 0
    BY DEF AdjustPoints, Goto
<1>4. none = <<>>
    OBVIOUS
<1>5. /\ Written(V) /\ Sound(V) /\ Total(V) = EndOf(balance[User(h)], rows[h])
      /\ \A i \in DOMAIN V : V[i].at = began[h] => V[i].delta <= 0
    BY <1>3, SeenRows DEF Looked
<1>6. ReadBalance(h) = EndOf(balance[User(h)], rows[h])
    BY <1>3, ReadBalanceIsEnd
<1>7. Total(V) + points >= 0
    BY <1>3, <1>5, <1>6
<1> HIDE DEF kind, points, none, V
<1>8. CASE points > 0
    BY <1>0, <1>1, <1>2, <1>3, <1>4, <1>8, GainKeepsSerial
<1>9. CASE points <= 0
    <2>1. PICK e : /\ rows'[h] = Append(rows[h], e) /\ Readable(e) /\ e.kind = kind
                   /\ e.delta = points /\ e.at = began[h] /\ e.alloc = none
                   /\ \A g \in Handlers \ {h} : rows'[g] = rows[g]
        <3>1. kind = "refund" => points > 0
            BY <1>1
        <3>2. AddsRow(h, kind, points, began[h], Never, none)
            BY <1>0, <1>1, <1>2, <3>1, WriteAddsRow
        <3> QED
            BY <3>2 DEF AddsRow
    <2>2. Balanced(e) /\ Follows(V, e)
        BY <1>1, <1>4, <1>5, <1>7, <1>9, <2>1, LossFollows
    <2> QED
        BY <1>3, <2>1, <2>2, OneRowKeepsSerial DEF V
<1> QED
    BY <1>1, <1>8, <1>9

\* A refund gives no more back than it adds (refund_points).
LEMMA RefundPointsKeepsSerial ==
    ASSUME AccountInv, AccountInv', RecordInv, GrantInv, SerialInv, NEW h \in Handlers, RefundPoints(h)
    PROVE  SerialInv'
<1> DEFINE kind == "refund"
           points == task[h].points
           ref == task[h].ref
           alloc == RefundAllocations(Visible(h), ref, points)
<1>0. /\ total'[h] \in Int /\ Never \in Nat /\ task[h] \in Tasks
    BY NeverAssumption DEF AccountInv, Typed, RecordInv, Noted
<1>1. kind \in Kinds /\ points \in Int /\ points > 0 /\ points \in Nat /\ ref \in Nat
    BY <1>0, TaskSays DEF RefundPoints, Kinds
<1>2. /\ step[h] = "ready" /\ step' = [step EXCEPT ![h] = "written"]
      /\ UNCHANGED <<clock, balance, ledger, task, began, due>>
    BY DEF RefundPoints, Goto
<1>3. Rows(Visible(h), Len(Visible(h)))
    BY <1>2, VisibleRows DEF AccountInv, Asked
<1>4. Write(h, kind, points, ref, Never, alloc)
    BY DEF RefundPoints
<1>5. alloc \in Seq(Allocation) /\ GivenBack(alloc) <= points
    <2> HIDE DEF ref, points, GivenBack
    <2> QED
        BY <1>1, <1>3, RefundAllocationsAre, RefundGives
<1>6. kind = "refund"
    OBVIOUS
<1> HIDE DEF kind, points, ref, alloc, GivenBack
<1> QED
    BY <1>0, <1>1, <1>2, <1>4, <1>5, <1>6, GainKeepsSerial

\* A charge takes what the buckets have, which is no more than the balance (charge_points).
LEMMA ChargeEventKeepsSerial ==
    ASSUME AccountInv, AccountInv', RecordInv, GrantInv, SerialInv, NEW h \in Handlers, ChargeEvent(h)
    PROVE  SerialInv'
<1>1. PICK q \in task[h].quotes :
          LET points == EventPoints(q, charged[h] + 1)
              preview == Preview(Visible(h), points)
          IN  preview.rest = 0 /\ Write(h, "consume", -points, began[h], Never, preview.taken)
    BY DEF ChargeEvent
<1> DEFINE points == EventPoints(q, charged[h] + 1)
           delta == -points
           V == ledger[User(h)] \o rows[h]
           alloc == Preview(V, points).taken
           kind == "consume"
<1>2. /\ step[h] = "charging" /\ EventsLeft(h)
      /\ UNCHANGED <<clock, balance, ledger, task, began, due, step>>
    BY DEF ChargeEvent
<1>3. charged[h] + 1 \in DOMAIN q
    BY <1>2, EventPointsType
<1>4. IsQuote(q)
    BY <1>2, ConstantsAssumption DEF AccountInv, Asked
<1>5. points \in Nat
    BY <1>3, <1>4, EventPointsAre
<1>6. /\ Visible(h) = V /\ Written(V) /\ Sound(V)
      /\ \A i \in DOMAIN V : V[i].at = began[h] => V[i].delta <= 0
    BY <1>2, SeenRows DEF Looked
<1>7. Write(h, kind, delta, began[h], Never, alloc) /\ Preview(V, points).rest = 0
    BY <1>1, <1>6
<1> HIDE DEF points, V
<1>8. alloc \in Seq(Allocation)
    BY <1>5, <1>6, PreviewTakes DEF Written
<1>9. kind \in Kinds /\ kind = "consume" /\ kind # "refund" /\ delta \in Int /\ delta <= 0 /\ delta = -points
    BY <1>5 DEF Kinds
<1>10. total'[h] \in Int /\ began[h] \in Nat /\ Never \in Nat
    BY NeverAssumption DEF AccountInv, Typed, RecordInv
<1>11. alloc = Preview(V, points).taken
    OBVIOUS
<1> HIDE DEF alloc, delta, kind
<1>12. PICK e : /\ rows'[h] = Append(rows[h], e) /\ Readable(e) /\ e.kind = kind
                /\ e.delta = delta /\ e.at = began[h] /\ e.alloc = alloc
                /\ \A g \in Handlers \ {h} : rows'[g] = rows[g]
    <2>1. kind \in Kinds /\ delta \in Int /\ (kind = "refund" => delta > 0)
        BY <1>9
    <2>2. Write(h, kind, delta, began[h], Never, alloc)
        BY <1>7
    <2>3. AddsRow(h, kind, delta, began[h], Never, alloc)
        BY <1>8, <1>10, <2>1, <2>2, WriteAddsRow
    <2> QED
        BY <2>3 DEF AddsRow
<1>13. Balanced(e) /\ Follows(V, e)
    BY <1>5, <1>6, <1>7, <1>9, <1>11, <1>12, ChargeFollows
<1>14. step' = [step EXCEPT ![h] = "charging"]
    BY <1>2 DEF AccountInv, Typed
<1> QED
    BY <1>2, <1>9, <1>12, <1>13, <1>14, OneRowKeepsSerial DEF V

\* What was asked for keeps the invariant.
LEMMA OperateKeepsSerial ==
    ASSUME AccountInv, AccountInv', RecordInv, GrantInv, SerialInv, NEW h \in Handlers, Operate(h)
    PROVE  SerialInv'
<1>1. CASE ViewAccount(h)
    BY <1>1, NoRowKeepsSerial DEF ViewAccount, Goto, Looked
<1>2. CASE CheckFunds(h)
    BY <1>2, NoRowKeepsSerial DEF CheckFunds, Goto, Looked
<1>3. CASE ChargeDone(h)
    BY <1>3, NoRowKeepsSerial DEF ChargeDone, Goto, Looked
<1> QED
    BY <1>1, <1>2, <1>3, GrantPointsKeepsSerial, AdjustPointsKeepsSerial, RefundPointsKeepsSerial,
       ChargeEventKeepsSerial DEF Operate

(***************************************************************************)
(* The end of a transaction keeps the invariant, if the ledgers it leaves  *)
(* are in order, and those of the other open transactions as they were.    *)
(***************************************************************************)
LEMMA EndKeepsSerial ==
    ASSUME AccountInv, RecordInv, SerialInv, NEW h \in Handlers, End(h),
           \A u \in Users : Orderly(ledger'[u], clock),
           \A g \in Handlers \ {h} : step[g] # "idle" => ledger'[User(g)] = ledger[User(g)]
    PROVE  SerialInv'
<1>1. /\ clock' = clock
      /\ step' = [step EXCEPT ![h] = "idle"] /\ task' = [task EXCEPT ![h] = NoTask]
      /\ began' = [began EXCEPT ![h] = 0] /\ due' = [due EXCEPT ![h] = <<>>]
      /\ rows' = [rows EXCEPT ![h] = <<>>]
    BY DEF End, Goto
<1>2. /\ step'[h] = "idle"
      /\ \A g \in Handlers \ {h} :
            /\ step'[g] = step[g] /\ task'[g] = task[g] /\ began'[g] = began[g]
            /\ due'[g] = due[g] /\ rows'[g] = rows[g]
    BY <1>1 DEF AccountInv, Typed, RecordInv
<1>3. \A g \in Handlers \ {h} : User(g)' = User(g)
    BY <1>2 DEF User
<1>4. ASSUME NEW g \in Handlers, step'[g] # "idle" PROVE LaterThan(ledger'[User(g)'], began'[g])
    <2>1. g # h /\ step[g] # "idle"
        BY <1>2, <1>4
    <2> QED
        BY <1>2, <1>3, <2>1 DEF SerialInv
<1>5. ASSUME NEW g \in Handlers, Looked(step'[g])
      PROVE  Proper(step'[g], ledger'[User(g)'], rows'[g], due'[g])
    <2>1. g # h /\ Looked(step[g]) /\ step[g] # "idle"
        BY <1>2, <1>5 DEF Looked
    <2> QED
        BY <1>2, <1>3, <2>1 DEF SerialInv
<1> QED
    BY <1>1, <1>4, <1>5 DEF SerialInv

\* A commit keeps the invariant, when no other transaction is open on the account.
LEMMA CommitKeepsSerial ==
    ASSUME Serially, AccountInv, RecordInv, GrantInv, SerialInv, NEW h \in Handlers, Commit(h)
    PROVE  SerialInv'
<1> DEFINE L == ledger[User(h)]
           R == rows[h]
           V == L \o R
<1>1. /\ step[h] = "written" /\ step[h] # "idle" /\ Looked(step[h]) /\ User(h) \in Users /\ End(h)
      /\ ledger'[User(h)] = V /\ \A u \in Users \ {User(h)} : ledger'[u] = ledger[u]
    BY DEF AccountInv, Typed, Asked, Commit, Looked
<1>2. /\ Written(L) /\ Written(R) /\ Written(V) /\ Sound(V)
      /\ began[h] \in Nat /\ \A i \in DOMAIN V : V[i].at <= began[h]
    BY <1>1, SeenRows
<1>3. clock \in Nat /\ began[h] <= clock
    BY <1>1, OpenTransaction
<1>4. NoRowBelowZero(L) /\ NoRowBelowZero(R)
    BY <1>1 DEF SerialInv, Orderly, Proper
<1> HIDE DEF L, R
<1>5. NoRowBelowZero(V)
    BY <1>2, <1>4, NoRowBelowZeroConcat DEF Written
<1> HIDE DEF V
<1>6. \A i \in DOMAIN V : V[i].at <= clock
    <2>1. \A i \in DOMAIN V : V[i].at \in Nat
        BY <1>2, ReadableRow
    <2> QED
        BY <1>2, <1>3, <2>1
<1>7. \A u \in Users : Orderly(ledger'[u], clock)
    BY <1>1, <1>2, <1>5, <1>6 DEF SerialInv, Orderly
<1>8. ASSUME NEW g \in Handlers \ {h}, step[g] # "idle" PROVE ledger'[User(g)] = ledger[User(g)]
    <2>1. User(g) # User(h) /\ User(g) \in Users
        BY <1>1, <1>8 DEF Serially, AccountInv, Asked
    <2> QED
        BY <1>1, <2>1
<1> QED
    BY <1>1, <1>7, <1>8, EndKeepsSerial

\* A refusal or a crash keeps the invariant.
LEMMA RollbackKeepsSerial ==
    ASSUME AccountInv, RecordInv, SerialInv, NEW h \in Handlers, End(h), UNCHANGED database
    PROVE  SerialInv'
<1>1. ledger' = ledger
    BY DEF database
<1>2. \A u \in Users : Orderly(ledger'[u], clock)
    BY <1>1 DEF SerialInv
<1> QED
    BY <1>1, <1>2, EndKeepsSerial

\* Nothing of it changes.
LEMMA SameSerial ==
    ASSUME SerialInv, UNCHANGED vars
    PROVE  SerialInv'
<1>1. UNCHANGED <<clock, ledger, step, task, began, due, rows>>
    BY DEF vars
<1>2. \A h \in Handlers : User(h)' = User(h)
    BY <1>1 DEF User
<1> QED
    BY <1>1, <1>2 DEF SerialInv

\* Every step keeps the invariant while transactions on one account do not overlap.
LEMMA NextKeepsSerial ==
    Serially /\ AccountInv /\ AccountInv' /\ RecordInv /\ GrantInv /\ SerialInv /\ [Next]_vars
        => SerialInv'
<1> SUFFICES ASSUME Serially, AccountInv, AccountInv', RecordInv, GrantInv, SerialInv, [Next]_vars
             PROVE  SerialInv'
    OBVIOUS
<1>1. CASE UNCHANGED vars
    BY <1>1, SameSerial
<1>2. CASE Tick
    BY <1>2, TickKeepsSerial
<1>3. ASSUME NEW h \in Handlers, Begin(h) PROVE SerialInv'
    BY <1>3, BeginKeepsSerial
<1>4. ASSUME NEW h \in Handlers, EnsureAccount(h) PROVE SerialInv'
    BY <1>4, OwnStepKeepsSerial DEF EnsureAccount, Goto, Looked
<1>5. ASSUME NEW h \in Handlers, Expire(h) PROVE SerialInv'
    BY <1>5, ExpireKeepsSerial
<1>6. ASSUME NEW h \in Handlers, Operate(h) PROVE SerialInv'
    BY <1>6, OperateKeepsSerial
<1>7. ASSUME NEW h \in Handlers, Commit(h) PROVE SerialInv'
    BY <1>7, CommitKeepsSerial
<1>8. ASSUME NEW h \in Handlers, Refuse(h) \/ Crash(h) PROVE SerialInv'
    <2>1. End(h) /\ UNCHANGED database
        BY <1>8 DEF Refuse, Crash
    <2> QED
        BY <2>1, RollbackKeepsSerial
<1> QED
    BY <1>1, <1>2, <1>3, <1>4, <1>5, <1>6, <1>7, <1>8 DEF Next, Progress

\* The invariants hold together while transactions on one account do not overlap.
SeriallySound == AccountInv /\ RecordInv /\ GrantInv /\ SerialInv

LEMMA InitSerially == Init => SeriallySound
BY InitAccount, InitRecord, InitGrants, InitSerial DEF SeriallySound

LEMMA NextSerially == Serially /\ SeriallySound /\ [Next]_vars => SeriallySound'
BY NextKeepsAccount, NextKeepsRecord, NextKeepsGrants, NextKeepsSerial DEF SeriallySound

\* The ledger of a user in a state the invariants allow.
LEMMA LedgerIsSound ==
    ASSUME SeriallySound, NEW u \in Users
    PROVE  /\ Written(ledger[u]) /\ Sound(ledger[u]) /\ IsLedger(ledger[u])
           /\ NoRowBelowZero(ledger[u])
           /\ Total(ledger[u]) = balance[u]
           /\ Rows(ledger[u], Len(ledger[u])) /\ IsSeq(ledger[u]) /\ IsChain(0, ledger[u])
<1>1. Written(ledger[u]) /\ IsLedger(ledger[u])
    BY DEF SeriallySound, GrantInv, GoodLedger
<1>2. Sound(ledger[u]) /\ NoRowBelowZero(ledger[u])
    BY DEF SeriallySound, SerialInv, Orderly
<1>3. IsChain(0, ledger[u]) /\ balance[u] = EndOf(0, ledger[u])
    BY DEF SeriallySound, AccountInv, LedgerExplainsBalance
<1>4. IsChain(EndOf(0, ledger[u]), <<>>) /\ Written(<<>>)
    BY EmptyRows, NoRows
<1>5. Total(ledger[u]) = EndOf(0, ledger[u])
    BY <1>1, <1>3, <1>4, TotalIsEnd
<1> QED
    BY <1>1, <1>2, <1>3, <1>5 DEF Written

(***************************************************************************)
(* No row leaves an account below zero while transactions on one account   *)
(* do not overlap, at any prices, however they change while a charge runs  *)
(* (NoOverdraft of CreditLedger): every charge is then paid from buckets   *)
(* that hold no more than the balance.                                     *)
(***************************************************************************)
THEOREM NoOverdraftSerially == Spec /\ []Serially => []NoOverdraft
<1>1. SeriallySound => NoOverdraft
    BY LedgerIsSound DEF NoOverdraft, NoRowBelowZero
<1> QED
    BY <1>1, InitSerially, NextSerially, PTL DEF Spec

(***************************************************************************)
(* The buckets of a replay hold the balance, neither less (but for what    *)
(* refunds gave back beyond the charge) nor more, while transactions on    *)
(* one account do not overlap (BucketsMatchBalance of CreditLedger): the   *)
(* order in which the replay reads the rows is then that in which they     *)
(* were committed, so that nothing is taken before it was there.           *)
(***************************************************************************)
THEOREM BucketsMatchBalanceSerially == Spec /\ []Serially => []BucketsMatchBalance
<1>1. ASSUME SeriallySound PROVE BucketsMatchBalance
    <2>1. ASSUME NEW u \in Users PROVE PointsIn(Replay(ledger[u])) <= balance[u]
        <3>1. Written(ledger[u]) /\ Sound(ledger[u]) /\ Total(ledger[u]) = balance[u]
            BY <1>1, LedgerIsSound
        <3> QED
            BY <3>1, SoundReplay
    <2>2. ASSUME NEW u \in Users
          PROVE  PointsIn(Replay(ledger[u])) + Unplaced(ledger[u]) >= balance[u]
        <3>1. /\ Rows(ledger[u], Len(ledger[u])) /\ IsSeq(ledger[u]) /\ IsChain(0, ledger[u])
              /\ balance[u] = EndOf(0, ledger[u])
            BY <1>1, LedgerIsSound DEF SeriallySound, AccountInv, LedgerExplainsBalance
        <3> QED
            BY <3>1, ReplayHolds
    <2> QED
        BY <2>1, <2>2 DEF BucketsMatchBalance, BucketsCoverBalance
<1> QED
    BY <1>1, InitSerially, NextSerially, PTL DEF Spec

\* What the rows of a ledger allocate to one identifier, net of refunds.
Allocs(g, rs) == [i \in DOMAIN rs |-> AllocatedTo(g, rs[i])]
Allocated(g, rs) == SumOver(rs, LAMBDA r : AllocatedTo(g, r))

\* It is a total.
LEMMA AllocatedIsSigma ==
    ASSUME NEW rs, NEW n, Rows(rs, n), NEW g
    PROVE  /\ Allocated(g, rs) = Sigma(1 .. n, Allocs(g, rs))
           /\ \A i \in 1 .. n : Allocs(g, rs)[i] = AllocatedTo(g, rs[i]) /\ Allocs(g, rs)[i] \in Int
<1> DEFINE v == Allocs(g, rs)
           IsIter(f) == f = [S \in SUBSET DOMAIN rs |->
                                IF S = {} THEN 0 ELSE f[S \ {Max(S)}] + AllocatedTo(g, rs[Max(S)])]
           iter == CHOOSE f : IsIter(f)
<1>1. n \in Nat /\ DOMAIN rs = 1 .. n /\ \A i \in 1 .. n : v[i] = AllocatedTo(g, rs[i]) /\ v[i] \in Int
    <2>1. n \in Nat /\ DOMAIN rs = 1 .. n /\ \A i \in 1 .. n : Readable(rs[i])
        BY DEF Rows
    <2>2. \A i \in 1 .. n : v[i] = AllocatedTo(g, rs[i])
        BY <2>1 DEF Allocs
    <2>3. \A i \in 1 .. n : AllocatedTo(g, rs[i]) \in Int
        BY <2>1, WeightIs
    <2> QED
        BY <2>1, <2>2, <2>3
<1>2. Allocated(g, rs) = iter[DOMAIN rs]
    BY DEF Allocated, SumOver, FoldLeft, MapThenFoldSet, Max
<1>3. ASSUME NEW f PROVE IsIter(f) <=> Sums(f, n, v)
    <2>1. \A S \in SUBSET (1 .. n) : S # {} => Max(S) \in 1 .. n
        BY <1>1, MaxOf
    <2> HIDE DEF v
    <2>2. \A S \in SUBSET (1 .. n) : S # {} => AllocatedTo(g, rs[Max(S)]) = v[Max(S)]
        BY <1>1, <2>1
    <2>3. [S \in SUBSET (1 .. n) |-> IF S = {} THEN 0 ELSE f[S \ {Max(S)}] + AllocatedTo(g, rs[Max(S)])]
             = [S \in SUBSET (1 .. n) |-> IF S = {} THEN 0 ELSE f[S \ {Max(S)}] + v[Max(S)]]
        BY <2>2
    <2> QED
        BY <1>1, <2>3 DEF Sums
<1> HIDE DEF IsIter, v
<1>4. (\E f : Sums(f, n, v)) => Sums(iter, n, v)
    BY <1>3
<1>5. iter[1 .. n] = Sigma(1 .. n, v) /\ Sigma(1 .. n, v) \in Int
    BY <1>1, <1>4, ChosenSum
<1> QED
    BY <1>1, <1>2, <1>5 DEF v

(***************************************************************************)
(* What is left of a grant by the weights of the rows: what it gave, less  *)
(* what has expired of it and what has been paid from it.                  *)
(***************************************************************************)
LEMMA LeftOfGrant ==
    ASSUME NEW L, Written(L), IsLedger(L), NEW gi \in DOMAIN L, IsGrant(L[gi])
    PROVE  LET g == L[gi].ref
           IN  /\ Expired(g, L) \in Int /\ Allocated(g, L) \in Int
               /\ TotalOf(g, L) = L[gi].delta - Expired(g, L) - Allocated(g, L)
<1> DEFINE n == Len(L)
           g == L[gi].ref
           given == [i \in 1 .. n |-> Given(g, L[i])]
           x == Lapses(g, L)
           a == Allocs(g, L)
           w == Weights(g, L)
           wx == [i \in 1 .. n |-> w[i] + x[i]]
<1>1. Rows(L, n) /\ n \in Nat /\ DOMAIN L = 1 .. n /\ IsFiniteSet(1 .. n)
      /\ \A i \in 1 .. n : Readable(L[i])
    BY AllFinite DEF Written, Rows
<1> HIDE DEF n, g
<1>2. \A i \in 1 .. n : x[i] = ExpiredFrom(g, L[i]) /\ x[i] \in Int
    BY <1>1, LapsesAre
<1>3. /\ Allocated(g, L) = Sigma(1 .. n, a)
      /\ \A i \in 1 .. n : a[i] = AllocatedTo(g, L[i]) /\ a[i] \in Int
    BY <1>1, AllocatedIsSigma
<1>4. Expired(g, L) = Sigma(1 .. n, x)
    BY <1>1, ExpiredIsSigma
<1>5. \A i \in 1 .. n : w[i] = Weight(g, L[i]) /\ w[i] \in Int
    BY <1>1, WeightsAre
<1>6. \A i \in 1 .. n : given[i] = Given(g, L[i]) /\ given[i] \in Int
    <2>1. \A i \in 1 .. n : Given(g, L[i]) \in Nat
        BY <1>1, WeightIs
    <2>2. \A i \in 1 .. n : given[i] = Given(g, L[i])
        OBVIOUS
    <2> HIDE DEF given
    <2> QED
        BY <2>1, <2>2
<1>7. given[gi] = L[gi].delta
    <2>1. L[gi].kind = "subscription_grant" /\ L[gi].ref = g /\ Told(L[gi]) /\ gi \in 1 .. n
        BY <1>1 DEF IsGrant, IsLedger, g
    <2>2. L[gi].delta > 0
        BY <2>1 DEF Told, IsExpiry, IsRefund, IsOwn, IsGrant
    <2>3. Given(g, L[gi]) = L[gi].delta
        BY <2>1, <2>2 DEF Given
    <2> QED
        BY <1>6, <2>1, <2>3
<1>8. ASSUME NEW i \in (1 .. n) \ {gi} PROVE given[i] = 0
    <2>1. L[i].ref = g => L[i].delta < 0 /\ L[i].delta \in Int
        BY <1>1, <1>8 DEF IsLedger, OnlyExpires, IsExpiry, Readable, g
    <2>2. Given(g, L[i]) = 0
        BY <2>1 DEF Given
    <2> QED
        BY <1>6, <2>2
<1>9. \A i \in 1 .. n : w[i] = given[i] - x[i] - a[i]
    BY <1>2, <1>3, <1>5, <1>6 DEF Weight
<1>10. \A i \in 1 .. n : wx[i] = w[i] + x[i]
    OBVIOUS
<1> HIDE DEF given, x, a, w, wx
<1>11. \A i \in 1 .. n : wx[i] \in Int /\ given[i] = wx[i] + a[i]
    BY <1>2, <1>3, <1>5, <1>6, <1>9, <1>10
<1>12. /\ Sigma(1 .. n, wx) = Sigma(1 .. n, w) + Sigma(1 .. n, x)
       /\ Sigma(1 .. n, given) = Sigma(1 .. n, wx) + Sigma(1 .. n, a)
    <2>1. Sigma(1 .. n, wx) = Sigma(1 .. n, w) + Sigma(1 .. n, x)
        BY <1>1, <1>2, <1>5, <1>10, SigmaOfSums
    <2>2. \A i \in 1 .. n : wx[i] \in Int /\ a[i] \in Int /\ given[i] = wx[i] + a[i]
        BY <1>3, <1>11
    <2>3. Sigma(1 .. n, given) = Sigma(1 .. n, wx) + Sigma(1 .. n, a)
        BY <1>1, <2>2, SigmaOfSums
    <2> QED
        BY <2>1, <2>3
<1>13. Sigma(1 .. n, given) = L[gi].delta
    <2>1. gi \in 1 .. n
        BY <1>1
    <2> QED
        BY <1>1, <1>6, <1>7, <1>8, <2>1, SigmaOfOne
<1>14. Sigma(1 .. n, w) \in Int /\ Sigma(1 .. n, x) \in Int /\ Sigma(1 .. n, a) \in Int
    BY <1>1, <1>2, <1>3, <1>5, SigmaTakes
<1>15. TotalOf(g, L) = Sigma(1 .. n, w)
    BY <1>1 DEF TotalOf, w
<1>16. TotalOf(g, L) = L[gi].delta - Expired(g, L) - Allocated(g, L)
    BY <1>3, <1>4, <1>12, <1>13, <1>14, <1>15
<1> QED
    BY <1>3, <1>4, <1>14, <1>16 DEF g

(***************************************************************************)
(* Expiry takes the unspent points of a subscription and no others, while  *)
(* transactions on one account do not overlap                              *)
(* (ExpiryTakesOnlyUnspentPoints of CreditLedger): what charges record as  *)
(* paid from a grant and what expires of it never exceed what it gave.     *)
(***************************************************************************)
THEOREM ExpiryTakesOnlyUnspentPointsSerially ==
    Spec /\ []Serially => []ExpiryTakesOnlyUnspentPoints
<1>1. ASSUME SeriallySound, NEW u \in Users, NEW i \in SubscriptionGrants(u)
      PROVE  LET g == ledger[u][i]
             IN  Expired(g.ref, ledger[u]) + Allocated(g.ref, ledger[u]) <= g.delta
    <2> DEFINE L == ledger[u]
    <2>1. Written(L) /\ Sound(L) /\ IsLedger(L)
        BY <1>1, LedgerIsSound
    <2>2. i \in DOMAIN L /\ IsGrant(L[i])
        BY DEF SubscriptionGrants, IsGrant
    <2> HIDE DEF L
    <2>3. L[i].ref \in Nat /\ L[i].delta \in Int
        BY <2>1, <2>2, ReadableRow
    <2>4. TotalOf(L[i].ref, L) >= 0
        BY <2>1, <2>3, SoundReplay
    <2>5. /\ Expired(L[i].ref, L) \in Int /\ Allocated(L[i].ref, L) \in Int
          /\ TotalOf(L[i].ref, L) = L[i].delta - Expired(L[i].ref, L) - Allocated(L[i].ref, L)
        BY <2>1, <2>2, LeftOfGrant
    <2>6. Expired(L[i].ref, L) + Allocated(L[i].ref, L) <= L[i].delta
        BY <2>3, <2>4, <2>5
    <2> QED
        BY <2>6 DEF L
<1>2. SeriallySound => ExpiryTakesOnlyUnspentPoints
    BY <1>1 DEF ExpiryTakesOnlyUnspentPoints, Expired, Allocated
<1> QED
    BY <1>2, InitSerially, NextSerially, PTL DEF Spec
====
