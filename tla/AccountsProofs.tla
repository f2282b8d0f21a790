--------------------------- MODULE AccountsProofs ---------------------------
(***************************************************************************)
(* Proofs about the account of a user, for any addresses, purposes,        *)
(* browsers, sessions, handlers and limits: first of the codes by mail     *)
(* (EmailChallenges), then of the sessions (DeviceSessions), then of the   *)
(* two side by side.                                                       *)
(***************************************************************************)
EXTENDS MCAccounts, FiniteSetTheorems, TLAPS

(***************************************************************************)
(* Codes.  Whoever is about to insert a code for the confirmation of an    *)
(* address holds the key of the address since before it looked; so the     *)
(* open codes it found are all there are, and the count it compared with   *)
(* the limit has not grown (Sending).                                      *)
(***************************************************************************)
Signup == "signup"

\* The codes of an address that are not consumed, and those of today.
OpenTo(a) == {c \in Unconsumed(Signup) : challenges[c].to = a}
TodayTo(a) == {c \in Rows : challenges[c].purpose = Signup /\ challenges[c].to = a /\ challenges[c].today}

\* Codes for an address may be sent by whoever will consume these.
Sending(a, consumed) == OpenTo(a) \subseteq consumed /\ SentToday(Signup, a) < DailyLimit

Asked == {"lock", "quota", "consume", "insert"}

Sound(h) ==
    /\ at[h] \in Asked => found[h].to \in Addresses /\ wish[h].purpose \in Purposes
    /\ at[h] \in Asked \ {"lock"} /\ wish[h].purpose = Signup => writes[h].key = found[h].to
    /\ at[h] \notin {"send", "commit"} => writes[h].made = 0
    /\ at[h] = "consume" /\ wish[h].purpose = Signup => Sending(found[h].to, found[h].old)
    /\ at[h] = "insert" /\ wish[h].purpose = Signup => Sending(found[h].to, writes[h].consumes)
    /\ writes[h].made # 0 =>
          /\ writes[h].made \notin Rows
          /\ writes[h].row.purpose \in Purposes /\ writes[h].row.to \in Addresses
          /\ writes[h].row.purpose = Signup =>
                writes[h].key = writes[h].row.to /\ Sending(writes[h].row.to, writes[h].consumes)
    /\ found[h].old \subseteq Rows /\ writes[h].consumes \subseteq Rows
    /\ at[h] \in {"code", "tidy", "consumeOne"} => wish[h].id \in Rows

\* No two hold a key, or make the same row.
Apart(g, h) ==
    /\ writes[g].key = writes[h].key => writes[g].key = Nothing
    /\ writes[g].made = writes[h].made => writes[g].made = 0

RowsOK == \A c \in Rows : challenges[c].purpose \in Purposes /\ challenges[c].to \in Addresses

IInv ==
    /\ TypeOK /\ RowsOK
    /\ \A h \in Handlers : Sound(h)
    /\ \A g, h \in Handlers : g # h => Apart(g, h)
    /\ OneOpenCode /\ SendLimit

Places == {"idle", "lock", "quota", "consume", "insert", "send", "code",
           "tidy", "consumeOne", "settle", "upsert", "commit"}
Wishes == [kind : {"none", "ask", "code", "link", "signin"}, auto : BOOLEAN,
           purpose : Purposes \cup {Nothing}, id : 0..MaxChallenges,
           to : Addresses \cup {Nothing}]
Finds == [to : Addresses \cup {Nothing}, old : SUBSET Ids]
Writes == [key : Addresses \cup {Nothing}, consumes : SUBSET Ids,
           made : 0..MaxChallenges, row : Row, confirms : BOOLEAN,
           moves : Addresses \cup {Nothing}, touches : BOOLEAN]

LEMMA Types ==
    ASSUME IInv
    PROVE  /\ address \in Addresses /\ confirmed \in BOOLEAN
           /\ challenges \in [Ids -> Row]
           /\ at \in [Handlers -> Places] /\ wish \in [Handlers -> Wishes]
           /\ found \in [Handlers -> Finds] /\ writes \in [Handlers -> Writes]
BY DEF IInv, TypeOK, Places, Wishes, Finds, Writes

LEMMA Nones ==
    ASSUME Bounds
    PROVE  /\ NoRow \in Row /\ NoWish \in Wishes /\ NoFind \in Finds /\ NoWrites \in Writes
           /\ 0 \notin Ids /\ 0 \in 0..MaxChallenges /\ Ids \subseteq 0..MaxChallenges
<1>1. 0 \notin Ids /\ 0 \in 0..MaxChallenges /\ Ids \subseteq 0..MaxChallenges
    BY DEF Bounds, Ids
<1>2. NoRow \in Row
    BY DEF NoRow, Row
<1>3. NoWish \in Wishes /\ NoFind \in Finds
    BY <1>1 DEF NoWish, NoFind, Wishes, Finds
<1>4. NoWrites \in Writes
    BY <1>1, <1>2 DEF NoWrites, Writes
<1> QED
    BY <1>1, <1>2, <1>3, <1>4

LEMMA FiniteIds == Bounds => \A T \in SUBSET Ids : IsFiniteSet(T) /\ Cardinality(T) \in Nat
<1> SUFFICES ASSUME Bounds, NEW T \in SUBSET Ids PROVE IsFiniteSet(T) /\ Cardinality(T) \in Nat
    OBVIOUS
<1>1. IsFiniteSet(Ids)
    BY FS_Interval DEF Bounds, Ids
<1>2. IsFiniteSet(T)
    BY <1>1, FS_Subset
<1> QED
    BY <1>2, FS_CardinalityType

\* SentToday counts the codes of today.
LEMMA Count == \A a : SentToday(Signup, a) = Cardinality(TodayTo(a))
BY DEF SentToday, TodayTo

-----------------------------------------------------------------------------
LEMMA InitInv == Bounds /\ Init => IInv
<1> SUFFICES ASSUME Bounds, Init PROVE IInv
    OBVIOUS
<1>1. Rows = {}
    BY DEF Init, Rows
<1>2. TypeOK
    BY Nones DEF Init, TypeOK, Wishes, Finds, Writes, NoWish
<1>3. ASSUME NEW h \in Handlers PROVE Sound(h)
    BY <1>1 DEF Init, Sound, Asked, NoFind, NoWrites
<1>4. ASSUME NEW g \in Handlers, NEW h \in Handlers PROVE Apart(g, h)
    BY DEF Init, Apart, NoWrites
<1>5. OneOpenCode
    BY <1>1 DEF OneOpenCode, Unconsumed
<1>6. SendLimit
    <2>1. \A a : TodayTo(a) = {}
        BY <1>1 DEF TodayTo
    <2> QED
        BY <2>1, Count, FS_EmptySet DEF SendLimit, Bounds, Signup
<1>7. RowsOK
    BY <1>1 DEF RowsOK
<1> QED
    BY <1>2, <1>3, <1>4, <1>5, <1>6, <1>7 DEF IInv

LEMMA SameTable ==
    ASSUME UNCHANGED challenges
    PROVE  /\ Rows' = Rows
           /\ \A a : OpenTo(a)' = OpenTo(a) /\ SentToday(Signup, a)' = SentToday(Signup, a)
BY DEF Rows, OpenTo, Unconsumed, SentToday

\* A step of one handler that does not commit.
LEMMA LocalStep ==
    ASSUME Bounds, IInv, NEW h \in Handlers,
           UNCHANGED <<address, confirmed, challenges>>,
           NEW p \in Places, NEW w \in Wishes, NEW f \in Finds, NEW x \in Writes,
           at' = [at EXCEPT ![h] = p], wish' = [wish EXCEPT ![h] = w],
           found' = [found EXCEPT ![h] = f], writes' = [writes EXCEPT ![h] = x],
           Sound(h)', \A g \in Handlers \ {h} : Apart(g, h)' /\ Apart(h, g)'
    PROVE  IInv'
<1>1. TypeOK'
    BY Types DEF TypeOK, Places, Wishes, Finds, Writes
<1>2. \A g \in Handlers \ {h} : at'[g] = at[g] /\ wish'[g] = wish[g] /\ found'[g] = found[g] /\ writes'[g] = writes[g]
    BY Types
<1>3. Rows' = Rows /\ \A a : OpenTo(a)' = OpenTo(a) /\ SentToday(Signup, a)' = SentToday(Signup, a)
    BY SameTable
<1>4. ASSUME NEW g \in Handlers PROVE Sound(g)'
    <2>1. CASE g = h
        BY <2>1
    <2>2. CASE g # h
        <3>1. Sound(g)
            BY DEF IInv
        <3> QED
            BY <1>2, <1>3, <2>2, <3>1 DEF Sound, Sending
    <2> QED
        BY <2>1, <2>2
<1>5. ASSUME NEW e \in Handlers, NEW g \in Handlers, e # g PROVE Apart(e, g)'
    <2>1. CASE e # h /\ g # h
        BY <1>2, <1>5, <2>1 DEF IInv, Apart
    <2>2. CASE e = h \/ g = h
        BY <1>5, <2>2
    <2> QED
        BY <2>1, <2>2
<1>6. OneOpenCode' /\ RowsOK'
    BY <1>3 DEF IInv, OneOpenCode, RowsOK, Unconsumed, Rows
<1>7. SendLimit'
    BY <1>3 DEF IInv, SendLimit, Signup
<1> QED
    BY <1>1, <1>4, <1>5, <1>6, <1>7 DEF IInv

-----------------------------------------------------------------------------
\* Codes that are consumed, or of yesterday, are in nobody's way.
LEMMA Fewer ==
    ASSUME Bounds, NEW a, OpenTo(a)' \subseteq OpenTo(a), TodayTo(a)' \subseteq TodayTo(a)
    PROVE  /\ SentToday(Signup, a)' <= SentToday(Signup, a)
           /\ SentToday(Signup, a) \in Nat /\ SentToday(Signup, a)' \in Nat
           /\ \A T : Sending(a, T) => Sending(a, T)'
<1>1. TodayTo(a) \in SUBSET Ids /\ TodayTo(a)' \in SUBSET Ids
    BY DEF TodayTo, Rows
<1>2. /\ IsFiniteSet(TodayTo(a)) /\ Cardinality(TodayTo(a)) \in Nat
      /\ Cardinality(TodayTo(a)') \in Nat
    BY <1>1, FiniteIds
<1>3. Cardinality(TodayTo(a)') <= Cardinality(TodayTo(a))
    BY <1>2, FS_Subset
<1>4. SentToday(Signup, a) = Cardinality(TodayTo(a)) /\ SentToday(Signup, a)' = Cardinality(TodayTo(a)')
    BY DEF SentToday, TodayTo
<1>5. DailyLimit \in Nat
    BY DEF Bounds
<1> QED
    BY <1>2, <1>3, <1>4, <1>5 DEF Sending

\* What a step of the table has to leave to a handler that does nothing.
LEMMA StillSound ==
    ASSUME Bounds, IInv, NEW g \in Handlers,
           at'[g] = at[g], wish'[g] = wish[g], found'[g] = found[g], writes'[g] = writes[g],
           Rows \subseteq Rows',
           writes[g].made # 0 => writes[g].made \notin Rows',
           \A a \in Addresses : \A T :
              writes[g].key = a /\ Sending(a, T) => Sending(a, T)'
    PROVE  Sound(g)'
<1>1. Sound(g)
    BY DEF IInv
<1>2. at[g] = "consume" /\ wish[g].purpose = Signup => Sending(found[g].to, found[g].old)'
    BY <1>1 DEF Sound, Asked
<1>3. at[g] = "insert" /\ wish[g].purpose = Signup => Sending(found[g].to, writes[g].consumes)'
    BY <1>1 DEF Sound, Asked
<1>4. writes[g].made # 0 /\ writes[g].row.purpose = Signup => Sending(writes[g].row.to, writes[g].consumes)'
    BY <1>1 DEF Sound
<1> QED
    BY <1>1, <1>2, <1>3, <1>4 DEF Sound, Asked, Sending

\* Time passes over the table.
LEMMA TimeStep ==
    ASSUME Bounds, IInv, UNCHANGED <<address, confirmed, at, wish, found, writes>>,
           challenges' \in [Ids -> Row], Rows' = Rows,
           \A c \in Rows :
              /\ challenges'[c].purpose = challenges[c].purpose /\ challenges'[c].to = challenges[c].to
              /\ challenges'[c].consumed = challenges[c].consumed
              /\ challenges'[c].today => challenges[c].today
    PROVE  IInv'
<1>1. \A a : OpenTo(a)' \subseteq OpenTo(a) /\ TodayTo(a)' \subseteq TodayTo(a)
    BY DEF OpenTo, TodayTo, Unconsumed
<1>2. TypeOK'
    BY Types DEF TypeOK, Places, Wishes, Finds, Writes
<1>3. ASSUME NEW g \in Handlers PROVE Sound(g)'
    <2>1. writes[g].made # 0 => writes[g].made \notin Rows
        BY DEF IInv, Sound
    <2> QED
        BY <1>1, <2>1, Fewer, StillSound
<1>4. ASSUME NEW e \in Handlers, NEW g \in Handlers, e # g PROVE Apart(e, g)'
    BY <1>4 DEF IInv, Apart
<1>5. OneOpenCode' /\ RowsOK'
    BY DEF IInv, OneOpenCode, RowsOK, Unconsumed
<1>6. SendLimit'
    <2> SUFFICES ASSUME NEW a \in Addresses PROVE SentToday(Signup, a)' <= DailyLimit
        BY DEF SendLimit, Signup
    <2>1. SentToday(Signup, a) <= DailyLimit
        BY DEF IInv, SendLimit, Signup
    <2>2. /\ SentToday(Signup, a)' <= SentToday(Signup, a)
          /\ SentToday(Signup, a) \in Nat /\ SentToday(Signup, a)' \in Nat
        BY <1>1, Fewer
    <2> QED
        BY <2>1, <2>2 DEF Bounds
<1> QED
    BY <1>2, <1>3, <1>4, <1>5, <1>6 DEF IInv

LEMMA ExpireInv ==
    ASSUME Bounds, IInv, NEW c \in Ids, Expire(c)
    PROVE  IInv'
<1>1. /\ c \in Rows /\ challenges' = [challenges EXCEPT ![c].expired = TRUE]
      /\ UNCHANGED <<address, confirmed, at, wish, found, writes>>
    BY DEF Expire
<1>2. challenges' = [challenges EXCEPT ![c] = [challenges[c] EXCEPT !.expired = TRUE]]
    BY <1>1, Types
<1>3. challenges[c] \in Row /\ [challenges[c] EXCEPT !.expired = TRUE] \in Row
    BY <1>1, Types DEF Row
<1>4. challenges' \in [Ids -> Row]
    BY <1>2, <1>3, Types
<1>5. challenges'[c] # NoRow
    BY <1>2, <1>3, Types DEF NoRow, Row
<1>6. Rows' = Rows
    BY <1>1, <1>2, <1>5, Types DEF Rows
<1>7. \A b \in Rows :
         /\ challenges'[b].purpose = challenges[b].purpose /\ challenges'[b].to = challenges[b].to
         /\ challenges'[b].consumed = challenges[b].consumed
         /\ challenges'[b].today => challenges[b].today
    BY <1>2, <1>3, Types DEF Rows, Row
<1> QED
    BY <1>1, <1>4, <1>6, <1>7, TimeStep

LEMMA NextDayInv ==
    ASSUME Bounds, IInv, NextDay
    PROVE  IInv'
<1>1. /\ challenges' = [c \in Ids |-> [challenges[c] EXCEPT !.today = FALSE]]
      /\ UNCHANGED <<address, confirmed, at, wish, found, writes>>
    BY DEF NextDay
<1>2. \A c \in Ids : challenges[c] \in Row /\ challenges'[c] \in Row
    BY <1>1, Types DEF Row
<1>3. challenges' \in [Ids -> Row]
    BY <1>1, <1>2
<1>4. \A c \in Ids :
         /\ challenges'[c].purpose = challenges[c].purpose /\ challenges'[c].to = challenges[c].to
         /\ challenges'[c].consumed = challenges[c].consumed
         /\ challenges'[c].today = FALSE
    BY <1>1, <1>2 DEF Row
<1>5. ASSUME NEW c \in Rows PROVE challenges'[c] # NoRow
    <2>1. challenges'[c].purpose \in Purposes
        BY <1>4 DEF IInv, RowsOK, Rows
    <2> QED
        BY <2>1 DEF NoRow, Bounds
<1>6. ASSUME NEW c \in Ids \ Rows PROVE challenges'[c] = NoRow
    <2>1. challenges'[c] = [challenges[c] EXCEPT !.today = FALSE] /\ challenges[c] = NoRow
        BY <1>1 DEF Rows
    <2>2. challenges[c] \in Row /\ challenges[c].today = FALSE
        BY <1>2, <2>1 DEF NoRow
    <2>3. [challenges[c] EXCEPT !.today = FALSE] = challenges[c]
        BY <2>2 DEF Row
    <2> QED
        BY <2>1, <2>3
<1>7. Rows' = Rows
    BY <1>5, <1>6 DEF Rows
<1>8. \A c \in Rows :
         /\ challenges'[c].purpose = challenges[c].purpose /\ challenges'[c].to = challenges[c].to
         /\ challenges'[c].consumed = challenges[c].consumed
         /\ challenges'[c].today => challenges[c].today
    BY <1>4 DEF Rows
<1> QED
    BY <1>1, <1>3, <1>7, <1>8, TimeStep

-----------------------------------------------------------------------------
\* A handler that holds nothing and has made nothing is sound anywhere but on
\* its way to a code.
LEMMA AbortInv ==
    ASSUME Bounds, IInv, NEW h \in Handlers, Abort(h)
    PROVE  IInv'
<1>1. /\ at' = [at EXCEPT ![h] = "idle"] /\ wish' = [wish EXCEPT ![h] = NoWish]
      /\ found' = [found EXCEPT ![h] = NoFind] /\ writes' = [writes EXCEPT ![h] = NoWrites]
      /\ UNCHANGED <<address, confirmed, challenges>>
    BY DEF Abort, Ended, Step
<1>2. at'[h] = "idle" /\ found'[h] = NoFind /\ writes'[h] = NoWrites
    BY <1>1, Types
<1>3. Sound(h)'
    BY <1>2 DEF Sound, Asked, NoFind, NoWrites
<1>4. \A g \in Handlers \ {h} : Apart(g, h)' /\ Apart(h, g)'
    BY <1>2 DEF Apart, NoWrites
<1>5. "idle" \in Places
    BY DEF Places
<1> QED
    BY <1>1, <1>3, <1>4, <1>5, Nones, LocalStep

\* Where a step leaves the keys and the rows made as they are, or gives them
\* up, they stay apart.
LEMMA StillApart ==
    ASSUME IInv, NEW h \in Handlers,
           \A g \in Handlers \ {h} : writes'[g] = writes[g],
           writes'[h].key = writes[h].key, writes'[h].made = writes[h].made
    PROVE  \A g \in Handlers \ {h} : Apart(g, h)' /\ Apart(h, g)'
BY DEF IInv, Apart

LEMMA AskInv ==
    ASSUME Bounds, IInv, NEW h \in Handlers, NEW p \in Purposes, NEW auto \in BOOLEAN, Ask(h, p, auto)
    PROVE  IInv'
<1> DEFINE s == IF p = "signup" THEN "lock" ELSE "quota"
           w == [NoWish EXCEPT !.kind = "ask", !.purpose = p, !.auto = auto]
           f == [found[h] EXCEPT !.to = address]
<1>1. /\ at[h] = "idle" /\ at' = [at EXCEPT ![h] = s]
      /\ wish' = [wish EXCEPT ![h] = w] /\ found' = [found EXCEPT ![h] = f]
      /\ UNCHANGED <<address, confirmed, challenges, writes>>
    BY DEF Ask, Step
<1>2. /\ s \in Places /\ w \in Wishes /\ f \in Finds /\ writes[h] \in Writes
      /\ w.purpose = p /\ f.to = address /\ f.old = found[h].old
    BY Types, Nones DEF Places, Wishes, Finds, NoWish
<1>3. s = (IF p = Signup THEN "lock" ELSE "quota")
    BY DEF Signup
<1> HIDE DEF s, w, f
<1>4. writes' = [writes EXCEPT ![h] = writes[h]]
    BY <1>1, Types
<1>5. /\ at'[h] = s /\ wish'[h] = w /\ found'[h] = f /\ writes'[h] = writes[h]
      /\ UNCHANGED challenges
    BY <1>1, Types
<1>6. Sound(h)'
    BY <1>1, <1>2, <1>3, <1>5, Types DEF IInv, Sound, Asked, Rows
<1>7. \A g \in Handlers \ {h} : Apart(g, h)' /\ Apart(h, g)'
    BY <1>1, StillApart
<1> QED
    BY <1>1, <1>2, <1>4, <1>6, <1>7, LocalStep

LEMMA LockRequestInv ==
    ASSUME Bounds, IInv, NEW h \in Handlers, LockRequest(h)
    PROVE  IInv'
<1> DEFINE x == [writes[h] EXCEPT !.key = found[h].to]
<1>1. /\ at[h] = "lock" /\ at' = [at EXCEPT ![h] = "quota"]
      /\ \A g \in Handlers \ {h} : writes[g].key # found[h].to
      /\ writes' = [writes EXCEPT ![h] = x]
      /\ UNCHANGED <<address, confirmed, challenges, wish, found>>
    BY DEF LockRequest, Step, Others
<1>2. /\ "quota" \in Places /\ wish[h] \in Wishes /\ found[h] \in Finds
      /\ writes[h] \in Writes /\ found[h].to \in Addresses
    BY <1>1, Types DEF Places, IInv, Sound, Asked
<1>3. /\ x \in Writes /\ x.key = found[h].to /\ x.made = writes[h].made
      /\ x.consumes = writes[h].consumes
    BY <1>2 DEF Writes
<1> HIDE DEF x
<1>4. wish' = [wish EXCEPT ![h] = wish[h]] /\ found' = [found EXCEPT ![h] = found[h]]
    BY <1>1, Types
<1>5. /\ at'[h] = "quota" /\ wish'[h] = wish[h] /\ found'[h] = found[h] /\ writes'[h] = x
      /\ \A g \in Handlers \ {h} : writes'[g] = writes[g]
    BY <1>1, Types
<1>6. writes[h].made = 0
    BY <1>1 DEF IInv, Sound
<1>7. Sound(h)'
    BY <1>1, <1>3, <1>5, <1>6 DEF IInv, Sound, Asked, Rows
<1>8. \A g \in Handlers \ {h} : Apart(g, h)' /\ Apart(h, g)'
    BY <1>1, <1>3, <1>5, <1>6 DEF IInv, Apart
<1> QED
    BY <1>1, <1>2, <1>3, <1>4, <1>7, <1>8, LocalStep

-----------------------------------------------------------------------------
(* From the key to the mail. *)

LEMMA CheckQuotaInv ==
    ASSUME Bounds, IInv, NEW h \in Handlers, CheckQuota(h)
    PROVE  IInv'
<1>1. /\ at[h] = "quota" /\ UNCHANGED <<address, confirmed, challenges, wish, writes>>
      /\ wish' = [wish EXCEPT ![h] = wish[h]] /\ writes' = [writes EXCEPT ![h] = writes[h]]
      /\ wish[h] \in Wishes /\ found[h] \in Finds /\ writes[h] \in Writes
    BY Types DEF CheckQuota
<1>2. \A g \in Handlers \ {h} : Apart(g, h)' /\ Apart(h, g)'
    BY <1>1, StillApart
<1>3. Sound(h) /\ writes[h].made = 0
    BY <1>1 DEF IInv, Sound
<1>4. CASE ~MustSend(h)
    <2>1. at' = [at EXCEPT ![h] = "commit"] /\ found' = [found EXCEPT ![h] = found[h]]
        BY <1>4, Types DEF CheckQuota, Step
    <2>2. at'[h] = "commit" /\ found'[h] = found[h] /\ "commit" \in Places
        BY <2>1, Types DEF Places
    <2>3. Sound(h)'
        BY <1>1, <1>3, <2>2 DEF Sound, Asked, Rows
    <2> QED
        BY <1>1, <1>2, <2>1, <2>2, <2>3, LocalStep
<1>5. CASE MustSend(h)
    <2> DEFINE f == [found[h] EXCEPT !.old = Unconsumed(wish[h].purpose)]
    <2>1. /\ SentToday(wish[h].purpose, found[h].to) < DailyLimit
          /\ at' = [at EXCEPT ![h] = "consume"] /\ found' = [found EXCEPT ![h] = f]
        BY <1>5, Types DEF CheckQuota, Step
    <2>2. Unconsumed(wish[h].purpose) \subseteq Rows /\ Rows \subseteq Ids
        BY DEF Unconsumed, Rows
    <2>3. /\ f \in Finds /\ f.to = found[h].to /\ f.old = Unconsumed(wish[h].purpose)
          /\ "consume" \in Places
        BY <1>1, <2>2 DEF Finds, Places
    <2> HIDE DEF f
    <2>4. at'[h] = "consume" /\ found'[h] = f
        BY <2>1, Types
    <2>5. wish[h].purpose = Signup => Sending(f.to, f.old)
        BY <2>1, <2>3 DEF Sending, OpenTo
    <2>6. Sound(h)'
        BY <1>1, <1>3, <2>2, <2>3, <2>4, <2>5, SameTable DEF Sound, Asked, Sending
    <2> QED
        BY <1>1, <1>2, <2>1, <2>3, <2>6, LocalStep
<1> QED
    BY <1>4, <1>5

LEMMA OverQuotaInv ==
    ASSUME Bounds, IInv, NEW h \in Handlers, OverQuota(h)
    PROVE  IInv'
<1>1. CASE wish[h].auto
    <2>1. /\ at[h] = "quota" /\ at' = [at EXCEPT ![h] = "commit"]
          /\ UNCHANGED <<address, confirmed, challenges, wish, found, writes>>
          /\ wish' = [wish EXCEPT ![h] = wish[h]] /\ writes' = [writes EXCEPT ![h] = writes[h]]
          /\ found' = [found EXCEPT ![h] = found[h]]
          /\ wish[h] \in Wishes /\ found[h] \in Finds /\ writes[h] \in Writes
        BY <1>1, Types DEF OverQuota, Step
    <2>2. at'[h] = "commit" /\ "commit" \in Places
        BY <2>1, Types DEF Places
    <2>3. Sound(h) /\ writes[h].made = 0
        BY <2>1 DEF IInv, Sound
    <2>4. Sound(h)'
        BY <2>1, <2>2, <2>3 DEF Sound, Asked, Rows
    <2>5. \A g \in Handlers \ {h} : Apart(g, h)' /\ Apart(h, g)'
        BY <2>1, StillApart
    <2> QED
        BY <2>1, <2>2, <2>4, <2>5, LocalStep
<1>2. CASE ~wish[h].auto
    BY <1>2, AbortInv DEF OverQuota
<1> QED
    BY <1>1, <1>2

LEMMA ConsumeOldInv ==
    ASSUME Bounds, IInv, NEW h \in Handlers, ConsumeOld(h)
    PROVE  IInv'
<1> DEFINE x == [writes[h] EXCEPT !.consumes = found[h].old]
           f == [found[h] EXCEPT !.old = {}]
<1>1. /\ at[h] = "consume" /\ at' = [at EXCEPT ![h] = "insert"]
      /\ writes' = [writes EXCEPT ![h] = x] /\ found' = [found EXCEPT ![h] = f]
      /\ UNCHANGED <<address, confirmed, challenges, wish>>
      /\ wish' = [wish EXCEPT ![h] = wish[h]] /\ "insert" \in Places
    BY Types DEF ConsumeOld, Step, Places
<1>2. wish[h] \in Wishes /\ found[h] \in Finds /\ writes[h] \in Writes
    BY Types
<1>3. /\ x \in Writes /\ x.key = writes[h].key /\ x.made = writes[h].made
      /\ x.consumes = found[h].old
      /\ f \in Finds /\ f.to = found[h].to /\ f.old = {}
    BY <1>2 DEF Writes, Finds
<1> HIDE DEF x, f
<1>4. /\ at'[h] = "insert" /\ wish'[h] = wish[h] /\ found'[h] = f /\ writes'[h] = x
      /\ \A g \in Handlers \ {h} : writes'[g] = writes[g]
    BY <1>1, Types
<1>5. Sound(h) /\ writes[h].made = 0
    BY <1>1 DEF IInv, Sound
<1>6. Sound(h)'
    <2>1. wish[h].purpose = Signup => Sending(found[h].to, found[h].old)
        BY <1>1, <1>5 DEF Sound
    <2> QED
        BY <1>1, <1>3, <1>4, <1>5, <2>1, SameTable DEF Sound, Asked, Sending
<1>7. \A g \in Handlers \ {h} : Apart(g, h)' /\ Apart(h, g)'
    BY <1>3, <1>4, StillApart
<1> QED
    BY <1>1, <1>2, <1>3, <1>6, <1>7, LocalStep

\* The row is new, and nobody else makes it.
LEMMA InsertChallengeInv ==
    ASSUME Bounds, IInv, NEW h \in Handlers, InsertChallenge(h)
    PROVE  IInv'
<1> DEFINE r == [purpose |-> wish[h].purpose, to |-> found[h].to, consumed |-> FALSE,
                 expired |-> FALSE, today |-> TRUE, sent |-> FALSE]
<1>1. PICK c \in Ids \ (Rows \cup {writes[g].made : g \in Handlers}) :
            writes' = [writes EXCEPT ![h].made = c, ![h].row = r]
    BY DEF InsertChallenge
<1> DEFINE x == [writes[h] EXCEPT !.made = c, !.row = r]
<1>2. /\ at[h] = "insert" /\ at' = [at EXCEPT ![h] = "send"]
      /\ found' = [found EXCEPT ![h] = NoFind]
      /\ UNCHANGED <<address, confirmed, challenges, wish>>
      /\ wish' = [wish EXCEPT ![h] = wish[h]] /\ "send" \in Places
    BY Types DEF InsertChallenge, Step, Places
<1>3. /\ wish[h] \in Wishes /\ writes[h] \in Writes /\ Sound(h)
      /\ found[h].to \in Addresses /\ wish[h].purpose \in Purposes
    BY <1>2, Types DEF IInv, Sound, Asked
<1>4. r \in Row /\ r.purpose = wish[h].purpose /\ r.to = found[h].to
    BY <1>3 DEF Row
<1> HIDE DEF r
<1>5. /\ x \in Writes /\ x.key = writes[h].key /\ x.made = c /\ x.row = r
      /\ x.consumes = writes[h].consumes
    BY <1>3, <1>4, Nones DEF Writes
<1>6. writes' = [writes EXCEPT ![h] = x]
    BY <1>1, <1>3, Types DEF Writes
<1> HIDE DEF x
<1>7. /\ at'[h] = "send" /\ wish'[h] = wish[h] /\ found'[h] = NoFind /\ writes'[h] = x
      /\ \A g \in Handlers \ {h} : writes'[g] = writes[g]
    BY <1>2, <1>6, Types
<1>8. wish[h].purpose = Signup => writes[h].key = found[h].to /\ Sending(found[h].to, writes[h].consumes)
    BY <1>2, <1>3 DEF Sound, Asked
<1>9. c \in Ids /\ c \notin Rows /\ c # 0 /\ \A g \in Handlers : writes[g].made # c
    BY <1>1, Nones
<1>10. Sound(h)'
    <2>1. NoFind.old \subseteq Rows
        BY DEF NoFind
    <2>2. writes[h].consumes \subseteq Rows
        BY <1>3 DEF Sound
    <2> QED
        BY <1>3, <1>4, <1>5, <1>7, <1>8, <1>9, <2>1, <2>2, <1>2, SameTable DEF Sound, Asked, Sending
<1>11. \A g \in Handlers \ {h} : Apart(g, h)' /\ Apart(h, g)'
    <2> SUFFICES ASSUME NEW g \in Handlers \ {h} PROVE Apart(g, h)' /\ Apart(h, g)'
        OBVIOUS
    <2>1. Apart(g, h) /\ Apart(h, g)
        BY DEF IInv
    <2> QED
        BY <1>5, <1>7, <1>9, <2>1 DEF Apart
<1> QED
    BY <1>2, <1>3, <1>5, <1>6, <1>10, <1>11, Nones, LocalStep

\* The mail goes out, or does not; the draft stays as it is otherwise.
LEMMA SendMailInv ==
    ASSUME Bounds, IInv, NEW h \in Handlers, SendMail(h) \/ SendFails(h)
    PROVE  IInv'
<1>1. CASE SendMail(h)
    <2> DEFINE r == [writes[h].row EXCEPT !.sent = TRUE]
               x == [writes[h] EXCEPT !.row = r]
    <2>1. /\ at[h] = "send" /\ at' = [at EXCEPT ![h] = "commit"]
          /\ wish' = [wish EXCEPT ![h] = NoWish]
          /\ UNCHANGED <<address, confirmed, challenges, found>>
          /\ writes' = [writes EXCEPT ![h].row.sent = TRUE]
          /\ found' = [found EXCEPT ![h] = found[h]] /\ "commit" \in Places
        BY <1>1, Types DEF SendMail, Step, Places
    <2>2. writes[h] \in Writes /\ writes[h].row \in Row /\ found[h] \in Finds /\ Sound(h)
        BY Types DEF Writes, IInv
    <2>3. r \in Row /\ r.purpose = writes[h].row.purpose /\ r.to = writes[h].row.to
        BY <2>2 DEF Row
    <2>4. writes' = [writes EXCEPT ![h] = x]
        BY <2>1, <2>2, Types DEF Writes
    <2> HIDE DEF r
    <2>5. /\ x \in Writes /\ x.key = writes[h].key /\ x.made = writes[h].made /\ x.row = r
          /\ x.consumes = writes[h].consumes
        BY <2>2, <2>3 DEF Writes
    <2> HIDE DEF x
    <2>6. /\ at'[h] = "commit" /\ wish'[h] = NoWish /\ found'[h] = found[h] /\ writes'[h] = x
          /\ \A g \in Handlers \ {h} : writes'[g] = writes[g]
        BY <2>1, <2>4, Types
    <2>7. Sound(h)'
        BY <2>2, <2>3, <2>5, <2>6, <2>1, SameTable DEF Sound, Asked, Sending
    <2>8. \A g \in Handlers \ {h} : Apart(g, h)' /\ Apart(h, g)'
        BY <2>5, <2>6, StillApart
    <2> QED
        BY <2>1, <2>2, <2>4, <2>5, <2>7, <2>8, Nones, LocalStep
<1>2. CASE SendFails(h) /\ wish[h].auto
    <2>1. /\ at[h] = "send" /\ at' = [at EXCEPT ![h] = "commit"]
          /\ UNCHANGED <<address, confirmed, challenges, wish, found, writes>>
          /\ wish' = [wish EXCEPT ![h] = wish[h]] /\ writes' = [writes EXCEPT ![h] = writes[h]]
          /\ found' = [found EXCEPT ![h] = found[h]]
          /\ wish[h] \in Wishes /\ found[h] \in Finds /\ writes[h] \in Writes
        BY <1>2, Types DEF SendFails, Step
    <2>2. at'[h] = "commit" /\ "commit" \in Places
        BY <2>1, Types DEF Places
    <2>3. Sound(h)
        BY DEF IInv
    <2>4. Sound(h)'
        BY <2>1, <2>2, <2>3, SameTable DEF Sound, Asked, Sending
    <2>5. \A g \in Handlers \ {h} : Apart(g, h)' /\ Apart(h, g)'
        BY <2>1, StillApart
    <2> QED
        BY <2>1, <2>2, <2>4, <2>5, LocalStep
<1>3. CASE SendFails(h) /\ ~wish[h].auto
    BY <1>3, AbortInv DEF SendFails
<1> QED
    BY <1>1, <1>2, <1>3

-----------------------------------------------------------------------------
(* A code comes back, or the user signs in: nothing is made. *)

\* Steps of handlers that have made nothing and keep their key and codes.
LEMMA QuietStep ==
    ASSUME Bounds, IInv, NEW h \in Handlers,
           UNCHANGED <<address, confirmed, challenges>>,
           NEW p \in Places \ Asked, NEW w \in Wishes, NEW f \in Finds, NEW x \in Writes,
           at' = [at EXCEPT ![h] = p], wish' = [wish EXCEPT ![h] = w],
           found' = [found EXCEPT ![h] = f], writes' = [writes EXCEPT ![h] = x],
           writes[h].made = 0, x.made = 0, x.key = writes[h].key,
           f.old \subseteq Rows, x.consumes \subseteq Rows,
           p \in {"code", "tidy", "consumeOne"} => w.id \in Rows
    PROVE  IInv'
<1>1. /\ at'[h] = p /\ wish'[h] = w /\ found'[h] = f /\ writes'[h] = x
      /\ \A g \in Handlers \ {h} : writes'[g] = writes[g]
    BY Types
<1>2. Sound(h)'
    BY <1>1, SameTable DEF Sound, Asked
<1>3. \A g \in Handlers \ {h} : Apart(g, h)' /\ Apart(h, g)'
    BY <1>1, StillApart
<1> QED
    BY <1>2, <1>3, LocalStep

LEMMA ReturnedInv ==
    ASSUME Bounds, IInv, NEW h \in Handlers, NEW c \in Ids, ReturnCode(h, c) \/ FollowLink(h, c)
    PROVE  IInv'
<1>1. PICK kind \in {"code", "link"}, p \in {"code", "tidy", "consumeOne"} :
            /\ Returned(h, kind, c) /\ at' = [at EXCEPT ![h] = p]
            /\ UNCHANGED <<address, confirmed, challenges, writes>>
    BY DEF ReturnCode, FollowLink, Step
<1> DEFINE w == [NoWish EXCEPT !.kind = kind, !.id = c, !.purpose = challenges[c].purpose]
           f == [found[h] EXCEPT !.to = address]
<1>2. /\ at[h] = "idle" /\ c \in Rows /\ wish' = [wish EXCEPT ![h] = w]
      /\ found' = [found EXCEPT ![h] = f] /\ writes' = [writes EXCEPT ![h] = writes[h]]
    BY <1>1, Types DEF Returned
<1>3. p \in Places \ Asked
    BY DEF Places, Asked
<1>4. w \in Wishes /\ w.id = c
    BY Types, Nones DEF Wishes, NoWish, Row
<1>5. f \in Finds /\ f.old = found[h].old /\ writes[h] \in Writes
    BY Types DEF Finds
<1>6. writes[h].made = 0 /\ found[h].old \subseteq Rows /\ writes[h].consumes \subseteq Rows
    BY <1>2 DEF IInv, Sound
<1> HIDE DEF w, f
<1> QED
    BY <1>1, <1>2, <1>3, <1>4, <1>5, <1>6, QuietStep

LEMMA CompareCodeInv ==
    ASSUME Bounds, IInv, NEW h \in Handlers, CompareCode(h) \/ WrongCode(h)
    PROVE  IInv'
<1>1. CASE CompareCode(h)
    <2>1. /\ at[h] = "code" /\ at' = [at EXCEPT ![h] = "consumeOne"]
          /\ UNCHANGED <<address, confirmed, challenges, wish, found, writes>>
          /\ wish' = [wish EXCEPT ![h] = wish[h]] /\ writes' = [writes EXCEPT ![h] = writes[h]]
          /\ found' = [found EXCEPT ![h] = found[h]]
          /\ wish[h] \in Wishes /\ found[h] \in Finds /\ writes[h] \in Writes
        BY <1>1, Types DEF CompareCode, Step
    <2>2. /\ writes[h].made = 0 /\ found[h].old \subseteq Rows /\ writes[h].consumes \subseteq Rows
          /\ wish[h].id \in Rows
        BY <2>1 DEF IInv, Sound
    <2>3. "consumeOne" \in Places \ Asked
        BY DEF Places, Asked
    <2> QED
        BY <2>1, <2>2, <2>3, QuietStep
<1>2. CASE WrongCode(h)
    BY <1>2, AbortInv DEF WrongCode
<1> QED
    BY <1>1, <1>2

LEMMA ConsumeOneInv ==
    ASSUME Bounds, IInv, NEW h \in Handlers, ConsumeOne(h)
    PROVE  IInv'
<1> DEFINE p == IF at[h] = "tidy" THEN "commit" ELSE "settle"
           x == [writes[h] EXCEPT !.consumes = {wish[h].id}]
<1>1. /\ at[h] \in {"consumeOne", "tidy"} /\ at' = [at EXCEPT ![h] = p]
      /\ UNCHANGED <<address, confirmed, challenges>>
      /\ wish' = [wish EXCEPT ![h] = wish[h]] /\ writes' = [writes EXCEPT ![h] = x]
      /\ found' = [found EXCEPT ![h] = NoFind]
      /\ wish[h] \in Wishes /\ writes[h] \in Writes
    BY Types DEF ConsumeOne, Step
<1>2. writes[h].made = 0 /\ wish[h].id \in Rows
    BY <1>1 DEF IInv, Sound
<1>3. x \in Writes /\ x.made = 0 /\ x.key = writes[h].key /\ x.consumes \subseteq Rows
    BY <1>1, <1>2 DEF Writes, Rows
<1>4. p \in Places \ Asked /\ p \notin {"code", "tidy", "consumeOne"} /\ NoFind.old \subseteq Rows
    BY DEF Places, Asked, NoFind
<1> HIDE DEF p, x
<1> QED
    BY <1>1, <1>2, <1>3, <1>4, Nones, QuietStep

\* The row of the user is written.
LEMMA UserInv ==
    ASSUME Bounds, IInv, NEW h \in Handlers, Settle(h) \/ Upsert(h)
    PROVE  IInv'
<1>1. PICK x \in Writes :
            /\ writes' = [writes EXCEPT ![h] = x]
            /\ x.made = writes[h].made /\ x.key = writes[h].key /\ x.consumes = writes[h].consumes
    <2>1. writes[h] \in Writes /\ wish[h] \in Wishes
        BY Types
    <2>2. CASE Settle(h)
        <3> DEFINE x == [writes[h] EXCEPT !.confirms = (wish[h].purpose = "signup"), !.touches = TRUE]
        <3>1. writes' = [writes EXCEPT ![h] = x]
            BY <2>1, <2>2, Types DEF Settle, Writes
        <3>2. x \in Writes /\ x.made = writes[h].made /\ x.key = writes[h].key /\ x.consumes = writes[h].consumes
            BY <2>1 DEF Writes
        <3> QED
            BY <3>1, <3>2
    <2>3. CASE Upsert(h)
        <3> DEFINE m == IF wish[h].to = address THEN Nothing ELSE wish[h].to
                   x == [writes[h] EXCEPT !.moves = m, !.touches = TRUE]
        <3>1. writes' = [writes EXCEPT ![h] = x]
            BY <2>1, <2>3, Types DEF Upsert, Writes
        <3>2. m \in Addresses \cup {Nothing}
            BY <2>1 DEF Wishes
        <3> HIDE DEF m
        <3>3. x \in Writes /\ x.made = writes[h].made /\ x.key = writes[h].key /\ x.consumes = writes[h].consumes
            BY <2>1, <3>2 DEF Writes
        <3> QED
            BY <3>1, <3>3
    <2> QED
        BY <2>2, <2>3
<1>2. /\ at[h] \in {"settle", "upsert"} /\ at' = [at EXCEPT ![h] = "commit"]
      /\ UNCHANGED <<address, confirmed, challenges>>
      /\ wish' = [wish EXCEPT ![h] = NoWish] /\ found' = [found EXCEPT ![h] = found[h]]
      /\ found[h] \in Finds
    BY Types DEF Settle, Upsert, Step
<1>3. writes[h].made = 0 /\ found[h].old \subseteq Rows /\ writes[h].consumes \subseteq Rows
    BY <1>2 DEF IInv, Sound
<1>4. "commit" \in Places \ Asked
    BY DEF Places, Asked
<1> QED
    BY <1>1, <1>2, <1>3, <1>4, Nones, QuietStep

LEMMA SignInInv ==
    ASSUME Bounds, IInv, NEW h \in Handlers, NEW a \in Addresses, SignIn(h, a)
    PROVE  IInv'
<1> DEFINE w == [NoWish EXCEPT !.kind = "signin", !.to = a]
<1>1. /\ at[h] = "idle" /\ at' = [at EXCEPT ![h] = "upsert"]
      /\ UNCHANGED <<address, confirmed, challenges>>
      /\ wish' = [wish EXCEPT ![h] = w] /\ writes' = [writes EXCEPT ![h] = writes[h]]
      /\ found' = [found EXCEPT ![h] = found[h]]
      /\ found[h] \in Finds /\ writes[h] \in Writes
    BY Types DEF SignIn, Step
<1>2. writes[h].made = 0 /\ found[h].old \subseteq Rows /\ writes[h].consumes \subseteq Rows
    BY <1>1 DEF IInv, Sound
<1>3. w \in Wishes
    BY Nones DEF Wishes, NoWish
<1>4. "upsert" \in Places \ Asked
    BY DEF Places, Asked
<1> HIDE DEF w
<1> QED
    BY <1>1, <1>2, <1>3, <1>4, QuietStep

-----------------------------------------------------------------------------
\* What a commit does to the table.
LEMMA Committed ==
    ASSUME Bounds, IInv, NEW h \in Handlers, Commit(h)
    PROVE  /\ challenges' \in [Ids -> Row]
           /\ Rows' = IF writes[h].made = 0 THEN Rows ELSE Rows \cup {writes[h].made}
           /\ writes[h].made # 0 => challenges'[writes[h].made] = writes[h].row
           /\ \A c \in Rows :
                 /\ challenges'[c].purpose = challenges[c].purpose /\ challenges'[c].to = challenges[c].to
                 /\ challenges'[c].today = challenges[c].today
                 /\ challenges'[c].consumed <=> challenges[c].consumed \/ c \in writes[h].consumes
<1> DEFINE w == writes[h]
<1>1. /\ w \in Writes /\ w.row \in Row /\ w.made \in 0..MaxChallenges
      /\ w.consumes \subseteq Rows /\ (w.made # 0 => w.made \notin Rows /\ w.made \in Ids)
    BY Types DEF Writes, IInv, Sound, Ids, Bounds
<1>2. challenges' = [c \in Ids |-> IF c = w.made THEN w.row
                                   ELSE IF c \in w.consumes THEN [challenges[c] EXCEPT !.consumed = TRUE]
                                   ELSE challenges[c]]
    BY DEF Commit
<1>3. \A c \in Ids : challenges[c] \in Row
    BY Types
<1>4. challenges' \in [Ids -> Row]
    BY <1>1, <1>2, <1>3 DEF Row
<1>5. ASSUME NEW c \in Rows
      PROVE  /\ challenges'[c].purpose = challenges[c].purpose /\ challenges'[c].to = challenges[c].to
             /\ challenges'[c].today = challenges[c].today
             /\ challenges'[c].consumed <=> challenges[c].consumed \/ c \in w.consumes
    <2>1. c \in Ids /\ c # w.made
        BY <1>1, Nones DEF Rows
    <2>2. challenges[c] \in Row
        BY <1>3, <2>1
    <2>3. challenges'[c] = IF c \in w.consumes THEN [challenges[c] EXCEPT !.consumed = TRUE] ELSE challenges[c]
        BY <1>2, <2>1
    <2> QED
        BY <2>2, <2>3 DEF Row
<1>6. w.made # 0 => challenges'[w.made] = w.row
    BY <1>1, <1>2
<1>7. \A c \in Rows : c \in Rows'
    <2> SUFFICES ASSUME NEW c \in Rows PROVE challenges'[c] # NoRow /\ c \in Ids
        BY DEF Rows
    <2>1. challenges'[c].purpose \in Purposes
        BY <1>5 DEF IInv, RowsOK
    <2> QED
        BY <2>1 DEF NoRow, Bounds, Rows
<1>8. \A c \in Ids \ Rows : c # w.made => c \notin Rows'
    BY <1>1, <1>2 DEF Rows
<1>9. w.made # 0 => w.made \in Rows'
    <2> SUFFICES ASSUME w.made # 0 PROVE w.row # NoRow
        BY <1>1, <1>6 DEF Rows
    <2>1. w.row.purpose \in Purposes
        BY DEF IInv, Sound
    <2> QED
        BY <2>1 DEF NoRow, Bounds
<1>10. Rows \subseteq Ids /\ Rows' \subseteq Ids
    BY DEF Rows
<1>11. Rows' = IF w.made = 0 THEN Rows ELSE Rows \cup {w.made}
    <2>1. CASE w.made = 0
        BY <1>7, <1>8, <1>10, <2>1, Nones
    <2>2. CASE w.made # 0
        BY <1>1, <1>7, <1>8, <1>9, <1>10, <2>2
    <2> QED
        BY <2>1, <2>2
<1> QED
    BY <1>4, <1>5, <1>6, <1>11

\* Of the addresses only that of a new code for a confirmation gets more.
LEMMA CommitShrinks ==
    ASSUME Bounds, IInv, NEW h \in Handlers, Commit(h), NEW a,
           ~(writes[h].made # 0 /\ writes[h].row.purpose = Signup /\ writes[h].row.to = a)
    PROVE  OpenTo(a)' \subseteq OpenTo(a) /\ TodayTo(a)' \subseteq TodayTo(a)
<1>1. ASSUME NEW c \in Rows', challenges'[c].purpose = Signup, challenges'[c].to = a
      PROVE  c \in Rows
    BY <1>1, Committed
<1>2. OpenTo(a)' \subseteq OpenTo(a)
    BY <1>1, Committed DEF OpenTo, Unconsumed
<1>3. TodayTo(a)' \subseteq TodayTo(a)
    BY <1>1, Committed DEF TodayTo
<1> QED
    BY <1>2, <1>3

LEMMA CommitInv ==
    ASSUME Bounds, IInv, NEW h \in Handlers, Commit(h)
    PROVE  IInv'
<1> DEFINE w == writes[h]
           a == w.row.to
           New == w.made # 0 /\ w.row.purpose = Signup
<1>1. /\ at' = [at EXCEPT ![h] = "idle"] /\ wish' = [wish EXCEPT ![h] = NoWish]
      /\ found' = [found EXCEPT ![h] = NoFind] /\ writes' = [writes EXCEPT ![h] = NoWrites]
    BY DEF Commit, Ended, Step
<1>2. w \in Writes /\ Sound(h)
    BY Types DEF IInv
<1>3. TypeOK'
    <2>1. address' \in Addresses
        BY <1>2, Types DEF Commit, AddressAfter, Writes
    <2>2. confirmed' \in BOOLEAN
        BY DEF Commit
    <2>3. at' \in [Handlers -> Places] /\ wish' \in [Handlers -> Wishes]
        BY <1>1, Types, Nones DEF Places
    <2>4. found' \in [Handlers -> Finds] /\ writes' \in [Handlers -> Writes]
        BY <1>1, Types, Nones
    <2> QED
        BY <2>1, <2>2, <2>3, <2>4, Committed DEF TypeOK, Places, Wishes, Finds, Writes
<1>4. /\ at'[h] = "idle" /\ found'[h] = NoFind /\ writes'[h] = NoWrites
      /\ \A g \in Handlers \ {h} :
            at'[g] = at[g] /\ wish'[g] = wish[g] /\ found'[g] = found[g] /\ writes'[g] = writes[g]
    BY <1>1, Types
<1>5. Rows \subseteq Rows'
    BY Committed
<1>6. New => w.key = a /\ a \in Addresses /\ Sending(a, w.consumes)
    BY <1>2 DEF Sound
<1>7. ASSUME NEW g \in Handlers PROVE Sound(g)'
    <2>1. CASE g = h
        BY <1>4, <2>1 DEF Sound, Asked, NoFind, NoWrites
    <2>2. CASE g # h
        <3>1. Apart(g, h) /\ Sound(g)
            BY <2>2 DEF IInv
        <3>2. writes[g].made # 0 => writes[g].made \notin Rows'
            BY <3>1, Committed DEF Apart, Sound
        <3>3. ASSUME NEW b \in Addresses, NEW T, writes[g].key = b, Sending(b, T)
              PROVE  Sending(b, T)'
            <4>1. ~(New /\ a = b)
                BY <1>6, <3>1, <3>3 DEF Apart, Bounds
            <4> QED
                BY <3>3, <4>1, CommitShrinks, Fewer
        <3> QED
            BY <1>4, <1>5, <2>2, <3>2, <3>3, StillSound
    <2> QED
        BY <2>1, <2>2
<1>8. ASSUME NEW e \in Handlers, NEW g \in Handlers, e # g PROVE Apart(e, g)'
    <2>1. CASE e # h /\ g # h
        BY <1>4, <1>8, <2>1 DEF IInv, Apart
    <2>2. CASE e = h \/ g = h
        BY <1>4, <1>8, <2>2 DEF Apart, NoWrites
    <2> QED
        BY <2>1, <2>2
<1>9. RowsOK'
    BY <1>2, Committed DEF IInv, RowsOK, Sound
<1>10. OneOpenCode'
    <2>1. ASSUME NEW c \in Unconsumed(Signup)', c \in Rows
          PROVE  c \in Unconsumed(Signup) /\ challenges'[c].to = challenges[c].to /\ c \notin w.consumes
        BY <2>1, Committed DEF Unconsumed
    <2>2. ASSUME NEW c \in Unconsumed(Signup)', c \notin Rows
          PROVE  New /\ c = w.made /\ challenges'[c].to = a
        BY <2>2, Committed DEF Unconsumed
    <2>3. ASSUME NEW c \in Unconsumed(Signup)', c \in Rows, New
          PROVE  challenges'[c].to # a
        BY <1>6, <2>1, <2>3 DEF Sending, OpenTo
    <2>4. ASSUME NEW c \in Unconsumed(Signup), NEW d \in Unconsumed(Signup),
                 challenges[c].to = challenges[d].to
          PROVE  c = d
        BY <2>4 DEF IInv, OneOpenCode, Signup
    <2>5. ASSUME NEW c \in Unconsumed(Signup)', NEW d \in Unconsumed(Signup)',
                 challenges'[c].to = challenges'[d].to
          PROVE  c = d
        <3>1. CASE c \in Rows /\ d \in Rows
            BY <2>1, <2>4, <2>5, <3>1
        <3>2. CASE c \notin Rows /\ d \notin Rows
            BY <2>2, <3>2
        <3>3. CASE c \in Rows /\ d \notin Rows
            BY <2>2, <2>3, <2>5, <3>3
        <3>4. CASE c \notin Rows /\ d \in Rows
            BY <2>2, <2>3, <2>5, <3>4
        <3> QED
            BY <3>1, <3>2, <3>3, <3>4
    <2> QED
        BY <2>5 DEF OneOpenCode, Signup
<1>11. SendLimit'
    <2> SUFFICES ASSUME NEW b \in Addresses PROVE SentToday(Signup, b)' <= DailyLimit
        BY DEF SendLimit, Signup
    <2>1. SentToday(Signup, b) <= DailyLimit /\ DailyLimit \in Nat
        BY DEF IInv, SendLimit, Signup, Bounds
    <2>2. CASE ~(New /\ a = b)
        <3>1. OpenTo(b)' \subseteq OpenTo(b) /\ TodayTo(b)' \subseteq TodayTo(b)
            BY <2>2, CommitShrinks
        <3>2. /\ SentToday(Signup, b)' <= SentToday(Signup, b)
              /\ SentToday(Signup, b) \in Nat /\ SentToday(Signup, b)' \in Nat
            BY <3>1, Fewer
        <3> QED
            BY <2>1, <3>2
    <2>3. CASE New /\ a = b
        <3>1. TodayTo(b)' \subseteq TodayTo(b) \cup {w.made}
            <4>1. Rows' \subseteq Rows \cup {w.made}
                BY Committed
            <4>2. \A c \in Rows :
                     /\ challenges'[c].purpose = challenges[c].purpose /\ challenges'[c].to = challenges[c].to
                     /\ challenges'[c].today = challenges[c].today
                BY Committed
            <4> HIDE DEF w
            <4> QED
                BY <4>1, <4>2 DEF TodayTo
        <3>2. TodayTo(b) \in SUBSET Ids /\ TodayTo(b)' \in SUBSET Ids
            BY DEF TodayTo, Rows
        <3>3. /\ IsFiniteSet(TodayTo(b)) /\ Cardinality(TodayTo(b)) \in Nat
              /\ Cardinality(TodayTo(b)') \in Nat
            BY <3>2, FiniteIds
        <3>4. /\ IsFiniteSet(TodayTo(b) \cup {w.made})
              /\ Cardinality(TodayTo(b) \cup {w.made}) <= Cardinality(TodayTo(b)) + 1
            <4> DEFINE T == TodayTo(b)
            <4> HIDE DEF T, w
            <4>1. IsFiniteSet(T) /\ Cardinality(T) \in Nat
                BY <3>3 DEF T
            <4>2. /\ IsFiniteSet(T \cup {w.made})
                  /\ Cardinality(T \cup {w.made}) =
                        IF w.made \in T THEN Cardinality(T) ELSE Cardinality(T) + 1
                BY <4>1, FS_AddElement
            <4>3. Cardinality(T \cup {w.made}) <= Cardinality(T) + 1
                BY <4>1, <4>2
            <4> QED
                BY <4>2, <4>3 DEF T
        <3>5. Cardinality(TodayTo(b) \cup {w.made}) \in Nat
            BY <3>4, FS_CardinalityType
        <3>6. Cardinality(TodayTo(b)') <= Cardinality(TodayTo(b) \cup {w.made})
            BY <3>1, <3>4, FS_Subset
        <3>7. SentToday(Signup, b) = Cardinality(TodayTo(b)) /\ SentToday(Signup, b)' = Cardinality(TodayTo(b)')
            BY DEF SentToday, TodayTo
        <3>8. SentToday(Signup, b) < DailyLimit
            BY <1>6, <2>3 DEF Sending
        <3> QED
            BY <2>1, <3>3, <3>4, <3>5, <3>6, <3>7, <3>8
    <2> QED
        BY <2>2, <2>3
<1> QED
    BY <1>3, <1>7, <1>8, <1>9, <1>10, <1>11 DEF IInv

-----------------------------------------------------------------------------
LEMMA NextInv == Bounds /\ IInv /\ [Next]_vars => IInv'
<1> SUFFICES ASSUME Bounds, IInv, [Next]_vars PROVE IInv'
    OBVIOUS
<1>1. CASE UNCHANGED vars
    <2>1. Rows' = Rows /\ challenges' \in [Ids -> Row]
        BY <1>1, Types DEF vars, Rows
    <2> QED
        BY <1>1, <2>1, TimeStep DEF vars
<1>2. CASE NextDay
    BY <1>2, NextDayInv
<1>3. ASSUME NEW c \in Ids, Expire(c) PROVE IInv'
    BY <1>3, ExpireInv
<1>4. ASSUME NEW h \in Handlers,
             \/ \E p \in Purposes, auto \in BOOLEAN : Ask(h, p, auto)
             \/ \E c \in Ids : ReturnCode(h, c) \/ FollowLink(h, c)
             \/ \E a \in Addresses : SignIn(h, a)
      PROVE  IInv'
    BY <1>4, AskInv, ReturnedInv, SignInInv
<1>5. ASSUME NEW h \in Handlers,
             \/ LockRequest(h) \/ CheckQuota(h) \/ OverQuota(h)
             \/ ConsumeOld(h) \/ InsertChallenge(h) \/ SendMail(h) \/ SendFails(h)
      PROVE  IInv'
    BY <1>5, LockRequestInv, CheckQuotaInv, OverQuotaInv, ConsumeOldInv, InsertChallengeInv, SendMailInv
<1>6. ASSUME NEW h \in Handlers,
             \/ CompareCode(h) \/ WrongCode(h) \/ ConsumeOne(h) \/ Settle(h) \/ Upsert(h)
             \/ Commit(h) \/ Abort(h)
      PROVE  IInv'
    BY <1>6, CompareCodeInv, ConsumeOneInv, UserInv, CommitInv, AbortInv
<1> QED
    BY <1>1, <1>2, <1>3, <1>4, <1>5, <1>6 DEF Next


-----------------------------------------------------------------------------
(***************************************************************************)
(* Sessions.  No session, and none that is about to be written, is of a    *)
(* version that is yet to come; so a new version leaves every session      *)
(* behind.  And the resets whose password is stored but whose version is   *)
(* not yet counted make up the difference between the two (Counted).       *)
(***************************************************************************)
Resetting == {h \in Handlers : job[h].kind = "reset"}

Counted == version - 1 + Cardinality(Resetting) <= password

SessionSound(h) ==
    /\ phase[h] = "idle" => job[h].kind = "none"
    /\ phase[h] = "rotate" => job[h].kind = "reset"
    /\ pending[h].resets => job[h].kind = "reset"
    /\ phase[h] \in {"touch", "elevate"} => mine[h] \in Sessions
    /\ phase[h] = "reuse" => job[h].browser \in Browsers
    /\ pending[h].row.version <= version

SessionInv ==
    /\ Device!TypeOK /\ Counted
    /\ \A h \in Handlers : SessionSound(h)
    /\ \A s \in Sessions : sessions[s].version <= version

Phases == {"idle", "touch", "reuse", "elevate", "aim", "revoke", "rotate", "commit"}
Jobs == [kind : Device!Kinds \cup {"none", "reset"}, browser : Browsers \cup {Nobody}]
Drafts == [session : Sessions \cup {Nobody}, token : 0..MaxTokens, row : Device!Row,
           holds : SUBSET Sessions, revokes : SUBSET Sessions,
           elevates : BOOLEAN, resets : BOOLEAN]

LEMMA SessionTypes ==
    ASSUME SessionInv
    PROVE  /\ version \in 1..MaxResets + 1 /\ password \in 0..MaxResets /\ tokens \in 0..MaxTokens
           /\ sessions \in [Sessions -> Device!Row] /\ cookie \in [Browsers -> 0..MaxTokens]
           /\ phase \in [Handlers -> Phases] /\ job \in [Handlers -> Jobs]
           /\ mine \in [Handlers -> Sessions \cup {Nobody}] /\ aim \in [Handlers -> SUBSET Sessions]
           /\ pending \in [Handlers -> Drafts]
BY DEF SessionInv, Device!TypeOK, Phases, Jobs, Drafts

LEMMA SessionNones ==
    ASSUME Device!Bounds
    PROVE  Device!NoJob \in Jobs /\ Device!Unused \in Device!Row /\ Device!NoPending \in Drafts
<1>1. Device!Unused \in Device!Row
    BY DEF Device!Bounds, Device!Unused, Device!Row
<1> QED
    BY <1>1 DEF Device!Bounds, Device!NoJob, Device!NoPending, Jobs, Drafts

LEMMA FiniteResetting ==
    Device!Bounds => \A T \in SUBSET Handlers : IsFiniteSet(T) /\ Cardinality(T) \in Nat
<1> SUFFICES ASSUME Device!Bounds, NEW T \in SUBSET Handlers PROVE IsFiniteSet(T) /\ Cardinality(T) \in Nat
    OBVIOUS
<1>1. IsFiniteSet(Handlers)
    BY DEF Device!Bounds, Device!IsFiniteSet, IsFiniteSet
<1>2. IsFiniteSet(T)
    BY <1>1, FS_Subset
<1> QED
    BY <1>2, FS_CardinalityType

-----------------------------------------------------------------------------
LEMMA SessionInitInv == Device!Bounds /\ Device!Init => SessionInv
<1> SUFFICES ASSUME Device!Bounds, Device!Init PROVE SessionInv
    OBVIOUS
<1>1. Device!TypeOK
    BY SessionNones DEF Device!Bounds, Device!Init, Device!TypeOK, Jobs, Drafts
<1>2. Resetting = {}
    BY DEF Device!Init, Resetting, Device!NoJob
<1>3. Counted
    BY <1>2, FS_EmptySet DEF Device!Init, Counted
<1>4. \A h \in Handlers : SessionSound(h)
    BY DEF Device!Init, SessionSound, Device!NoJob, Device!NoPending, Device!Unused
<1>5. \A s \in Sessions : sessions[s].version <= version
    BY DEF Device!Init, Device!Unused
<1> QED
    BY <1>1, <1>3, <1>4, <1>5 DEF SessionInv

\* A step of one handler that does not touch sessions or version.
LEMMA SessionLocalStep ==
    ASSUME Device!Bounds, SessionInv, NEW h \in Handlers,
           UNCHANGED <<version, sessions, cookie>>,
           tokens' \in 0..MaxTokens, password' \in 0..MaxResets,
           NEW p \in Phases, NEW j \in Jobs, NEW m \in Sessions \cup {Nobody},
           NEW a \in SUBSET Sessions, NEW x \in Drafts,
           phase' = [phase EXCEPT ![h] = p], job' = [job EXCEPT ![h] = j],
           mine' = [mine EXCEPT ![h] = m], aim' = [aim EXCEPT ![h] = a],
           pending' = [pending EXCEPT ![h] = x],
           \/ password' = password /\ (j.kind = "reset" => job[h].kind = "reset")
           \/ password' = password + 1,
           SessionSound(h)'
    PROVE  SessionInv'
<1>1. Device!TypeOK'
    BY SessionTypes DEF Device!TypeOK, Phases, Jobs, Drafts
<1>2. /\ job'[h] = j
      /\ \A g \in Handlers \ {h} :
            /\ phase'[g] = phase[g] /\ job'[g] = job[g] /\ mine'[g] = mine[g]
            /\ aim'[g] = aim[g] /\ pending'[g] = pending[g]
    BY SessionTypes
<1>3. \A g \in Handlers : SessionSound(g)'
    BY <1>2 DEF SessionInv, SessionSound
<1>4. /\ Resetting \in SUBSET Handlers /\ Resetting' \in SUBSET Handlers
      /\ Resetting' \subseteq Resetting \cup {h}
    BY <1>2 DEF Resetting
<1>5. /\ IsFiniteSet(Resetting) /\ Cardinality(Resetting) \in Nat
      /\ IsFiniteSet(Resetting') /\ Cardinality(Resetting') \in Nat
    BY <1>4, FiniteResetting
<1>6. version \in Nat /\ password \in Nat /\ version - 1 + Cardinality(Resetting) <= password
    BY SessionTypes DEF SessionInv, Counted, Device!Bounds
<1>7. Counted'
    <2>1. CASE password' = password /\ (j.kind = "reset" => job[h].kind = "reset")
        <3>1. Resetting' \subseteq Resetting
            BY <1>2, <2>1 DEF Resetting
        <3>2. Cardinality(Resetting') <= Cardinality(Resetting)
            BY <1>5, <3>1, FS_Subset
        <3> QED
            BY <1>5, <1>6, <2>1, <3>2 DEF Counted
    <2>2. CASE password' = password + 1
        <3>1. /\ IsFiniteSet(Resetting \cup {h})
              /\ Cardinality(Resetting \cup {h}) =
                    IF h \in Resetting THEN Cardinality(Resetting) ELSE Cardinality(Resetting) + 1
            BY <1>5, FS_AddElement
        <3>2. Cardinality(Resetting') <= Cardinality(Resetting \cup {h})
            BY <1>4, <3>1, FS_Subset
        <3>3. Cardinality(Resetting') <= Cardinality(Resetting) + 1
            BY <1>5, <3>1, <3>2
        <3> QED
            BY <1>5, <1>6, <2>2, <3>3 DEF Counted
    <2> QED
        BY <2>1, <2>2
<1>8. \A s \in Sessions : (sessions[s].version <= version)'
    BY DEF SessionInv
<1> QED
    BY <1>1, <1>3, <1>7, <1>8 DEF SessionInv

\* What does not change, written as a change of one handler.
LEMMA Same ==
    ASSUME SessionInv, NEW h \in Handlers
    PROVE  /\ phase[h] \in Phases /\ job[h] \in Jobs /\ mine[h] \in Sessions \cup {Nobody}
           /\ aim[h] \in SUBSET Sessions /\ pending[h] \in Drafts
           /\ job = [job EXCEPT ![h] = job[h]] /\ mine = [mine EXCEPT ![h] = mine[h]]
           /\ aim = [aim EXCEPT ![h] = aim[h]] /\ pending = [pending EXCEPT ![h] = pending[h]]
           /\ tokens \in 0..MaxTokens /\ password \in 0..MaxResets
           /\ SessionSound(h)
BY SessionTypes DEF SessionInv

\* A step of a request that goes on.
LEMMA WorkStep ==
    ASSUME Device!Bounds, SessionInv, NEW h \in Handlers,
           UNCHANGED <<version, password, sessions, cookie, job, mine>>,
           tokens' \in 0..MaxTokens,
           NEW p \in Phases, phase' = [phase EXCEPT ![h] = p],
           aim' = aim \/ \E a \in SUBSET Sessions : aim' = [aim EXCEPT ![h] = a],
           pending' = pending \/ \E x \in Drafts : pending' = [pending EXCEPT ![h] = x],
           SessionSound(h)'
    PROVE  SessionInv'
<1>1. PICK a \in SUBSET Sessions : aim' = [aim EXCEPT ![h] = a]
    BY Same
<1>2. PICK x \in Drafts : pending' = [pending EXCEPT ![h] = x]
    BY Same
<1>3. job' = [job EXCEPT ![h] = job[h]] /\ mine' = [mine EXCEPT ![h] = mine[h]] /\ password' = password
    BY Same
<1>4. job[h] \in Jobs /\ mine[h] \in Sessions \cup {Nobody} /\ password' \in 0..MaxResets
    BY <1>3, Same
<1> QED
    BY <1>1, <1>2, <1>3, <1>4, SessionLocalStep

LEMMA SessionAbortInv ==
    ASSUME Device!Bounds, SessionInv, NEW h \in Handlers, Device!Abort(h)
    PROVE  SessionInv'
<1>1. /\ phase' = [phase EXCEPT ![h] = "idle"] /\ job' = [job EXCEPT ![h] = Device!NoJob]
      /\ mine' = [mine EXCEPT ![h] = Nobody] /\ aim' = [aim EXCEPT ![h] = {}]
      /\ pending' = [pending EXCEPT ![h] = Device!NoPending]
      /\ UNCHANGED <<version, password, sessions, cookie, tokens>>
    BY DEF Device!Abort, Device!Over, Device!Enter, Device!Tables
<1>2. SessionSound(h)'
    BY <1>1, SessionTypes DEF SessionSound, Device!NoJob, Device!NoPending, Device!Unused, Device!Bounds
<1>3. "idle" \in Phases /\ Device!NoJob.kind # "reset"
    BY DEF Phases, Device!NoJob
<1> QED
    BY <1>1, <1>2, <1>3, SessionNones, Same, SessionLocalStep

\* A request arrives: its session is found, or it will bootstrap one.
LEMMA ArriveInv ==
    ASSUME Device!Bounds, SessionInv, NEW h \in Handlers, NEW b \in Browsers,
           (\E kind \in Device!Kinds : Device!Evaluate(h, kind, b)) \/ Device!Bootstrap(h, b)
    PROVE  SessionInv'
<1>1. PICK kind \in Device!Kinds, p \in {"touch", "reuse"}, m \in Sessions \cup {Nobody} :
            /\ job' = [job EXCEPT ![h] = [kind |-> kind, browser |-> b]]
            /\ phase' = [phase EXCEPT ![h] = p]
            /\ mine' = [mine EXCEPT ![h] = m]
            /\ p = "touch" => m \in Sessions
    <2>1. ASSUME NEW kind \in Device!Kinds, Device!Evaluate(h, kind, b)
          PROVE  \E m \in Sessions :
                    /\ job' = [job EXCEPT ![h] = [kind |-> kind, browser |-> b]]
                    /\ phase' = [phase EXCEPT ![h] = "touch"]
                    /\ mine' = [mine EXCEPT ![h] = m]
        BY <2>1 DEF Device!Evaluate, Device!Arrive, Device!Enter, Device!With
    <2>2. CASE Device!Bootstrap(h, b)
        BY <2>2, Same DEF Device!Bootstrap, Device!Arrive, Device!Enter, Device!Kinds
    <2> QED
        BY <2>1, <2>2
<1>2. /\ phase[h] = "idle" /\ UNCHANGED <<version, password, sessions, cookie, tokens, aim, pending>>
    BY DEF Device!Evaluate, Device!Bootstrap, Device!Arrive, Device!Tables
<1>3. [kind |-> kind, browser |-> b] \in Jobs /\ kind # "reset" /\ p \in Phases
    BY DEF Jobs, Device!Kinds, Phases
<1>4. ~pending[h].resets
    BY <1>2 DEF SessionInv, SessionSound
<1>5. SessionSound(h)'
    BY <1>1, <1>2, <1>4, SessionTypes DEF SessionInv, SessionSound
<1>6. [kind |-> kind, browser |-> b].kind # "reset" /\ password' = password
    BY <1>2, <1>3
<1>7. /\ aim[h] \in SUBSET Sessions /\ pending[h] \in Drafts
      /\ aim' = [aim EXCEPT ![h] = aim[h]] /\ pending' = [pending EXCEPT ![h] = pending[h]]
      /\ tokens' \in 0..MaxTokens /\ password' \in 0..MaxResets
    BY <1>2, Same
<1> QED
    BY <1>1, <1>2, <1>3, <1>5, <1>6, <1>7, SessionLocalStep

LEMMA TouchInv ==
    ASSUME Device!Bounds, SessionInv, NEW h \in Handlers, Device!Touch(h)
    PROVE  SessionInv'
<1> DEFINE p == CASE job[h].kind = "page" -> "commit" [] job[h].kind = "elevate" -> "elevate" [] OTHER -> "aim"
           x == [pending[h] EXCEPT !.holds = {mine[h]}]
<1>1. /\ phase[h] = "touch" /\ phase' = [phase EXCEPT ![h] = p] /\ pending' = [pending EXCEPT ![h] = x]
      /\ UNCHANGED <<version, password, sessions, cookie, tokens, job, mine, aim>>
    BY DEF Device!Touch, Device!Enter, Device!Tables
<1>2. p \in {"commit", "elevate", "aim"}
    OBVIOUS
<1>3. mine[h] \in Sessions /\ SessionSound(h) /\ pending[h] \in Drafts
    BY <1>1, Same DEF SessionSound
<1>4. /\ x \in Drafts /\ x.resets = pending[h].resets /\ x.row = pending[h].row
    BY <1>3 DEF Drafts
<1> HIDE DEF p, x
<1>5. SessionSound(h)'
    BY <1>1, <1>2, <1>3, <1>4, SessionTypes DEF SessionSound
<1>6. p \in Phases
    BY <1>2 DEF Phases
<1> QED
    BY <1>1, <1>4, <1>5, <1>6, Same, WorkStep

\* A session is taken over, or made, of the version there is.
LEMMA BootstrapInv ==
    ASSUME Device!Bounds, SessionInv, NEW h \in Handlers, Device!Reuse(h) \/ Device!InsertSession(h)
    PROVE  SessionInv'
<1>1. /\ phase[h] = "reuse" /\ tokens < MaxTokens /\ tokens' = tokens + 1
      /\ phase' = [phase EXCEPT ![h] = "commit"]
      /\ UNCHANGED <<version, password, sessions, cookie, job, mine, aim>>
    BY DEF Device!Reuse, Device!InsertSession, Device!Enter
<1>2. tokens' \in 0..MaxTokens
    BY <1>1, SessionTypes DEF Device!Bounds
<1>3. PICK x \in Drafts :
            pending' = [pending EXCEPT ![h] = x] /\ x.resets = pending[h].resets /\ x.row.version <= version
    <2>1. pending[h] \in Drafts /\ pending[h].row.version <= version
        BY Same DEF SessionSound
    <2>2. CASE Device!Reuse(h)
        <3>1. PICK s \in Sessions :
                pending' = [pending EXCEPT ![h].session = s, ![h].token = tokens', ![h].holds = {s}]
            BY <2>2 DEF Device!Reuse, Device!Reusable
        <3> DEFINE x == [pending[h] EXCEPT !.session = s, !.token = tokens', !.holds = {s}]
        <3>2. pending' = [pending EXCEPT ![h] = x]
            BY <2>1, <3>1, SessionTypes DEF Drafts
        <3>3. x \in Drafts /\ x.resets = pending[h].resets /\ x.row = pending[h].row
            BY <1>2, <2>1 DEF Drafts
        <3> QED
            BY <2>1, <3>2, <3>3
    <2>3. CASE Device!InsertSession(h)
        <3> DEFINE r == [Device!Unused EXCEPT !.token = tokens', !.version = version, !.device = Device!Device(h)]
        <3>1. PICK s \in Sessions :
                pending' = [pending EXCEPT ![h].session = s, ![h].token = tokens', ![h].holds = {s}, ![h].row = r]
            BY <2>3 DEF Device!InsertSession
        <3>2. Device!Device(h) \in Browsers
            BY <1>1, Same DEF Device!Bounds, SessionSound, Device!Device
        <3>3. r \in Device!Row /\ r.version = version
            <4>1. version \in 0..MaxResets + 1
                BY SessionTypes DEF Device!Bounds
            <4>2. Device!Device(h) \in Browsers \cup {Nobody}
                BY <3>2
            <4>3. Device!Unused \in Device!Row
                BY SessionNones
            <4> QED
                BY <1>2, <4>1, <4>2, <4>3 DEF Device!Row
        <3> HIDE DEF r
        <3> DEFINE x == [pending[h] EXCEPT !.session = s, !.token = tokens', !.holds = {s}, !.row = r]
        <3>4. pending' = [pending EXCEPT ![h] = x]
            BY <2>1, <3>1, SessionTypes DEF Drafts
        <3>5. x \in Drafts /\ x.resets = pending[h].resets /\ x.row = r
            BY <1>2, <2>1, <3>3 DEF Drafts
        <3>6. version <= version
            BY SessionTypes DEF Device!Bounds
        <3> QED
            BY <3>3, <3>4, <3>5, <3>6
    <2> QED
        BY <2>2, <2>3
<1>4. SessionSound(h)'
    BY <1>1, <1>3, SessionTypes, Same DEF SessionSound
<1>5. "commit" \in Phases
    BY DEF Phases
<1> QED
    BY <1>1, <1>2, <1>3, <1>4, <1>5, Same, WorkStep

LEMMA ElevateInv ==
    ASSUME Device!Bounds, SessionInv, NEW h \in Handlers, Device!Elevate(h)
    PROVE  SessionInv'
<1> DEFINE x == [pending[h] EXCEPT !.session = mine[h], !.elevates = TRUE]
<1>1. /\ phase[h] = "elevate" /\ phase' = [phase EXCEPT ![h] = "commit"]
      /\ UNCHANGED <<version, password, sessions, cookie, tokens, job, mine, aim>>
    BY DEF Device!Elevate, Device!Enter, Device!Tables
<1>2. pending' = [pending EXCEPT ![h] = x]
    BY SessionTypes DEF Device!Elevate, Drafts
<1>3. x \in Drafts /\ x.resets = pending[h].resets /\ x.row = pending[h].row
    BY <1>1, Same DEF SessionSound, Drafts
<1> HIDE DEF x
<1>4. SessionSound(h)'
    BY <1>1, <1>2, <1>3, SessionTypes, Same DEF SessionSound
<1>5. "commit" \in Phases
    BY DEF Phases
<1> QED
    BY <1>1, <1>2, <1>3, <1>4, <1>5, Same, WorkStep

LEMMA AimInv ==
    ASSUME Device!Bounds, SessionInv, NEW h \in Handlers, Device!Aim(h)
    PROVE  SessionInv'
<1>1. /\ phase[h] = "aim" /\ phase' = [phase EXCEPT ![h] = "revoke"]
      /\ UNCHANGED <<version, password, sessions, cookie, tokens, job, mine, pending>>
    BY DEF Device!Aim, Device!Enter, Device!Tables
<1>2. PICK a \in SUBSET Sessions : aim' = [aim EXCEPT ![h] = a]
    <2>1. CASE job[h].kind = "others"
        BY <2>1 DEF Device!Aim, Device!Rows
    <2>2. CASE job[h].kind = "one"
        BY <2>2 DEF Device!Aim, Device!Rows
    <2>3. CASE job[h].kind \notin {"others", "one"}
        BY <2>3 DEF Device!Aim, Device!Rows
    <2> QED
        BY <2>1, <2>2, <2>3
<1>3. SessionSound(h)'
    BY <1>1, SessionTypes, Same DEF SessionSound
<1>4. "revoke" \in Phases
    BY DEF Phases
<1> QED
    BY <1>1, <1>2, <1>3, <1>4, Same, WorkStep

LEMMA RevokeInv ==
    ASSUME Device!Bounds, SessionInv, NEW h \in Handlers, Device!Revoke(h)
    PROVE  SessionInv'
<1> DEFINE x == [pending[h] EXCEPT !.revokes = {s \in aim[h] : Device!Open(s)}, !.holds = @ \cup aim[h]]
<1>1. /\ phase[h] = "revoke" /\ phase' = [phase EXCEPT ![h] = "commit"]
      /\ aim' = [aim EXCEPT ![h] = {}]
      /\ UNCHANGED <<version, password, sessions, cookie, tokens, job, mine>>
    BY DEF Device!Revoke, Device!Enter, Device!Tables
<1>2. pending' = [pending EXCEPT ![h] = x]
    BY SessionTypes DEF Device!Revoke, Drafts
<1>3. x \in Drafts /\ x.resets = pending[h].resets /\ x.row = pending[h].row
    <2>1. pending[h] \in Drafts /\ aim[h] \in SUBSET Sessions
        BY Same
    <2> DEFINE R == {s \in aim[h] : Device!Open(s)}
               H == pending[h].holds \cup aim[h]
    <2>2. R \in SUBSET Sessions /\ H \in SUBSET Sessions
        BY <2>1 DEF Drafts
    <2> HIDE DEF R, H
    <2>3. [pending[h] EXCEPT !.revokes = R, !.holds = H] \in Drafts
        BY <2>1, <2>2 DEF Drafts
    <2>4. x = [pending[h] EXCEPT !.revokes = R, !.holds = H]
        BY DEF R, H
    <2> QED
        BY <2>1, <2>3, <2>4 DEF Drafts
<1> HIDE DEF x
<1>4. SessionSound(h)'
    BY <1>1, <1>2, <1>3, SessionTypes, Same DEF SessionSound
<1>5. "commit" \in Phases
    BY DEF Phases
<1> QED
    BY <1>1, <1>2, <1>3, <1>4, <1>5, Same, WorkStep

\* The password is stored at once, and the reset counted from then on.
LEMMA StorePasswordInv ==
    ASSUME Device!Bounds, SessionInv, NEW h \in Handlers, NEW b \in Browsers, Device!StorePassword(h, b)
    PROVE  SessionInv'
<1> DEFINE j == [kind |-> "reset", browser |-> b]
<1>1. /\ phase[h] = "idle" /\ phase' = [phase EXCEPT ![h] = "rotate"] /\ job' = [job EXCEPT ![h] = j]
      /\ password < MaxResets /\ password' = password + 1
      /\ UNCHANGED <<version, sessions, cookie, tokens, mine, aim, pending>>
    BY DEF Device!StorePassword, Device!Arrive, Device!Enter
<1>2. j \in Jobs /\ "rotate" \in Phases /\ password' \in 0..MaxResets
    BY <1>1, SessionTypes DEF Jobs, Phases, Device!Bounds
<1>3. SessionSound(h)'
    BY <1>1, SessionTypes, Same DEF SessionSound
<1>4. /\ mine' = [mine EXCEPT ![h] = mine[h]] /\ aim' = [aim EXCEPT ![h] = aim[h]]
      /\ pending' = [pending EXCEPT ![h] = pending[h]]
      /\ mine[h] \in Sessions \cup {Nobody} /\ aim[h] \in SUBSET Sessions /\ pending[h] \in Drafts
    BY <1>1, Same
<1>5. tokens' \in 0..MaxTokens
    BY <1>1, Same
<1> HIDE DEF j
<1> QED
    BY <1>1, <1>2, <1>3, <1>4, <1>5, SessionLocalStep

LEMMA RotateVersionInv ==
    ASSUME Device!Bounds, SessionInv, NEW h \in Handlers, Device!RotateVersion(h)
    PROVE  SessionInv'
<1> DEFINE x == [pending[h] EXCEPT !.resets = TRUE]
<1>1. /\ phase[h] = "rotate" /\ phase' = [phase EXCEPT ![h] = "aim"]
      /\ pending' = [pending EXCEPT ![h] = x]
      /\ UNCHANGED <<version, password, sessions, cookie, tokens, job, mine, aim>>
    BY SessionTypes DEF Device!RotateVersion, Device!Enter, Device!Tables
<1>2. x \in Drafts /\ x.row = pending[h].row
    BY Same DEF Drafts
<1> HIDE DEF x
<1>3. SessionSound(h)'
    BY <1>1, <1>2, SessionTypes, Same DEF SessionSound
<1>4. "aim" \in Phases
    BY DEF Phases
<1> QED
    BY <1>1, <1>2, <1>3, <1>4, Same, WorkStep

-----------------------------------------------------------------------------
LEMMA AgeInv ==
    ASSUME Device!Bounds, SessionInv, NEW s \in Sessions, Device!Age(s)
    PROVE  SessionInv'
<1>1. UNCHANGED <<version, password, cookie, tokens, phase, job, mine, aim, pending>>
    BY DEF Device!Age
<1>2. PICK r \in Device!Row : sessions' = [sessions EXCEPT ![s] = r] /\ r.version = sessions[s].version
    <2>1. sessions[s] \in Device!Row
        BY SessionTypes
    <2>2. CASE sessions' = [sessions EXCEPT ![s].elevated = FALSE]
        <3> DEFINE r == [sessions[s] EXCEPT !.elevated = FALSE]
        <3>1. r \in Device!Row /\ r.version = sessions[s].version
            BY <2>1 DEF Device!Row
        <3> QED
            BY <2>2, <3>1, SessionTypes
    <2>3. CASE sessions' = [sessions EXCEPT ![s].old = TRUE]
        <3> DEFINE r == [sessions[s] EXCEPT !.old = TRUE]
        <3>1. r \in Device!Row /\ r.version = sessions[s].version
            BY <2>1 DEF Device!Row
        <3> QED
            BY <2>3, <3>1, SessionTypes
    <2> QED
        BY <2>2, <2>3 DEF Device!Age
<1>3. Device!TypeOK'
    BY <1>1, <1>2, SessionTypes DEF Device!TypeOK, Phases, Jobs, Drafts
<1>4. \A t \in Sessions : (sessions[t].version <= version)'
    BY <1>1, <1>2, SessionTypes DEF SessionInv
<1>5. Counted' /\ \A h \in Handlers : SessionSound(h)'
    BY <1>1 DEF SessionInv, Counted, Resetting, SessionSound
<1> QED
    BY <1>3, <1>4, <1>5 DEF SessionInv

\* What a commit writes is of no later version than there was.
LEMMA SessionCommitted ==
    ASSUME Device!Bounds, SessionInv, NEW h \in Handlers, Device!Commit(h)
    PROVE  /\ sessions' \in [Sessions -> Device!Row]
           /\ \A s \in Sessions : sessions'[s].version <= version
<1> DEFINE p == pending[h]
<1>1. p \in Drafts /\ p.row \in Device!Row /\ p.token \in 0..MaxTokens /\ p.row.version <= version
    BY Same DEF Drafts, SessionSound
<1>2. sessions' = [s \in Sessions |->
              IF s \in p.revokes THEN [sessions[s] EXCEPT !.revoked = TRUE]
              ELSE IF s # p.session THEN sessions[s]
              ELSE IF p.elevates THEN [sessions[s] EXCEPT !.elevated = TRUE]
              ELSE IF p.row # Device!Unused THEN p.row
              ELSE [sessions[s] EXCEPT !.token = p.token]]
    BY DEF Device!Commit
<1> HIDE DEF p
<1>3. ASSUME NEW s \in Sessions
      PROVE  sessions'[s] \in Device!Row /\ sessions'[s].version <= version
    <2>1. sessions[s] \in Device!Row /\ sessions[s].version <= version
        BY SessionTypes DEF SessionInv
    <2>2. /\ [sessions[s] EXCEPT !.revoked = TRUE] \in Device!Row
          /\ [sessions[s] EXCEPT !.revoked = TRUE].version = sessions[s].version
          /\ [sessions[s] EXCEPT !.elevated = TRUE] \in Device!Row
          /\ [sessions[s] EXCEPT !.elevated = TRUE].version = sessions[s].version
        BY <2>1 DEF Device!Row
    <2>3. /\ [sessions[s] EXCEPT !.token = p.token] \in Device!Row
          /\ [sessions[s] EXCEPT !.token = p.token].version = sessions[s].version
        BY <1>1, <2>1 DEF Device!Row
    <2>4. sessions'[s] \in {[sessions[s] EXCEPT !.revoked = TRUE], sessions[s],
                            [sessions[s] EXCEPT !.elevated = TRUE], p.row,
                            [sessions[s] EXCEPT !.token = p.token]}
        BY <1>2
    <2> QED
        BY <1>1, <2>1, <2>2, <2>3, <2>4
<1> QED
    BY <1>2, <1>3

\* A new version has been counted as a reset until now.
LEMMA Raised ==
    ASSUME Device!Bounds, SessionInv, NEW h \in Handlers, Device!Commit(h)
    PROVE  /\ version' \in {version, version + 1}
           /\ version' # version => version <= password
           /\ version' - 1 + Cardinality(Resetting') <= password
           /\ Cardinality(Resetting') \in Nat
<1>1. job' = [job EXCEPT ![h] = Device!NoJob] /\ version' = IF pending[h].resets THEN version + 1 ELSE version
    BY DEF Device!Commit, Device!Over
<1>2. Resetting' = Resetting \ {h}
    BY <1>1, SessionTypes DEF Resetting, Device!NoJob
<1>3. Resetting \in SUBSET Handlers /\ Resetting' \in SUBSET Handlers
    BY DEF Resetting
<1>4. /\ IsFiniteSet(Resetting) /\ Cardinality(Resetting) \in Nat
      /\ Cardinality(Resetting') \in Nat
    BY <1>3, FiniteResetting
<1>5. Cardinality(Resetting') = IF h \in Resetting THEN Cardinality(Resetting) - 1 ELSE Cardinality(Resetting)
    BY <1>2, <1>4, FS_RemoveElement
<1>6. pending[h].resets => h \in Resetting
    BY Same DEF SessionSound, Resetting
<1>7. version \in Nat /\ password \in Nat /\ version - 1 + Cardinality(Resetting) <= password
    BY SessionTypes DEF SessionInv, Counted, Device!Bounds
<1> HIDE DEF Resetting
<1>8. CASE pending[h].resets
    <2>1. /\ version' = version + 1 /\ Cardinality(Resetting') = Cardinality(Resetting) - 1
        BY <1>1, <1>5, <1>6, <1>8
    <2> QED
        BY <1>4, <1>7, <2>1
<1>9. CASE ~pending[h].resets
    <2>1. version' = version /\ Cardinality(Resetting') <= Cardinality(Resetting)
        BY <1>1, <1>4, <1>5, <1>9
    <2> QED
        BY <1>4, <1>7, <2>1
<1> QED
    BY <1>8, <1>9

LEMMA SessionCommitInv ==
    ASSUME Device!Bounds, SessionInv, NEW h \in Handlers, Device!Commit(h)
    PROVE  SessionInv'
<1>1. /\ phase' = [phase EXCEPT ![h] = "idle"] /\ job' = [job EXCEPT ![h] = Device!NoJob]
      /\ mine' = [mine EXCEPT ![h] = Nobody] /\ aim' = [aim EXCEPT ![h] = {}]
      /\ pending' = [pending EXCEPT ![h] = Device!NoPending]
      /\ UNCHANGED <<password, tokens>>
    BY DEF Device!Commit, Device!Over, Device!Enter
<1>2. version \in Nat /\ version' \in Nat /\ version <= version' /\ version' \in 1..MaxResets + 1
    BY Raised, SessionTypes DEF Device!Bounds
<1>3. cookie' \in [Browsers -> 0..MaxTokens]
    BY SessionTypes DEF Device!Commit, Drafts
<1>4. Device!TypeOK'
    BY <1>1, <1>2, <1>3, SessionCommitted, SessionTypes, SessionNones DEF Device!TypeOK, Phases, Jobs, Drafts
<1>5. Counted'
    BY <1>1, Raised DEF Counted
<1>6. ASSUME NEW g \in Handlers PROVE SessionSound(g)'
    <2>1. CASE g = h
        BY <1>1, <1>2, <2>1, SessionTypes DEF SessionSound, Device!NoJob, Device!NoPending, Device!Unused
    <2>2. CASE g # h
        <3>1. /\ phase'[g] = phase[g] /\ job'[g] = job[g] /\ mine'[g] = mine[g] /\ pending'[g] = pending[g]
            BY <1>1, <2>2, SessionTypes
        <3>2. pending[g] \in Drafts /\ pending[g].row.version \in Nat /\ SessionSound(g)
            BY Same DEF Drafts, Device!Row, Device!Bounds
        <3> QED
            BY <1>2, <3>1, <3>2 DEF SessionSound
    <2> QED
        BY <2>1, <2>2
<1>7. ASSUME NEW s \in Sessions PROVE sessions'[s].version <= version'
    <2>1. sessions'[s].version \in Nat /\ sessions'[s].version <= version
        BY SessionCommitted DEF Device!Row, Device!Bounds
    <2> QED
        BY <1>2, <2>1
<1> QED
    BY <1>4, <1>5, <1>6, <1>7 DEF SessionInv

-----------------------------------------------------------------------------
LEMMA SessionNextInv == Device!Bounds /\ SessionInv /\ [Device!Next]_(Device!vars) => SessionInv'
<1> SUFFICES ASSUME Device!Bounds, SessionInv, [Device!Next]_(Device!vars) PROVE SessionInv'
    OBVIOUS
<1>1. CASE UNCHANGED Device!vars
    BY <1>1 DEF Device!vars, SessionInv, Device!TypeOK, Counted, Resetting, SessionSound
<1>2. ASSUME NEW s \in Sessions, Device!Age(s) PROVE SessionInv'
    BY <1>2, AgeInv
<1>3. ASSUME NEW h \in Handlers, NEW b \in Browsers,
             \/ \E kind \in Device!Kinds : Device!Evaluate(h, kind, b)
             \/ Device!Bootstrap(h, b) \/ Device!StorePassword(h, b)
      PROVE  SessionInv'
    BY <1>3, ArriveInv, StorePasswordInv
<1>4. ASSUME NEW h \in Handlers,
             \/ Device!Touch(h) \/ Device!NotElevated(h) \/ Device!Reuse(h) \/ Device!InsertSession(h)
             \/ Device!Elevate(h) \/ Device!ElevateNone(h) \/ Device!Aim(h) \/ Device!Revoke(h) \/ Device!RotateVersion(h)
      PROVE  SessionInv'
    BY <1>4, TouchInv, SessionAbortInv, BootstrapInv, ElevateInv, AimInv, RevokeInv, RotateVersionInv
       DEF Device!NotElevated, Device!ElevateNone
<1>5. ASSUME NEW h \in Handlers, Device!Commit(h) \/ Device!Abort(h) PROVE SessionInv'
    BY <1>5, SessionCommitInv, SessionAbortInv
<1> QED
    BY <1>1, <1>2, <1>3, <1>4, <1>5 DEF Device!Next

\* Only a commit raises the version.
LEMMA OnlyCommits ==
    ASSUME SessionInv, [Device!Next]_(Device!vars), version' # version
    PROVE  \E h \in Handlers : Device!Commit(h)
BY DEF Device!Next, Device!vars, Device!Age, Device!Evaluate, Device!Bootstrap, Device!StorePassword, Device!Touch, Device!NotElevated, Device!Reuse, Device!InsertSession,
       Device!Elevate, Device!ElevateNone, Device!Aim, Device!Revoke, Device!RotateVersion, Device!Abort, Device!Tables

-----------------------------------------------------------------------------
(***************************************************************************)
(* The account: codes and sessions side by side.                           *)
(***************************************************************************)
AccountInv == IInv /\ SessionInv

LEMMA AccountInitInv ==
    AccountInit => AccountInv
BY BoundsAssumption, InitInv, SessionInitInv DEF AccountInit, AccountInv

LEMMA AccountNextInv == AccountInv /\ [AccountNext]_<<part, vars, sessionVars>> => AccountInv'
<1> SUFFICES ASSUME AccountInv, [AccountNext]_<<part, vars, sessionVars>>
             PROVE  AccountInv'
    OBVIOUS
<1>1. [Next]_vars /\ [Device!Next]_(Device!vars)
    BY DEF AccountNext, vars, sessionVars, Device!vars
<1> QED
    BY <1>1, BoundsAssumption, NextInv, SessionNextInv DEF AccountInv

\* Every variable has its type, each request what it read at every step
\* (_request_email_verification, _bootstrap_user_device_session).
THEOREM TypeCorrect == AccountSpec => []AccountTypeOK
<1>1. AccountInv => AccountTypeOK
    BY DEF AccountInv, IInv, SessionInv, AccountTypeOK
<1> QED
    BY <1>1, AccountInitInv, AccountNextInv, PTL DEF AccountSpec

\* An address has one open code for its confirmation
\* (_lock_email_verification_request).
THEOREM CodesAreSingle == AccountSpec => []OneOpenCode
<1>1. AccountInv => OneOpenCode
    BY DEF AccountInv, IInv
<1> QED
    BY <1>1, AccountInitInv, AccountNextInv, PTL DEF AccountSpec

\* No address is sent more of them in a day than the limit
\* (_enforce_email_verification_send_quota).
THEOREM SendingIsLimited == AccountSpec => []SendLimit
<1>1. AccountInv => SendLimit
    BY DEF AccountInv, IInv
<1> QED
    BY <1>1, AccountInitInv, AccountNextInv, PTL DEF AccountSpec

\* A reset of the password ends every session, once the password is stored
\* (_confirm_password_reset, _rotate_user_auth_session_version).
THEOREM SessionsEnd == AccountSpec => ResetEndsSessions
<1>1. AccountInv /\ [AccountNext]_<<part, vars, sessionVars>> =>
        [version' # version => password >= version' - 1 /\ \A s \in Sessions : ~Device!Accepted(s)']_(Device!vars)
    <2> SUFFICES ASSUME AccountInv, [AccountNext]_<<part, vars, sessionVars>>, version' # version
                 PROVE  password >= version' - 1 /\ \A s \in Sessions : ~Device!Accepted(s)'
        OBVIOUS
    <2>1. SessionInv /\ [Device!Next]_(Device!vars)
        BY DEF AccountInv, AccountNext, vars, sessionVars, Device!vars
    <2>2. PICK h \in Handlers : Device!Commit(h)
        BY <2>1, OnlyCommits
    <2>3. version \in Nat /\ password \in Nat /\ version' = version + 1 /\ version <= password
        BY <2>1, <2>2, Raised, SessionTypes, BoundsAssumption DEF Device!Bounds
    <2>4. ASSUME NEW s \in Sessions PROVE sessions'[s].version # version'
        <3>1. sessions'[s].version \in Nat /\ sessions'[s].version <= version
            BY <2>1, <2>2, SessionCommitted, BoundsAssumption DEF Device!Row, Device!Bounds
        <3> QED
            BY <2>3, <3>1
    <2> QED
        BY <2>3, <2>4 DEF Device!Accepted
<1> QED
    BY <1>1, AccountInitInv, AccountNextInv, PTL DEF AccountSpec, ResetEndsSessions, Device!ResetEndsSessions
=============================================================================
