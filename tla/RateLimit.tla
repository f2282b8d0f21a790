------------------------------ MODULE RateLimit ------------------------------
(***************************************************************************)
(* The sliding windows that limit internal services (infra/http.py, 146 to *)
(* 165) and the e-mail challenges of an address (api/portal_routes.py, 929 *)
(* to 950).  A handler reads the clock, waits for the lock, drops the      *)
(* entries at the front of the queue that are too old, and is let through  *)
(* if the queue is not full.                                               *)
(*                                                                         *)
(* The clock is read BEFORE the lock, so entries may enter the queue out   *)
(* of order, and an entry may say an earlier time than the one it entered  *)
(* at.  Times are kept as ages, in ticks; Stall bounds how long a handler  *)
(* waits for the lock.                                                     *)
(***************************************************************************)
EXTENDS Integers, Sequences, FiniteSetsExt

CONSTANTS
    Handlers,
    MaxRequests, Window,     \* INTERNAL_RATE_LIMIT_MAX_REQUESTS, ..._WINDOW_SECONDS
    Stall                    \* bound: ticks between reading the clock and the lock

NotReading == -1
Old == Window + Stall        \* an entry of this age is dropped by every handler

VARIABLES
    bucket,                  \* _internal_rate_limit_buckets[...]: the ages of the entries
    read,                    \* how long ago each handler read the clock
    granted                  \* history: requests let through, for each age up to Window

vars == <<bucket, read, granted>>

Init ==
    /\ bucket = <<>>
    /\ read = [h \in Handlers |-> NotReading]
    /\ granted = [age \in 0 .. Window |-> 0]

ReadClock(h) ==
    /\ read[h] = NotReading
    /\ read' = [read EXCEPT ![h] = 0]
    /\ UNCHANGED <<bucket, granted>>

\* Faulty variant of Current: the queue loses one entry too many.
CurrentButOne(entries, delay) ==
    LET kept == {i \in 1 .. Len(entries) : entries[i] < Window + delay}
        first == IF kept = {} THEN Len(entries) + 1 ELSE Min(kept) IN
    SubSeq(entries, first + 1, Len(entries))

\* What is left of the queue once its front has been dropped.
Current(entries, delay) ==
    LET kept == {i \in 1 .. Len(entries) : entries[i] < Window + delay}
        first == IF kept = {} THEN Len(entries) + 1 ELSE Min(kept) IN
    SubSeq(entries, first, Len(entries))

\* Under the lock.
Enter(h) ==
    /\ read[h] # NotReading
    /\ LET left == Current(bucket, read[h])
           free == Len(left) < MaxRequests IN
       /\ bucket' = IF free THEN Append(left, read[h]) ELSE left
       /\ granted' = IF free THEN [granted EXCEPT ![0] = @ + 1] ELSE granted
    /\ read' = [read EXCEPT ![h] = NotReading]

Tick ==
    /\ \A h \in Handlers : read[h] < Stall
    /\ read' = [h \in Handlers |-> IF read[h] = NotReading THEN NotReading ELSE read[h] + 1]
    /\ bucket' = [i \in 1 .. Len(bucket) |-> IF bucket[i] < Old THEN bucket[i] + 1 ELSE Old]
    /\ granted' = [age \in 0 .. Window |-> IF age = 0 THEN 0 ELSE granted[age - 1]]

Next == Tick \/ \E h \in Handlers : ReadClock(h) \/ Enter(h)

Spec == Init /\ [][Next]_vars

-----------------------------------------------------------------------------
\* The variables have their types; the queue never outgrows the limit.
TypeOK ==
    /\ bucket \in Seq(0 .. Old) /\ Len(bucket) <= MaxRequests
    /\ read \in [Handlers -> NotReading .. Stall]
    /\ granted \in [0 .. Window -> Nat]

Granted[age \in 0 .. Window] ==
    granted[age] + IF age = 0 THEN 0 ELSE Granted[age - 1]

\* In any stretch of Window - Stall ticks no more than MaxRequests requests
\* are let through, in whatever order handlers read the clock and take the
\* lock (_enforce_internal_rate_limit, _enforce_email_verification_ip_guard).
WindowIsKept == Granted[Window - Stall - 1] <= MaxRequests

-----------------------------------------------------------------------------
(* What makes it inductive. *)

Bounds == MaxRequests \in Nat /\ Window \in Nat /\ Stall \in Nat /\ Stall < Window

\* The requests let through in the last k ticks are the youngest entries of the queue, which say
\* of them that they are at most as old as a handler can wait longer; none has been dropped.
YoungAreQueued(k, count) ==
    /\ count <= Len(bucket)
    /\ \A i \in 1 .. Len(bucket) : i > Len(bucket) - count => bucket[i] <= k + Stall

IInv == TypeOK /\ \A k \in 0 .. Window - Stall - 1 : YoungAreQueued(k, Granted[k])
=============================================================================
