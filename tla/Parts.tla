--------------------------------- MODULE Parts ---------------------------------
(***************************************************************************)
(* The parts of the service that grant something, points, tries, calls or  *)
(* requests, those that limit how much of it, and the records of users and *)
(* jobs, which several change at the same time.                            *)
(***************************************************************************)
EXTENDS Common

CONSTANTS Batches, BatchSize,                               \* of RedeemCodes
          Quota, Points, LastDay, MaxBalance,               \* of GuestQuota
          Devices, Addresses, DeviceLimit, AddressLimit,    \* of QuickTrial
          MaxRequests, RequestWindow, RequestStall,         \* of RateLimit
          Tools, MaxCalls, CallWindow, DailyCap, DayLength,
          AnswerLifetime, MaxEntries, Evicted,              \* of SellerTools
          Operators, Numbers, Default, Minimum,
          SettingLifetime, SettingStall,                    \* of SiteConfig
          Persons, Attempts, MaxKeys,                       \* of UserRecords
          MaxDecisions                                      \* of KeepaJobs

Redeem == INSTANCE RedeemCodes WITH
    Codes <- Things, Users <- Owners, Handlers <- Actors,
    codes <- x1, ledger <- x2, season <- x3, codeLock <- x4, accountLock <- x5, step <- x6,
    task <- x7, told <- x8
Guest == INSTANCE GuestQuota WITH
    Amounts <- Points, MaxDay <- LastDay,
    day <- x1, balance <- x2, consumed <- x3, resets <- x4, beyond <- x5, tx <- x6
Trial == INSTANCE QuickTrial WITH
    Visits <- Things,
    used <- x1, flight <- x2, visit <- x3, announced <- x4
Limit == INSTANCE RateLimit WITH
    Handlers <- Actors, Window <- RequestWindow, Stall <- RequestStall,
    bucket <- x1, read <- x2, granted <- x3
Tool == INSTANCE SellerTools WITH
    Window <- CallWindow, Lifetime <- AnswerLifetime,
    recent <- x1, counter <- x2, cache <- x3, hour <- x4, call <- x5, reply <- x6,
    today <- x7, calls <- x8
Setting == INSTANCE SiteConfig WITH
    Readers <- Actors, TTL <- SettingLifetime, Stall <- SettingStall,
    row <- x1, age <- x2, cache <- x3, loaded <- x4, lock <- x5, reader <- x6, update <- x7
User == INSTANCE UserRecords WITH
    Users <- Persons, Handlers <- Actors, Codes <- Things,
    source <- x1, users <- x2, keys <- x3, request <- x4, rowLock <- x5, keyLock <- x6,
    made <- x7, cleanup <- x8
Job == INSTANCE KeepaJobs WITH
    Operators <- Actors,
    job <- x1, request <- x2, ledger <- x3, audit <- x4

\* What PartsProofs assumes of the constants.
ASSUME NobodyAssumption == Redeem!NobodyApart
ASSUME BoundsAssumption ==
    Guest!Bounds /\ Trial!Bounds /\ Limit!Bounds /\ Tool!Bounds /\ Setting!Bounds /\ User!Bounds
=============================================================================
