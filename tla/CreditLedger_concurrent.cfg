SPECIFICATION Spec
CONSTANTS
    Users = {u1}
    Handlers = {h1, h2}
    NoHandler = none
    Charges <- OneOfTwo
    Grants <- SubscriptionAndRecharge
    Refunds = {2}
    Adjustments <- TakeTwo
    Ties = {0}
    Period = 3
    MaxClock = 5
    Never = 99
INVARIANTS
    TypeOK
    OneTransactionPerAccount
    LedgerExplainsBalance
    GrantExpiresOnce
    BucketsCoverBalance
CHECK_DEADLOCK FALSE
