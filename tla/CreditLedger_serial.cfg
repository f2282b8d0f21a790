SPECIFICATION Spec
CONSTANTS
    Users = {u1}
    Handlers = {h1}
    NoHandler = none
    Charges <- Repriced
    Grants <- SubscriptionAndRecharge
    Refunds = {1, 2}
    Adjustments <- TakeTwo
    Ties = {0, 1}
    Period = 3
    MaxClock = 5
    Never = 99
INVARIANTS
    ExpiryTakesOnlyUnspentPoints
    BucketsMatchBalance
    NoOverdraft
CHECK_DEADLOCK FALSE
