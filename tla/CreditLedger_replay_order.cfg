SPECIFICATION Spec
CONSTANTS
    Users = {u1}
    Handlers = {h1, h2}
    NoHandler = none
    Charges <- OneOfTwo
    Grants <- SubscriptionAndRecharge
    Refunds = {}
    Adjustments = {}
    Ties = {0}
    Period = 4
    MaxClock = 6
    Never = 99
INVARIANT ExpiryTakesOnlyUnspentPoints
CHECK_DEADLOCK FALSE
