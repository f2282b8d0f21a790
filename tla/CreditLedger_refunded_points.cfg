SPECIFICATION Spec
CONSTANTS
    Users = {u1}
    Handlers = {h1}
    NoHandler = none
    Charges <- OneAndTwo
    Grants <- SubscriptionAndRecharge
    Refunds = {2}
    Adjustments = {}
    Ties = {0}
    Period = 3
    MaxClock = 5
    Never = 99
INVARIANT NoLapsedPoints
CHECK_DEADLOCK FALSE
