SPECIFICATION FairSpec
CONSTANTS
    Handlers = {h1, h2}
    Users = {u1}
    NoHandler = none
    Charges <- OneOfTwo
    Grants <- SubscriptionAndRecharge
    Refunds = {}
    Adjustments <- TakeTwo
    Ties = {0}
    Period = 3
    MaxClock = 3
    Never = 99
    Orders = {o1}
    ShopRequests = {"poll", "session", "cancel"}
    MaxSessions = 1
    MaxFailures = 1
PROPERTIES
    RequestEnds
    DeliversInTheEnd
CHECK_DEADLOCK FALSE
