CONSTANTS
    Orders = {o1, o2}
    Handlers = {h1, h2}
    NoHandler = none
    Monthly = {standard, pro}
    Packs = {small, large}
    small = small
    large = large
    bySum = bySum
    Price <- Prices
    Bonused = {small}
    Single = single
    Cumulative = {bySum}
    First = first
    Threshold <- Thresholds
    Buyer = buyer
    Free = free
    Period = 1
    Points = 2
    MaxClock = 2
SPECIFICATION Spec
SYMMETRY Symmetric
INVARIANT OneSubscriptionInForce
