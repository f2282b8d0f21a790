SPECIFICATION Spec
CONSTANTS
    Orders = {o1}
    Handlers = {h1, h2}
    Requests = {"poll", "session"}
    MaxSessions = 1
    MaxFailures = 0
SYMMETRY AlikeHandlers
INVARIANTS
    PaidOrderHasPaidSession
