SPECIFICATION Spec
CONSTANTS
    Orders = {o1}
    Handlers = {h1, h2}
    Requests = {"list", "poll", "session", "cancel", "ops"}
    MaxSessions = 2
    MaxFailures = 1
SYMMETRY AlikeHandlers
CONSTRAINT OneComplication
INVARIANTS
    TypeOK
    CreditedExactlyWhenPaid
    AnswersAreTrue
    PaidSessionHasPaidOrder
PROPERTIES
    PaidIsFinal
    DeliversOnlyPaid
