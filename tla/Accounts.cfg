SPECIFICATION AccountSpec
CONSTANTS
    Handlers = {h1, h2}
    Browsers = {x1, x2}
    Sessions = {s1, s2}
    Nobody = Nobody
    DeviceOf <- EachItsOwn
    MaxTokens = 2
    MaxResets = 1
    Addresses = {a1, a2}
    Nothing = Nothing
    Purposes = {"signup", "security_verify"}
    DailyLimit = 1
    MaxChallenges = 2
SYMMETRY Interchangeable
CONSTRAINT CodesOfOnePurpose
INVARIANTS
    AccountTypeOK
    OneOpenCode
    SendLimit
PROPERTY
    ResetEndsSessions
