SPECIFICATION Spec
CONSTANTS
    Actors = {h1, h2}
    Owners = {u1, u2}
    Things = {c1, c2, c3}
    Nobody = Nobody
    Batches = {"b1", "b2"}
    BatchSize = 2
    Quota = 3
    Points = {1, 2}
    LastDay = 1
    MaxBalance = 4
    Devices = {"d1", "d2"}
    Addresses = {"a1"}
    DeviceLimit = 2
    AddressLimit = 3
    MaxRequests = 2
    RequestWindow = 4
    RequestStall = 2
    Tools = {"title", "reply"}
    MaxCalls = 1
    CallWindow = 1
    DailyCap = 2
    DayLength = 3
    AnswerLifetime = 2
    MaxEntries = 2
    Evicted = 1
    Operators = {"o1"}
    Numbers = {0}
    Default = 3
    Minimum = 1
    SettingLifetime = 2
    SettingStall = 1
    Mailboxes = {"a1", "a2"}
    MaxSendings = 3
    MaxDecisions = 3
    Members = {"u1", "u2"}
    Readers = {"u1"}
    Facts = {"f1", "f2"}
    Rewards = {"f1"}
    Broadcasts = {"b1"}
    RecentLimit = 1
    Persons = {"u1"}
    Attempts = 2
    MaxKeys = 1
SYMMETRY Interchangeable
INVARIANTS
    TypeOK
    CodePaysOnce
    RewardedExactlyOnce
    QuotaExplainsBalance
    LimitsHold
    AnswersAgree
    ReportsInOneOrder
    FailuresAreTold
PROPERTY
    RecordsAreKept
CHECK_DEADLOCK FALSE
