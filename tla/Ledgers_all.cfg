SPECIFICATION AllSpec
CONSTANTS
    Listeners = {"a", "b"}
    LastChannel = 2
    TicksPerHour = 2
    MaxTicks = 3
    MaxFaults = 1
    Servers = {g1, g2}
    Sessions = {s1, s2}
    Keys = {k1}
    Forever = Forever
    Absent = Absent
    MaxCount = 2
    BatchOf <- OneBatch
    Seats = 1
    Limit = 2
    Grants = {Forever}
    Vals = {1, 2, 3, Forever}
    MaxJobs = 3
    MaxNow = 1
    MaxTries = 1
    MaxBegun = 2
    MaxActs = 2
    Requests = {"q1"}
    BotTasks = {"b1"}
    PanelTasks = {"p1"}
    MaxIds = 2
    MaxTexts = 1
    MaxRequests = 2
SYMMETRY Symmetry
INVARIANTS ActivityCounted BatchesHold PersonasHold
PROPERTIES TermsStackAlone
CHECK_DEADLOCK FALSE
