SPECIFICATION AllFairSpec
CONSTANTS
    Keys = {k1, k2}
    Tasks = {t1, t2, t3}
    None = None
    MaxPerKey = 3
    Movies = {m1}
    Nights = {n1, n2}
    Users = {u1}
    Starters = {s1}
    Tracks = {x1, x2, x3}
    Slots = {1, 2}
    HistoryLimit = 2
    MaxOps = 5
    MaxQueue = 3
    Channels = {"a", "b"}
    Coroutines = {1, 2}
    MaxAsks = 2
    MaxFills = 1
    MaxDoings = 2
    MaxFaults = 1
    MaxCrashes = 1
INVARIANTS LastStands PlayedRightAlone
PROPERTIES EverythingCloses ClubRulesAlone QueueDrains LeavesRightly
CHECK_DEADLOCK FALSE
