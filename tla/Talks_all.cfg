SPECIFICATION AllFairSpec
CONSTANTS
    Games = {g1}
    MaxItems = 3
    PerCycle = 2
    Adders = {"a1", "a2"}
    MaxAdds = 2
    MaxFaults = 1
    Callers = {"f1", "f2", "b1", "b2"}
    Behind = {"b1", "b2"}
    Decisions = {"b2"}
    Replies = {"r1", "r2"}
    MaxExchanges = 3
PROPERTIES CallsGoThrough TalksRememberedOnce EveryItemAnnounced
CHECK_DEADLOCK FALSE
