SPECIFICATION AllSpec
CONSTANTS
    Commands = {1}
    MaxAttempts = 2
    Names = {"a", "b", "c"}
    MaxRoles = 5
    MaxOps = 1
    MaxFaults = 1
    Tasks = {1, 2}
    Jobs = {1, 2}
    MaxRoleOps = 2
    MaxRoleFaults = 1
    Rows = {1}
    Delicate = {1}
    Tries = 2
    Limit = 1
    MaxBridgeFaults = 2
    Games = {g1}
    MaxItems = 3
    PerCycle = 2
    Adders = {"a1", "a2"}
    MaxAdds = 2
    MaxNewsFaults = 1
INVARIANTS CommandsKept HoldersKept SlowActsOnce AnnouncedOnce
CHECK_DEADLOCK FALSE
