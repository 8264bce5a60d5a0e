SPECIFICATION DataFairSpec
CONSTANTS
    Events = {1, 2, 3}
    PanelEvents = {3}
    Unregistered = {1}
    Subscribers = {"relationship", "achievements"}
    RoleSync = "relationship"
    HandlersMayFail = TRUE
    BatchSize = 2
    MaxCrashes = 1
    Rows = {g}
    Low = "low"
    High = "high"
    Vals = {1, 2}
    Absent = Absent
    MaxJobs = 3
    MaxFaults = 1
    MaxWrites = 2
    Starts <- LowOnly
INVARIANTS HandedBeforeMarked LatestRoleShownUndisturbed SettingsHold
PROPERTIES EventuallyHanded
CHECK_DEADLOCK FALSE
