SPECIFICATION MCFairSpec
CONSTANTS
    Moderators = {"m1"}
    Ops = {"tempban", "ban", "panel_tempban", "panel_ban", "unban", "approve"}
    Rows = {1, 2, 3}
    MaxOps = 4
    HttpMayFail = FALSE
    MaxCrashes = 0
PROPERTIES PermanentBanStays
CHECK_DEADLOCK FALSE
