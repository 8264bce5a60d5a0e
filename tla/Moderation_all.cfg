SPECIFICATION ModFairSpec
CONSTANTS
    Ids = {a1, a2}
    Forms = {f1, f2}
    Resolvers = {r1, r2}
    MaxForms = 2
    MaxVerdicts = 2
    HttpMayFail = TRUE
    MaxCrashes = 1
    Moderators = {"m1", "m2"}
    Ops = {"tempban", "ban", "panel_tempban", "panel_ban", "unban", "approve"}
    Rows = {1, 2, 3}
    MaxOps = 3
INVARIANTS EffectsFollowCommit AppealRulesAlone
PROPERTIES ApprovedIsLiftedUnbroken TempBanEndsCalm
CHECK_DEADLOCK FALSE
