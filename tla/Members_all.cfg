SPECIFICATION AllFairSpec
CONSTANTS
    Warners = {"w1", "w2"}
    Threshold = 2
    Escalation = TRUE
    MaxWarns = 5
    MaxClears = 1
    HttpMayFail = TRUE
    MaxCrashes = 1
    Members = {a, b}
    Things = {1}
    Visits = {v1, v2}
    Rooms = {r1, r2}
    Nobody = Nobody
    Servers = {"s1", "s2"}
    Cap = 1
    Frozen = {}
    MaxVisits = 2
    MaxJoins = 2
    MaxMoves = 3
    MaxDepartures = 3
    MaxFaults = 1
INVARIANTS NeverTooHarsh LadderAlone FairPlay
PROPERTIES EveryCaseAppliedUnbroken AnnouncementsClose LeaversGo RoomsDoNotPileUp ErasedIfLeft
CHECK_DEADLOCK FALSE
