SPECIFICATION MCFairSpec
CONSTANTS
    Rows = {g1, g2}
    Cols = {"end"}
    Vals = {1, 2, 3, Forever}
    Absent = Absent
    Procs = {"bot"}
    MaxJobs = 3
    MaxFaults = 0
    Sessions = {s1, s2}
    Keys = {k1}
    BatchOf <- OneBatch
    Seats = 1
    Limit = 2
    Forever = Forever
    Grants = {Forever}
    MaxNow = 1
    MaxTries = 1
    MaxBegun = 2
    MaxActs = 1
PROPERTIES TermsStack
CHECK_DEADLOCK FALSE
