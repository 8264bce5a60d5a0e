SPECIFICATION MCFairSpec
CONSTANTS
    Users = {1, 2}
    Workers = {"w1", "w2"}
    None = None
    Threshold = 1
    Awards = {1}
    Settings = {0, 3}
    Decays = {1}
    MaxTx = 4
PROPERTIES LoneTransferCommits
CHECK_DEADLOCK FALSE
