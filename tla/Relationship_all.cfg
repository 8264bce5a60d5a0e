SPECIFICATION MCFairSpec
CONSTANTS
    Users = {1, 2, 3}
    Workers = {"w1", "w2"}
    None = None
    Threshold = 1
    Awards = {1}
    Settings = {0, 3}
    Decays = {1}
    MaxTx = 4
INVARIANTS NoLostUpdate OneTitle
PROPERTIES TitleByExceedingAlone EveryTransactionEnds
CHECK_DEADLOCK FALSE
