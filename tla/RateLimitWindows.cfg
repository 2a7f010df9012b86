CONSTANTS
    pica = pica
    ppica = ppica
    c1 = c1
    c10 = c10
    c2 = c2
    Denom = {pica}
    Channel = {c1, c2}
    IDPrefix <- MCIDPrefix
    Amount = {2}
    Supplies = {5}
    Quotas <- TwoQuotas
    MinAmounts = {1}
    MsgTypes = {"add", "reset"}
    Asset = {"1"}
    TokenInfos <- NoInfos
    Pairs = {"alice"}
    Whitelist = {}
    EpochDuration = 1
    BlockGaps = {1, 2}
    Restarts = TRUE
    EpochCycle = 2
    MaxLag = 2
    MaxSequence = 3
    MaxInflow = 2
SPECIFICATION FairSpec
INVARIANTS
    PendingSentDuringCurrentQuota
    WindowWithinQuota
    CountedCanBeUndone
PROPERTIES
    WindowsEnd
