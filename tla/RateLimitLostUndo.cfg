CONSTANTS
    pica = pica
    ppica = ppica
    c1 = c1
    c10 = c10
    c2 = c2
    Denom = {pica}
    Channel = {c1, c10}
    IDPrefix <- MCIDPrefix
    Amount = {2}
    Supplies = {5}
    Quotas <- OneQuota
    MinAmounts = {1}
    MsgTypes = {"add", "reset"}
    Asset = {"1"}
    TokenInfos <- NoInfos
    Pairs = {"alice"}
    Whitelist = {}
    EpochDuration = 1
    BlockGaps = {1}
    Restarts = FALSE
    EpochCycle = 2
    MaxLag = 1
    MaxSequence = 2
    MaxInflow = 2
SPECIFICATION Spec
INVARIANTS
    CountedCanBeUndone
