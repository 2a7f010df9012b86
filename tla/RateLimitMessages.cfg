CONSTANTS
    pica = pica
    ppica = ppica
    c1 = c1
    c10 = c10
    c2 = c2
    Denom = {pica, ppica}
    Channel = {c1}
    IDPrefix <- MCIDPrefix
    Amount = {2}
    Supplies = {0, 5}
    Quotas <- SomeQuotas
    MinAmounts = {1}
    MsgTypes = {"add", "update", "remove", "reset"}
    Asset = {"1"}
    TokenInfos <- PicaInfo
    Pairs = {"alice", "market"}
    Whitelist = {"market"}
    EpochDuration = 1
    BlockGaps = {1}
    Restarts = TRUE
    EpochCycle = 2
    MaxLag = 1
    MaxSequence = 2
    MaxInflow = 2
SPECIFICATION Spec
INVARIANTS
    TypeOK
    NetOutflowWithinQuota
    UncountedNeverCredited
