CONSTANTS
    pica = pica
    ppica = ppica
    c1 = c1
    c10 = c10
    c2 = c2
    Denom = {pica, ppica}
    Channel = {c1}
    IDPrefix <- MCIDPrefix
    Amount = {2}
    Supplies = {5}
    Quotas <- OneQuota
    MinAmounts = {1}
    MsgTypes = {"add"}
    Asset = {"1"}
    TokenInfos <- PicaInfo
    Pairs = {"alice"}
    Whitelist = {}
    EpochDuration = 2
    BlockGaps = {1}
    Restarts = FALSE
    EpochCycle = 2
    MaxLag = 2
    MaxSequence = 2
    MaxInflow = 2
SPECIFICATION FairSpec
PROPERTIES
    WindowsEnd
