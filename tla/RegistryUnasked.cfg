CONSTANTS
    pica = pica
    uatom = uatom
    a1 = a1
    a2 = a2
    c1 = c1
    c2 = c2
    Native = {pica}
    Asset = {a1, a2}
    Channel = {c1}
    Infos <- OwnInfos
    Rank <- MCRank
    RemoveDelay = 2
    BlockGaps = {1, 3}
    Restarts = FALSE
SPECIFICATION RegistrySpec
PROPERTIES
    RemovalWasRequested
