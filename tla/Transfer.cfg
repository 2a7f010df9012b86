CONSTANTS
    pica = pica
    uatom = uatom
    a1 = a1
    c1 = c1
    c2 = c2
    alice = alice
    Native = {pica, uatom}
    Asset = {a1}
    Channel = {c1, c2}
    Infos <- MCInfos
    Rank <- MCRank
    RemoveDelay = 1
    BlockGaps = {2}
    Restarts = TRUE
    User = {alice}
    Amount = {1, 2}
    GenesisSupply <- MCGenesis
    RemoteSupply <- MCRemote
    MaxPackets = 2
SPECIFICATION Spec
INVARIANTS
    TypeOK
    NativeBacked
    EscrowBacked
    SharedSupply
    IndexesAgree
    ReportedIsHeld
PROPERTIES
    RestartKeepsTokens
    ImplementsPeg
