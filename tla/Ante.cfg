CONSTANTS
    alice = alice
    bob = bob
    rly1 = rly1
    rly2 = rly2
    Addr = {alice}
    DelegateBoundary <- Beyond
    RedelegateBoundary <- Unbounded
    Txs <- WithEmpty
    Relayer = {rly1, rly2}
    UpgradeLists <- MCLists
    AnteTxs <- MCAnteTxs
    Restarts = TRUE
SPECIFICATION AnteSpec
INVARIANTS
    TypeOK
    WithinRate
PROPERTIES
    LetThroughAgain
    NoRelayerShutOut
