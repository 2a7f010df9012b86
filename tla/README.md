# A verification project for the Composable Centauri chain

TLA+ models of the protocol logic of `composable-cosmos` (the `centaurid` node, a Cosmos SDK
chain), model-checked with TLC and, where it matters most, proved with TLAPS. Every definition that
models code is listed in `PROJECT.json` with the lines it stands for.

## The system

Centauri shares a token supply with a parachain (Picasso) over IBC. The repository adds four modules,
two ante decorators and a bank wrapper to the stock SDK modules.

| Component | State | Operations | What makes it correct |
|---|---|---|---|
| `x/ratelimit` | a limit per (denom, channel): quota, minimum, flow of the current window; pending packets (channel, sequence); one epoch; whitelisted address pairs | IBC send, receive, acknowledgement, timeout; the messages add, update, remove, reset; BeginBlocker | no window lets out more than its quota; a failed send is credited exactly to the window that counted it; every window ends |
| `x/transfermiddleware`, registry | infos of parachain tokens under three keys; a remove list; relayer list | messages add info, remove info, add relayer; BeginBlocker; genesis export and import | the keys agree, after a restart too; a removal happens on time and only when asked for |
| `x/transfermiddleware`, packets | none of its own: it moves, mints and burns bank balances | send, receive, acknowledgement, timeout, around the ICS-20 application | every native token is backed by a locked voucher; the total supply over both chains is constant; to an observer of the native tokens it is a peg |
| `x/tx-boundary` | per address a count of delegations and of redelegations, and the block of the last update | ante decorator over the messages of a transaction | nobody exceeds the rate; nobody is locked out |
| `x/mint` | minter, params, incentive pool, funders | BeginBlocker, update params, allow a funder, fund; genesis export and import | payout from the pool and within the yearly bounds; the rate changes slowly; the pool is paid out; no block panics under reasonable parameters |
| `app/ante` | none (reads the relayer list) | decorator over client updates | an update at top level or in one `MsgExec` passes with permission only; no relayer loses the permission it has |
| `custom/bank` | none | supply queries | duplicates of shared tokens not counted twice |
| app, keepers, upgrades, bech32 migration, cmd, ibctesting | wiring, one-off migrations, tools, tests | | not protocol logic |

How they interact: core IBC calls the middleware stack for every packet, and the stack is entered
from the other side when the transfer application sends. `x/transfermiddleware` replaces a native
token by its voucher before the packet reaches `x/ratelimit`; `x/ratelimit` reads the registry of
`x/transfermiddleware` to translate the denom of an administrative call and of an epoch's end, and
the bank's supply as the channel value. BeginBlockers run once per block, in the order of
`app/app.go`.

What is hard: the chain executes one transaction at a time, so there are no data races. The trouble
is in what lies between the send of a packet and its acknowledgement or timeout, possibly many blocks
later: a limit may be updated, removed, reset; a token registered, removed, registered elsewhere; a
window may have ended. A restart of the chain from an export comes between as well, and several modules
export less than they keep. The `hazards` of `PROJECT.json` list each such place.

## Modules

    RateLimitTypes  <-  RateLimit  <-  RateLimitProofs
                                   <-  MCRateLimit
    TokenRegistry   <-  TokenRegistryProofs
                    <-  MCTokenRegistry
                    <-  TransferMiddleware  <-  TransferMiddlewareProofs  <-  LedgerProofs
                                            <-  BankSupply                <-  LedgerProofs
                                                                          <-  MCTransferMiddleware
    Sums            <-  TransferMiddleware
                    <-  SumsProofs          <-  TransferMiddlewareProofs
    Peg             (abstract; instantiated by TransferMiddleware)
    TxBoundary      <-  TxBoundaryProofs  <-  AnteHandlerProofs
                    <-  AnteHandler       <-  AnteHandlerProofs
                                          <-  MCAnteHandler
    Mint            <-  MintProofs
                    <-  MCMint

**RateLimitTypes** has the arithmetic of `x/ratelimit/types`: which quotas a message may carry, the
threshold (share of the channel value, rounded down, at least the minimum amount; no limit when the
channel value is zero), the checks of `AddInflow` and `AddOutflow`.

**RateLimit** is the keeper. `rateLimits` and `pending` are its store, `epochInfo` the one epoch of
the default genesis, with time relative to the current epoch's start (`since`). `commitments` and
`nextSequence` stand for the IBC channel keeper, which gives out sequence numbers and calls back once
per packet; `tokenInfos` and `supply` for the two neighbours it reads. A packet carries the denom as
`ParsePacketInfo` returns it. Key facts kept from the code: `RemoveAllChannelPendingSendPackets`
iterates over a bare channel ID, so it meets every channel whose ID starts with that text
(`IDPrefix`); administrative calls and epoch ends translate the denom (`Resolve`) and work on what
they find then; an undo looks for the limit before it looks for the pending entry; a send that is
refused aborts its transaction; one epoch at most ends per block. Three things are history, read by
no action of the store: `live`, the packets in flight the current window of their limit counted;
`netSent`, the value that window really let out; `counted` in a packet. `Restart` stops the chain and starts
it from its export: limits, flows and pending packets come back, the epoch is that of the default
genesis.

**TokenRegistry** is the registry: three maps and the remove list, whose times are relative to the
block time. BeginBlocker is one action: it walks the remove list in key order (`Rank`) and stops at
the first due entry whose info is gone. `requested` is history. `Restart` hands the infos of the index
by asset, all that is exported, to `AddParachainIBCInfo` again; the remove list is lost. Were one of them
refused, InitGenesis would panic and the chain not start: `Restart` then leaves no store at all, which
`RestartKeepsTokens` would catch.

**TransferMiddleware** extends it by the packets. `bank` (balances and supplies), the transfer
application (`Take`, `Give`), the packets in flight and what the counterparty holds (`remote`) are
external, modelled from how the middleware uses them. The escrow account of a channel is the channel.
An IBC denom is the pair (channel, asset), which is what the hash of a one-hop trace identifies.
`SendPacket`, `RecvPacket`, `AckError` and `TimeoutPacket` each include the application's part and the
middleware's part of the same transaction. Assumed: the authority registers an asset with the IBC
denom it really has on that channel (`PairingAssumption`); users, denoms, channels and assets are
finitely many, being strings of bounded length (`FiniteAssumption`); nobody sends vouchers to an escrow account
by an ordinary bank transfer; no other module mints the native denoms.

**Sums** has `Total`, the sum of a function, as the number of units its values are made of: f[x] pairs
<<x, k>> for every x, counted by `Cardinality`. A fold or a recursive sum would be the same to TLC, but
what it computes can only be proved by induction over the set of terms; of cardinalities the library's
theorems say enough. `MCTransferMiddleware` has TLC compare the two on small functions.

**Peg** is what the middleware promises about native tokens, without channels, accounts or packets: a
pairing of native denoms with vouchers, a supply of each native denom and an amount locked of each
voucher, of which `Lock` and `Release` change both by the same amount and only for a pair that is
registered. `TransferMiddleware!P` maps the registry to the pairing, the bank's supply of native denoms
to the supply, and what the escrow account of a voucher's own channel holds to what is locked;
`ImplementsPeg` says that every step is a step of the peg or none.

**BankSupply** is the query `TotalSupply` of `custom/bank` as an operator on that state, with all denoms on
one page and without x/alliance.

**TxBoundary** is the staking decorator and its counts. `age` is the height less `LatestUpdateBlock`. The
messages of a transaction (those in an authz `MsgExec` in their place) are validated on a `branch` of
the store that is written when all pass. The boundaries are constants because nothing can change them
after genesis. `level` is history: a bucket that each accepted message fills by the blocks its
boundary asks for and each block drains by one.

**AnteHandler** composes it with the decorator of `app/ante`, which comes first, and with the relayer list
of x/transfermiddleware. A transaction is its wasm client updates, each with the signer and the number of
`MsgExec`s around it, and its staking messages. As in the code, the decorator looks into a `MsgExec` and
not into one within another, which the decorator of x/tx-boundary does. No property says which updates
run: at the levels that are looked at it would restate the guard of `Receive`, as the list cannot change
within a transaction.
The list starts as an upgrade handler leaves it, empty or not; `Restart` loses it and the counts.

**Mint** is x/mint. An `sdk.Dec` is an integer of units in the last place, `One` of them to 1, with the
roundings of the library (`Quo` truncates to twice the precision, then rounds half to even; `QuoInt`
and `TruncateInt` truncate). `pool` is the module account, `others` everything else; the bonded ratio
is any that `others` allows, and slashing may burn. `Int64` is the conversion of the blocks per year, a
uint64 with `Word` values, whose upper half becomes negative. A negative provision panics in BeginBlocker:
`halted`. `height`, of which only odd and even are told apart, makes every block that commits a step of
its own, so that `FloorPaid` speaks of the blocks that leave all else unchanged too. `Restart` doubles the pool, as export and import do.

## What the runs check

| Run | Result | What it shows |
|---|---|---|
| `limit_messages` | pass | With all messages, registrations, supply changes (to zero too), whitelisted pairs and the remapping of denoms, the store stays well-typed, the stored net outflow stays within the quota, and a packet no limit counted is never credited. |
| `limit_windows` | pass | Without update and remove messages, with one denom and no prefixes: a pending entry means the current window, what a window really let out is within its quota, a counted packet can always be undone, and every window ends (liveness), for durations of one and two epochs, blocks that come later than an epoch is long, and restarts. |
| `limit_stale_undo` | violation | An update keeps pending packets: an old packet's failure makes room in the new window. |
| `limit_lost_undo` | violation | A reset on `channel-1` forgets the pending packets of `channel-10`. |
| `limit_stuck` | violation | A limit on a denom that is later registered as a parachain token is never reset again. |
| `registry_stuck` | violation | The entry of a removed token stops BeginBlocker before the next one. |
| `registry_unasked` | violation | A token registered again is removed at the next block. |
| `transfer` | pass | Two natives compete for an asset on two channels, with restarts: the three keys agree and survive, no account is overdrawn, every native token is backed, escrow accounts hold exactly what is abroad, the total supply is constant, the supply query reports of each denom exactly what is held outside the escrow, and the abstract peg is implemented. |
| `ante` | pass | Client updates, nested to two levels, and one or two staking messages in a transaction, a limit that exceeds the five generations one update gives back, unlimited redelegations, restarts: counts and rate within their bounds, a delegator is let through again and again (liveness), and no relayer is shut out. |
| `mint` | pass | Any bonded ratio, burns, changing parameters (a negative minimum; blocks per year that int64 negates), restarts: payouts come from the pool and within the yearly maximum up to one unit of the last place of the rate, every block pays its share of the minimum while the pool can, the rate moves by no more than a block's share, the pool is paid out (liveness). |
| `mint_negative` | violation | A negative minimum, which `Validate` accepts, makes the inflation negative; later blocks panic. |
| `boundary_redelegate` | violation | The pace of the redelegate boundary is ignored. |

Seven disagreements between the code and its own comments and docs are recorded under `findings`; each
is shown by one of the violation runs, with the shortest trace TLC finds.

Every property has a mutant: a plausible slip in a modelled definition (named `Mut...`, before the
definition) under which the same run finds the property violated.

### Bounds

Two or three packets per channel suffice for a packet of an earlier window, one of the current window
and one more to be let out wrongly. Channel value 5 with a quota of 50% gives a threshold of 2 by
truncation, so that an amount of 2 fits once. `EpochCycle` wraps the epoch number at a common multiple
of the durations, which is all that is ever read of it; `MaxLag` bounds how far the clock may fall
behind; `MaxInflow` bounds what a window takes in. In `transfer` the parachain holds more than one
transfer takes and users hold native tokens from genesis, so that sends may be refused, split or
mixed; the asset can be tied to either native denom and to either channel. In `TxBoundary` ages beyond five generations are the
same to the code, so `MaxAge` loses nothing; one delegator suffices in `ante`, as entries of two addresses
never touch one another, and the theorems hold for any number. In `mint`, `One = 10` makes every rounding
happen at small supplies, `Word = 16` lets eight blocks a year become -8, two sets of parameters have
equal bounds, and `MaxSupply` bounds what restarts may add. `RateChangesSlowly` is checked with goals of one half and more, the range of the
repository's own simulation (`GenGoalBonded`); below one half a full bond moves the rate by more. All state spaces are explored completely; none needs a
state constraint.

### Fairness

`RateLimit!FairSpec` assumes that blocks keep being made (weak fairness of `BlockStep`): consensus
guarantees it while the chain is up, and every block runs BeginBlocker. `Mint!Spec` assumes the same of
`Block`; when a block panics the chain has halted, which `IncentivesPaidOut` allows for. `AnteSpec` assumes
that a transaction once started is worked to its end, and strong fairness of the next block: a block
holds finitely many transactions, so the height cannot be held up for ever by them. `WindowsEnd` and
`IncentivesPaidOut` are conditional on restarts coming to an end, since each of them starts the epoch
anew or refills the pool, and the latter on the parameters staying as they are. Nothing is assumed of
users, relayers or the authority.

## What is proved

For every value of the constants that satisfies the modules' ASSUMEs:

* `RateLimitProofs`: `TypeCorrect`, `StoreWithinQuota`, `UncountedStaysUncredited` without further
  conditions. `StoreWithinQuota` rests on the fact that an undo only lowers the outflow and that a
  receipt only raises the inflow, so that only `UpdateFlow`, which checks, can raise the net outflow.
  `UncountedStaysUncredited` needs `PacketInv`: sequence numbers of packets in flight are below the
  next one and unique, so an identifier in `pending` cannot come to mean another packet.
  `PendingIsCurrent` and `WindowsKeepQuota` assume `KeepsWindows` (no update and no remove message).
  Their invariant `WindowInv` says in addition that a path with a packet in `live` has a limit, and
  that a window's stored outflow is at least the value it really let out: an undo lost to a prefix may
  leave the stored outflow too high, never too low. `FailuresAreCredited` assumes `Separate` (one
  denom, no channel ID a prefix of another). The violation runs show that neither condition can be
  dropped.
* `TokenRegistryProofs`: `IndexesStayInAgreement`, `ExportsAreImportable` and `RestartsKeepTokens`. The invariant is inductive
  together with the types; the removal step needs that two natives never share an asset or an IBC
  denom, which follows from the agreement itself. The same fact makes an export importable at any time,
  with any number of tokens (in `transfer` an export holds one at most), and the agreement makes the
  index by asset as good as all three. `RemovalsAreRequested` settles what
  `registry_unasked` shows: under the condition that no denom is registered that still has an entry in
  the remove list (`RegistersFreshDenoms`), only requested removals happen. Its invariant
  `EntriesAreRequests` says that an entry of a registered denom stems from a request for that very
  registration.
* `TransferMiddlewareProofs`: `MiddlewareImplementsPeg`, the refinement. Its invariant `PegInv` is the
  registry's together with the shape of the bank and of the packets. One lemma per bank operation says
  what it does to the supply of native denoms and to the locked vouchers; a send, a receipt and a refund
  are then a `Lock`, a `Release` or a stutter, according to the registration at that moment.
  `MiddlewareKeepsIndexes` carries the registry's theorems over to the composed specification, every
  step of which is to the registry one of its own or none.
* `SumsProofs`: how `Total` changes when a term changes, when units move from one term to another, when
  a term is taken out; that zero terms may be left out.
* `LedgerProofs`: the books balance, for any number of users, channels, tokens and packets.
  `MiddlewareTypeCorrect`: no account and no supply goes below zero. This is not inductive as it stands:
  a refund or a return of the transfer application debits the escrow account without looking, and a
  burn lowers the supply. The invariant `BooksInv` adds why that is covered: supplies are what the
  accounts hold (`Ledger`), sequences tell packets apart, so a packet counts once, and `AbroadAccounted`:
  what this chain's books say is abroad through a channel (`Abroad`: of its vouchers what the parachain had
  at first and does not circulate here, of any other denom what the escrow account holds) is what the
  counterparty holds and what is on its way. One lemma per bank operation says by how much it shifts
  what is abroad: a send by the amount, of the voucher when it is overridden; a receipt and a refund by
  as much the other way; a conversion by nothing. `EscrowStaysBacked` and `SupplyIsShared` are read off
  this invariant, the latter with `NativeStaysBacked`, which follows from the peg: a lock or a release
  changes one native supply and one locked voucher by the same amount. `QueryReportsWhatIsHeld` needs the
  registry's agreement too: no other info names either denom, so exactly the balance of one escrow
  account is taken off.
* `TxBoundaryProofs`: `TypeCorrect`, and `RateIsBounded` under `SamePace` (both boundaries have the same
  `blocksPerGeneration`, as in the default genesis). The invariant `Paced` relates the history to the
  store: the bucket, if not empty, plus the age of the entry is less than a generation times (count +
  1). It is preserved by an update because a whole number of generations never covers more than the
  blocks that passed, and it holds on the committed store and on the branch of a transaction alike.
* `AnteHandlerProofs`: `AnteTypeCorrect` and `AnteRateIsBounded` carry these over: to x/tx-boundary every
  step of the ante handler is one of its own, none, or a start from genesis. `RelayersKeepPermission` holds
  because `AddRlyAddress` refuses to start a list and a restart empties it.
* `MintProofs`, for every precision of the decimals that is even, every even `Word` and every set of
  parameters `Validate` accepts: `MintTypeCorrect` and `MintFloorPaid`. The latter rests on lemmas about
  the roundings (`Quo` is within one unit of the quotient, rounding moves nothing across a whole unit,
  `TruncateInt` takes off less than one), which bound the clamped rate from both sides by the yearly
  amounts, one unit of the rate aside, and so the provision of a block; where int64 negates the blocks
  per year, a provision that does not panic is truncated to zero, and the yearly amount is then less than
  a token per block. `MintPayoutsBounded` assumes `NegatesOnce`: no accepted set of parameters has both a
  negative minimum and negated blocks, the product of which would be a payment nothing bounds.
  `MintRateChangesSlowly` assumes `GoalsAtLeastHalf` (as the simulation's `GenGoalBonded` does): the distance
  of the bonded ratio from the goal is then at most the goal; and `YearFitsOrNoRoom`, blocks per year that
  int64 keeps, or bounds that leave the rate no choice. `MintNeverHalts` assumes `FloorsNotNegative` and
  `YearsFit`, the two things `Validate` does not ask: then no rate and no provision is negative.

Every invariant and action property that a passing run checks is proved, under the conditions named
above, which the constants of the runs satisfy. Only model-checked are the
liveness properties (`WindowsEnd`, `LetThroughAgain`, `IncentivesPaidOut`), which are outside the prover,
and that `Total` is the sum a fold computes, on functions of up to three terms (induction over data).

## Not modelled

* Generated code (`*.pb.go`, `*.pb.gw.go`), more than half of the lines of the repository: encodings and
  client stubs without logic of their own. With the test harness (`app/ibctesting`), the construction of
  the application (`app/app.go`, `app/keepers`), the command line (`cmd`, `client/cli`), module
  registration, simulation and codecs, it makes up nearly all of the lines no definition stands for;
  the hand-written protocol logic is a small part of the repository, and most of it is modelled.
* Upgrade handlers: each runs once, at a height, before any transaction, and calls the keepers modelled
  here; there is nothing to interleave with. `app.Forks` is empty. The bech32 migration is reached by no
  registered upgrade.
* The parsing of denoms in x/ratelimit (`ParsePacketInfo`): the model starts from the parsed denom.
* Packet forwarding, a library: when it answers later with an error, x/ratelimit keeps the inflow it
  counted. `RecvPacket` covers the answers that come at once.
* The tokens bonded by x/alliance in the supply queries, pages of the supply, `prepForZeroHeightGenesis`.
* `FundModuleAccount` has no effect in the code: NewKeeper leaves the account keeper unset, so the
  message panics for every sender that is allowed.
* Formatting, events, logging, queries. Amounts are unbounded integers in the models; that `math.Int`
  panics beyond 256 bits and `sdk.Dec` beyond 315 is left out, so `MintNeverHalts` is about negative
  provisions only.

## What comes next

1. `RemovedOnTime` under a condition: a removal happens on time while no due entry of a lower key has
   lost its info; `WindowsEnd` has a safety part of the same kind, that an epoch's end resets every limit
   whose denom is not remapped.
2. `FailuresAreCredited` for several denoms, with the weaker condition that no reset comes between.
3. `SharedSupply` across a re-registration of the same asset on another channel is proved in sum; which
   user may be paid vouchers in place of native tokens by a refund is a property worth stating.
