-------------------------------- MODULE Mint --------------------------------
(***************************************************************************)
(* x/mint: at the start of every block a share of the yearly provisions is *)
(* paid out of the module's pool of incentives to the fee collector.       *)
(* Nothing is minted but at genesis.                                       *)
(*                                                                         *)
(* An sdk.Dec is an integer that counts units of its last decimal place,   *)
(* One of them to 1 (10^18 in the code).  The minted denomination is the   *)
(* staking one, as in the chain's genesis, and its supply is what the pool *)
(* holds and what all others hold.                                         *)
(*                                                                         *)
(* FundModuleAccount has no action: for a sender that is allowed it calls  *)
(* the account keeper NewKeeper never sets, the nil call panics, and the   *)
(* transaction is undone; any other sender is refused.                     *)
(***************************************************************************)
EXTENDS Integers

CONSTANTS
    One,                \* the Dec 1
    Word,               \* the number of values of a uint64
    Incentives,         \* IncentivesSupply of the first genesis
    Circulating,        \* what others hold then
    Inflations,         \* inflation rates of the first genesis
    GenesisParams,      \* its parameters
    ParamsProposed,     \* parameters the authority may ask for
    Funder,             \* addresses the authority may allow to fund the pool
    Restarts,           \* whether the chain may be restarted from an export
    MaxSupply           \* bound on the supply a restart may leave

Params == [inflationRateChange : Int, goalBonded : Int, blocksPerYear : 0 .. (Word - 1),
           maxTokenPerYear : Int, minTokenPerYear : Int]

ASSUME MintAssumption ==
    /\ One \in Nat \ {0} /\ One % 2 = 0
    /\ Word \in Nat \ {0} /\ Word % 2 = 0
    /\ {Incentives, Circulating, MaxSupply} \subseteq Nat
    /\ Inflations \subseteq Nat
    /\ ParamsProposed \cup {GenesisParams} \subseteq Params
    /\ Restarts \in BOOLEAN

VARIABLES
    minter,             \* [inflation, annualProvisions]
    params,
    allowed,            \* addresses that may fund the pool
    pool,               \* balance of the module account
    others,             \* what everyone else holds, the fee collector included
    halted,             \* BeginBlocker panics at this height, on every node
    height              \* height of the last block, odd or even

vars == <<minter, params, allowed, pool, others, halted, height>>

Supply == pool + others

-----------------------------------------------------------------------------
(* The conversion int64(n) of a uint64: the upper half is negative. *)
Int64(n) == IF 2 * n < Word THEN n ELSE n - Word

(* Integer quotient that truncates toward zero. *)
QuoTruncate(a, b) ==
    LET num == IF b > 0 THEN a ELSE - a
        den == IF b > 0 THEN b ELSE - b
    IN  IF num >= 0 THEN num \div den ELSE - ((- num) \div den)

(* Rounds a / One to the nearest integer, and halves to the even one. *)
ChopPrecisionAndRound[a \in Int] ==
    LET n == 2 * a + One
        nearest == n \div (2 * One)
    IN  IF n % (2 * One) = 0 /\ nearest % 2 = 1 THEN nearest - 1 ELSE nearest

Mul(a, b) == ChopPrecisionAndRound[a * b]

Quo(a, b) == ChopPrecisionAndRound[QuoTruncate(a * One * One, b)]

(* What x/staking reports when n tokens are bonded. *)
BondedRatio(n) == IF Supply > 0 THEN QuoTruncate(n * One, Supply) ELSE 0

Validate(p) ==
    /\ p.inflationRateChange \in 0 .. One
    /\ p.goalBonded \in 1 .. One
    /\ p.blocksPerYear # 0
    /\ p.maxTokenPerYear >= p.minTokenPerYear

(* The bounds of the inflation rate, of a supply that is not zero. *)
InflationMax == Quo(params.maxTokenPerYear * One, Supply * One)
InflationMin == Quo(params.minTokenPerYear * One, Supply * One)

InflationRateChange(bondedRatio) ==
    Quo(Mul(One - Quo(bondedRatio, params.goalBonded), params.inflationRateChange),
        Int64(params.blocksPerYear) * One)

(* The change of a year is made in one block. *)
MutYearAtOnce(bondedRatio) ==
    LET i == minter.inflation + Mul(One - Quo(bondedRatio, params.goalBonded),
                                    params.inflationRateChange)
        capped == IF i > InflationMax THEN InflationMax ELSE i
    IN  IF Supply = 0 THEN minter.inflation
        ELSE IF capped < InflationMin THEN InflationMin ELSE capped

(* The rate is not held below its maximum. *)
MutNoCeiling(bondedRatio) ==
    LET i == minter.inflation + InflationRateChange(bondedRatio)
    IN  IF Supply = 0 THEN minter.inflation
        ELSE IF i < InflationMin THEN InflationMin ELSE i

NextInflationRate(bondedRatio) ==
    LET i == minter.inflation + InflationRateChange(bondedRatio)
        capped == IF i > InflationMax THEN InflationMax ELSE i
    IN  IF Supply = 0 THEN minter.inflation
        ELSE IF capped < InflationMin THEN InflationMin ELSE capped

(* The rate is applied to what circulates. *)
MutWithoutPool(inflation) == inflation * others

NextAnnualProvisions(inflation) == inflation * Supply

BlockProvision(annualProvisions) ==
    QuoTruncate(QuoTruncate(annualProvisions, Int64(params.blocksPerYear)), One)

(* The balance of the pool is not looked at. *)
MutOverdraw(amount) == pool' = pool - amount /\ others' = others + amount

(* The transfer is never made. *)
MutPayNothing(amount) == UNCHANGED <<pool, others>>

(* AddCollectedFees: the pool pays all of it or, too small, nothing; the   *)
(* error is logged and the block goes on.                                  *)
AddCollectedFees(amount) ==
    IF amount <= pool
    THEN pool' = pool - amount /\ others' = others + amount
    ELSE UNCHANGED <<pool, others>>

-----------------------------------------------------------------------------
(* With n tokens bonded.  The coin of a negative provision cannot be made: *)
(* the panic is not recovered, and the block never commits.                *)
BeginBlocker(n) ==
    LET inflation == NextInflationRate(BondedRatio(n))
        annual == NextAnnualProvisions(inflation)
        amount == BlockProvision(annual)
    IN  \/ /\ amount >= 0
           /\ minter' = [inflation |-> inflation, annualProvisions |-> annual]
           /\ AddCollectedFees(amount)
           /\ height' = 1 - height
           /\ UNCHANGED <<params, allowed, halted>>
        \/ /\ amount < 0
           /\ halted' = TRUE
           /\ UNCHANGED <<minter, params, allowed, pool, others, height>>

Block == ~ halted /\ \E n \in 0 .. others : BeginBlocker(n)

UpdateParams(p) ==
    /\ ~ halted
    /\ Validate(p)
    /\ params' = p
    /\ UNCHANGED <<minter, allowed, pool, others, halted, height>>

AddAccountToFundModuleSet(a) ==
    /\ ~ halted
    /\ allowed' = allowed \cup {a}
    /\ UNCHANGED <<minter, params, pool, others, halted, height>>

(* Slashing and deposits burn tokens of the stakers. *)
Burn(n) ==
    /\ ~ halted
    /\ others' = others - n
    /\ UNCHANGED <<minter, params, allowed, pool, halted, height>>

(* ExportGenesis gives the balance of the pool as the incentives, x/bank   *)
(* exports it as well, and InitGenesis mints it once more.  The allowed    *)
(* addresses are not exported.                                             *)
Restart ==
    /\ Restarts /\ ~ halted
    /\ 2 * pool + others <= MaxSupply
    /\ pool' = 2 * pool
    /\ allowed' = {}
    /\ UNCHANGED <<minter, params, others, halted, height>>

-----------------------------------------------------------------------------
Init ==
    /\ minter \in [inflation : Inflations, annualProvisions : {0}]
    /\ params = GenesisParams /\ Validate(params)
    /\ allowed = {}
    /\ pool = Incentives
    /\ others = Circulating
    /\ halted = FALSE
    /\ height = 0

Next ==
    \/ Block
    \/ \E p \in ParamsProposed : UpdateParams(p)
    \/ \E a \in Funder : AddAccountToFundModuleSet(a)
    \/ \E n \in 1 .. others : Burn(n)
    \/ Restart

(* Blocks keep coming. *)
Spec == Init /\ [][Next]_vars /\ WF_vars(Block)

-----------------------------------------------------------------------------
TypeOK ==
    /\ minter \in [inflation : Int, annualProvisions : Int]
    /\ params \in Params /\ Validate(params)
    /\ allowed \subseteq Funder
    /\ {pool, others} \subseteq Nat
    /\ halted \in BOOLEAN
    /\ height \in {0, 1}

(* What ValidateMinter asks of the minter of a genesis, "Inflation should  *)
(* be positive", holds of every minter that is stored and exported.        *)
MinterValid == minter.inflation >= 0

(* Tokens reach circulation from the pool only, restarts included, and a   *)
(* block pays no more than its share of maxTokenPerYear, up to one unit of *)
(* the last decimal place of the rate: the ceiling of NextInflationRate    *)
(* survives the roundings of Quo, the change of the supply since the last  *)
(* block and a rate left from other parameters.  Where int64 negates the   *)
(* blocks of a year, a minimum that is not negative is needed.             *)
PayoutsBounded ==
    [][others' > others =>
         LET paid == others' - others
         IN  /\ pool' = pool - paid
             /\ paid * params.blocksPerYear * One
                    <= params.maxTokenPerYear * One + Supply]_vars

(* Every block pays its share of minTokenPerYear, less the fraction        *)
(* TruncateInt cuts off and one unit of the rate, unless the pool lacks    *)
(* the provision, there is no supply to have a rate, or the block panics:  *)
(* the block at which the rate rests like the one that moves it            *)
(* (NextInflationRate, BlockProvision, AddCollectedFees).                  *)
FloorPaid ==
    [][height' # height =>
         \/ Supply = 0
         \/ pool < BlockProvision(minter'.annualProvisions)
         \/ (pool - pool' + 1) * params.blocksPerYear * One
                >= params.minTokenPerYear * One - Supply]_vars

(* inflationRateChange is "maximum annual change in inflation rate": where *)
(* a block moves the rate to no bound, it moves it by no more than the     *)
(* block's share.  A goal of half the supply or more is needed, and blocks *)
(* of a year that int64 keeps or equal bounds.                             *)
RateChangesSlowly ==
    [][minter'.inflation # minter.inflation =>
         LET change == minter'.inflation - minter.inflation
             size == IF change >= 0 THEN change ELSE - change
         IN  \/ minter'.inflation \in {InflationMin, InflationMax}
             \/ 2 * size * params.blocksPerYear
                    <= 2 * params.inflationRateChange + params.blocksPerYear]_vars

(* Once no restart refills the pool and the parameters stay, the           *)
(* incentives are paid out, until a block's provision is less than a token *)
(* or more than what is left, or the chain halts (BeginBlocker,            *)
(* AddCollectedFees).                                                      *)
IncentivesPaidOut ==
    <>[][~ Restart /\ UNCHANGED params]_vars
        => <>[](halted \/ BlockProvision(minter.annualProvisions) \notin 1 .. pool)
=============================================================================
