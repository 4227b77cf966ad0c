# Verification of the Aperture position managers

Aperture lets a user open a position in an investment strategy from one chain
while the strategy runs on another.  A *manager* contract on each chain keeps
the positions and the strategies of that chain; managers talk to each other by
Wormhole messages, and each strategy is a contract that only its manager calls.
This directory holds TLA+ modules that model these contracts, TLC runs that
check the models on small instances, and proofs that TLAPS checks for every
value of the models' constants.

Contents: 1 the system, 2 modules and code, 3 runs, 4 proofs, 5 what the
models leave out, 6 disagreements found, 7 what is left.

Run a check with `tlc -config X.cfg M` and the proofs of a module with
`tlapm M.tla`; `PROJECT.json` lists every run with its module and its
properties, every definition with the source lines it stands for, and the
theorems.


## 1. The system

Every contract below runs in atomic transactions: a handler and all messages
it sends succeed together or leave no trace.  Concurrency is therefore between
transactions: users, the admin, the off-chain controller, other protocols
and people who merely relay Wormhole's signed messages (VAAs) act in any order.

### Terra manager
`terra_contracts/contracts/terra_manager`, with the packages' `token_util`,
`instruction` and `wormhole`.

- *State*: admin; strategies by id; the next position id, holders, the index of
  holders; the location (strategy id) of every position, Terra's and other
  chains'; the manager registered for each other chain; the instructions
  completed; token balances.
- *Operations*: add and remove a strategy, register an external manager, create
  a position, act on a position (increase, decrease, close), process an
  instruction from another chain, initiate an outgoing token transfer, reply.
- *Interactions*: calls strategies; is called by them to pay out; has the token
  bridge complete incoming transfers and initiate outgoing ones; publishes
  instructions through Wormhole.
- *Hard*: VAAs come in any order, from anybody, repeatedly; an instruction's
  token transfers may have been completed before it comes; other contracts on
  the same foreign chain publish look-alike messages; a sequence number is
  announced before the transfer that will carry it exists.
- *Correct when*: an instruction is performed at most once, pays from its own
  transfers, and cannot be blocked by someone who submits them early; the
  manager always holds what it owes to instructions still to come; only
  positions of the registered manager are kept; the five storage items that
  describe a Terra position agree.

### Anchor Earn proxy
`terra_contracts/contracts/anchor_earn_proxy`.

- *State*: admin and manager addresses; aUST per position; one aUST balance.
- *Operations*: deposit (open, increase), withdraw (decrease, close), change of
  the addresses.
- *Interactions*: called by the Terra manager, calls the Anchor market, pays
  through the manager.
- *Hard*: the contract predicts what the market will mint and pay, at a rate that
  moves, with rounding in each conversion.
- *Correct when*: the balance covers all positions at once; nobody gets more than
  deposits with interest; rounding costs a bounded amount.

### Delta-neutral position manager and position: lifecycle
`terra_contracts/contracts/delta_neutral_position_manager` and
`delta_neutral_position/src/{contract,open,state,util}.rs`.

- *State*: the manager keeps two lists of Mirror assets (open allowed; should be
  closed pre-emptively) and the contract of each position.  A position contract
  keeps the index of its Mirror CDP, whether it has been closed or has left
  its CDP pre-emptively, and tokens: uusd, aUST, the Mirror asset, shares of
  a liquidity farm.
- *Operations*: open (delta-neutral at a fresh oracle price, otherwise off
  market), rebalance and reinvest, close, the two lists.
- *Interactions*: Mirror (CDPs, short farm, lock of short sale proceeds, oracle),
  Terraswap, Spectrum's farm, Anchor; the controller asks for rebalancing.
- *Hard*: between two of its transactions Mirror may liquidate some or all of
  the CDP, the oracle may go stale or the asset be delisted, trades of others
  move the farm, and each handler has to find the funds where they are.
- *Correct when*: no CDP is left that the contract does not act on; a position
  whose CDP is inactive can be closed, out of its aUST; closing leaves no uusd and no aUST
  behind; fees are charged once; proceeds' locks are not restarted; a liquidated
  or abandoned CDP is left for Anchor Earn eventually.

### Delta-neutral position: trading mathematics
`delta_neutral_position/src/{dex_util,rebalance,spectrum_util,math,open}.rs`,
and the handlers of `contract.rs` that use them.

- *State*: none of its own; it reads pools, the farm, the CDP and balances.
- *Operations*: the simulation of Terraswap's swap and its inverse, the farm's
  share arithmetic, five binary searches: how much collateral to put down, how
  much liquidity to withdraw and how much to swap when net long and net short.
- *Hard*: the amounts are computed before the messages are carried out, and must
  agree to the unit with the rounding of three other contracts; what the
  searches compare are floors of floors, which are not monotone.
- *Correct when*: each search ends at a boundary of what it searches; the position ends
  neutral, or long by one unit; no message of a transaction fails
  because of an amount computed for an earlier state.

### Ethereum manager, with CrossChainLib and CurveRouterLib
`ethereum_contracts/contracts/ApertureManager.sol`, `libraries/`.

- *State*: strategies, positions of this chain's users (with the chain and the
  id of their strategy), strategy contracts allowed to disburse, tokens
  whitelisted for strategies, instructions processed, registered managers,
  Curve routes, the fee; tokens and allowances of them.
- *Operations*: create a position and act on one, for a local strategy or by
  publishing an instruction, with the tokens or after a swap through Curve;
  process an incoming instruction; disburse; administration.
- *Interactions*: calls strategies, which take tokens by allowance and call back
  to disburse; has the token bridge complete incoming transfers and take
  outgoing ones, less a fee and what its eight decimals cannot carry.
- *Hard*: as on Terra; besides, several strategy ids may share one contract,
  allowances outlive a call, and ether is wrapped and unwrapped.
- *Correct when*: as on Terra; no allowance is left to a strategy; only
  current strategies disburse; other chains hear of a position what was recorded
  here; strategies can tell positions apart.

### Homora PDN vault
`HomoraPDNVault.sol`, `libraries/VaultLib.sol`, `HomoraAdapterLib.sol`,
`periphery/HomoraAdapter.sol`.

- *State*: shares per position, total shares, the position at Homora, time of
  the last management fee, configuration, the pause.
- *Operations*: open, increase, decrease, close; reinvest and rebalance by the
  controller; pause; configuration by the owner.
- *Interactions*: called by the manager; works at Homora through an adapter;
  swaps rewards at a router.
- *Hard*: shares follow the change of an equity that is measured before and after
  trades of the same call, which first reinvests, perhaps rebalances and
  charges a management fee by elapsed time.
- *Correct when*: the total is the sum of the shares; nobody's deposit or
  withdrawal takes from the shares of the others; a newcomer pays no fee for
  the time before; fees reach the collector.

### Lending optimizer
`LendingOptimizer.sol`.  State: shares per user, the market in use.
Operations: supply, withdraw, optimize (migrate).  *Correct when*: shares are
proportional to what they can withdraw across migrations.

### Controller
`scripts/controller.js`, `scripts/utils/terra.js`: an off-chain loop that fetches positions, decides
which to rebalance, sends batches, and retries on sequence errors.  *Hard*: data
that is stale when used; one failing position fails its batch.

### Solana manager and strategies
`solana_contracts/`: a prototype, mostly single calls of other programs.

### Encodings, interfaces, data collection and deployment
`byte_util.rs`, `BytesLib.sol`; `mirror_protocol`, `spectrum_protocol`,
`interfaces/`; `scripts/`, `ops_node/`, `utils/`: formatting, message types and
I/O, without behaviour of their own.


## 2. Modules and code

| module | models | extends / instantiates |
|---|---|---|
| `PositionLedger` | what a manager that keeps positions promises, on any chain | |
| `TerraManager` | the Terra manager, its token bridge, what other chains publish | implements `PositionLedger` |
| `TerraManagerProofs` | theorems | `TerraManager` |
| `AnchorEarnProxy` | the Anchor Earn strategy and Anchor's rate | |
| `AnchorEarnProxyProofs` | theorems | `AnchorEarnProxy` |
| `DeltaNeutralPosition` | the life of delta-neutral positions: where their funds are | |
| `DeltaNeutralPositionProofs` | theorems | `DeltaNeutralPosition` |
| `DeltaNeutralTrading` | the amounts of one of them: searches, swaps, rounding | |
| `DeltaNeutralTradingProofs` | theorems: the searches, no underflow, neutrality | `DeltaNeutralTrading` |
| `DeltaNeutralTransactionProofs` | theorem: the transactions succeed | `DeltaNeutralTradingProofs` |
| `InstructionLedger` | what a manager promises of the instructions it receives | |
| `ApertureManager` | the manager of an EVM chain, its token bridge, what other chains publish | implements `InstructionLedger` |
| `ApertureManagerProofs` | theorems | `ApertureManager` |
| `HomoraPDNVault` | the vault on Avalanche, its shares and fees | |
| `HomoraPDNVaultProofs` | theorems | `HomoraPDNVault` |
| `SumTheorems` | laws of sums over finite sets, for the proofs of both managers, the Anchor Earn proxy and the vault | |
| `MC...` | constants and symmetries for TLC | the component |

One transaction is one action.  A handler's checks and the failures of the
messages it sends are the guards of its action: a transaction that fails is no
step.  Operators and actions have the names of the functions they translate
where there is one.  Operators described as mutants are not part of the
specification: each is a plausible error in one of the definitions, and
`PROJECT.json` names the property that it breaks.

### TerraManager
Variables correspond to storage items of `state.rs` (named in the comments).
`bank[h]` is what holder `h` has of the one token that stands for all assets;
a strategy's entry is what it holds *or has invested*, so a payout out of it
may be any amount up to that.  `performed` is a history variable: how often an
instruction's action reached a strategy.

- `CreatePosition`, `ExecuteStrategy` (`terra_chain.rs`): a request lists at
  most one asset.  Coins attached to it that it does not list stay with the manager.
- `InitiateOutgoingTokenTransfer` (`cross_chain.rs`), called by a user; when a
  strategy calls it to pay out, it is a part of `Perform`, since it happens in
  the transaction of the decrease or the close.
- `ProcessCrossChainInstruction` takes the instruction, the list of VAAs handed in
  with it (any list), and the strategy's payout.  `MatchesSequence` is
  `process_token_transfer_message`; `SubmitOrAlreadyExecuted` is the sub-messages with
  `reply()`, which counts "VaaAlreadyExecuted" as success and any other failure
  as failure.
- `UpdateAdmin`, `AddStrategy`, `RemoveStrategy`,
  `RegisterExternalChainManager` (`contract.rs`).
- `Accepts` is the strategy's own check of a request (too little, an asset or parameters
  that are not allowed: `anchor_earn_proxy` `contract.rs:103`, `delta_neutral_position_manager`
  `contract.rs:349`, `:655`).  What it refuses is an error, which reverts the whole transaction
  (`terra_chain.rs:193`); `UpdateStrategy` is the change of those settings by the strategies' admins.
- Environment: `PublishOpen` and `PublishExecute` are what an Ethereum manager, or
  another contract in the same format, publishes (with its transfers);
  `SubmitVaa` is anybody's completion of a transfer at the token bridge,
  `OtherOutgoingTransfer` anybody's use of a sequence number.

### AnchorEarnProxy
`deposit`, `withdraw`, `update_admin_config` are the handlers.  `mint_anchor_ust_amount` and
`withdrawal_uusd_amount` are the contract's predictions; `ToAust` and `ToUusd`
are the market's own conversions, which exist separately in the model because
the contract never compares them with what it receives.  `deposited` and
`paidOut` are history variables.

### DeltaNeutralPosition
A contract's record holds `CDP_IDX` (0: not stored), the closed and
pre-emptively closed flags, the *set* of tokens of which it has some, and its
exposure (long amount against the CDP's short amount).  `cdps` is Mirror's map,
with the lock of each CDP's short sale proceeds.  Handlers are built of the internal
messages they send (`claim_and_increase_uusd_balance`,
`achieve_delta_neutral_from_state`, `CloseCdp`, ...), each a function from what
the contract holds to what it can hold afterwards.  `Environment` is Mirror:
`LiquidatePart`, `LiquidateAll`, `OracleChanges`, `Delist`, `LockAges`, CDPs of
others, and the drift of a farm.


### DeltaNeutralTrading
`chain` is one record: the pools on Terraswap and Astroport, Spectrum's farm and
the tokens, farm shares, CDP and locked proceeds of one position, all as
integers.  A message is an operator from such a record to the *set* of records
it leads to: empty if it fails, which makes the whole transaction fail (`Then`),
else of one element.  The definitions are named for the functions of the code;
`achieve_delta_neutral_from_state` is split where the code has its two
branches, each with its two searches, and `Leftmost` is the binary search that
the code writes out five times.  What the code *expects*
(`AfterWithdrawal`, `LongAfterSale`, `LongAfterPurchase`, `simulate_...`) and what the
other contracts *do* (`WithdrawLiquidity`, `SellAsset`, `BuyAsset`, `Unbond`, `Bond`)
are separate definitions with their own rounding: whether they agree is the question.
The actions are the position's transactions, and the moves of others: trades,
compounding, auctions, unlocking, oracle prices.

### ApertureManager
Variables are the contract's storage; `balance` and `allowance` are what it
has of each token and what strategies and the bridge may take of it, `held` what each strategy
keeps for each position key it was given, `published` the instructions it published.
`performed` is a history variable.  A call is one action, built of the internal
functions of the code: `createPositionInternal` and `executeStrategyInternal` either
publish (`publishInstruction`, with fee and dust in `SendCrossChain`) or pass the
assets to a strategy (`StrategyTakes`), for a user's call and for an incoming instruction alike.
The parts of `processApertureInstruction` have the names of `CrossChainLib`'s
functions; `MatchesSequence` and `ToComplete` are the checks of
`validateAndCompleteIncomingTokenTransfer`.  Other chains publish (`Publish...`), and
anybody may complete a transfer first (`CompleteTransfer`).

### HomoraPDNVault
`vault` is one record: the contract's storage with its position at Homora and the
tokens lying in it.  A call runs several steps of the code, each an operator from
a vault to the set of vaults it may lead to, where the empty set is a revert:
`reinvestInternal`, `RebalanceIfNeeded` and `collectManagementFee` make up
`Prepared`, which each deposit and withdrawal does first; then `Deposited` or
`Withdrawn`.  Tokens are counted by the value that the vault's oracle gives them.
`TimePasses` is Homora and the market: rewards accrue, values of collateral and debt move.


## 3. Runs

| run | checks | instance |
|---|---|---|
| `terra_manager` | `TypeOK`, `Solvent`, `HolderIndexConsistent`, `DisbursementsBacked` | two accounts, a strategy contract under two ids, one foreign chain, relayer fee 1, 2 positions, 2 instructions, 2 outgoing transfers |
| `terra_instructions` | `Solvent`, `ExternalPositionsAuthentic`, `ImplementsLedger`, `OpenEventuallyProcessed` | two foreign chains with a former manager beside the registered one, relayer fees 0 and 1, 2 instructions of up to 2 transfers each, a strategy that now refuses to open with one asset and now accepts |
| `anchor_earn` | `TypeOK`, `SharesBacked`, `InterestOnly`, `RoundingBounded` | two positions, amounts 4 and 7, rates 1.0 and 1.3, proportions 1/3, 1/2, 1 |
| `dn_lifecycle` | `TypeOK`, `OwnedCdpsActive`, `InactiveRedeemable`, `PerformanceFeeOnce`, `CloseDisburses`, `LockNotReset`, `LiquidatedMovesToAnchorEarn`, `ShouldCloseHonoured` | one position, 2 CDPs |
| `dn_off_market` | `OffMarketSetUp` — violated | one position |
| `dn_trading` | `TypeOK`, `SearchesEndAtBoundary`, `TradedToNeutralOnTerraswap`, `TransactionsSucceed` | one position of 240 uusd, pools of a few hundred, 4 moves of others |
| `dn_astroport` | `TradedToNeutral` — violated | the same, 2 moves |
| `aperture_manager` | `TypeOK`, `Solvent`, `NoStandingAllowance`, `OnlyCurrentStrategiesDisburse`, `PublishedAsRecorded`, `ImplementsInstructionLedger`, `DisbursementPaid` | one other chain, one user, one strategy, two tokens; 2 incoming instructions, 2 positions, 3 of both together; 2 publications |
| `aperture_keys` | `PositionKeysUnique` — violated | the same with 1 instruction, 1 position, 1 publication |
| `aperture_ether` | `MultiDisbursementPaid` — violated | one incoming disbursement, WETH among its tokens |
| `pdn_vault` | `TypeOK`, `TotalIsSum`, `ShareWorthKept`, `NewcomerNotCharged` | two positions, two units of time |
| `pdn_harvest_fee` | `HarvestFeeTaken` — violated | the same |

What they show:

- **terra_manager.** Whatever is submitted by whomever in whatever order,
  the manager holds the tokens of every transfer that has arrived for an
  instruction it has not performed.  A transfer VAA handed in with the wrong
  instruction, a fee computed twice, or a payout charged to the manager would
  show up as a shortfall.  Holder, index and location of Terra's positions agree;
  each disbursement message names the sequence of a transfer of its own.
- **terra_instructions.** The manager implements `PositionLedger`: no position
  is opened twice or moved to another strategy, no instruction is performed
  twice, no transfer pays twice or before it arrives.  Every foreign
  position was recorded by the registered manager although a former
  one publishes the same ids.  A position opened abroad is eventually opened on Terra
  unless its strategy is removed or comes to refuse it, however early its transfers are completed.
  A refusal reverts the transaction each time; when the strategy
  accepts again, what others completed meanwhile does not stand in the way.
- **anchor_earn.** Shares are covered, nobody gains but by interest, and a
  request costs a position less than the price of one aUST plus one uusd.
- **dn_lifecycle.** In every interleaving of liquidation, staleness,
  delisting, admin, controller and holder, uusd and aUST are where the next handler looks for them:
  a position whose CDP is inactive has aUST to be closed with, and closing
  leaves neither in the contract, but for the collateral that Mirror returned on a liquidation no rebalance has seen yet.
  The asset by which a position was net long when its CDP was closed does stay (section 6).
  A liquidated position that is asked to rebalance again and again leaves for Anchor Earn even if the
  oracle stays stale; one whose asset should be closed gives up its CDP
  once the price stays fresh.
- **dn_trading.** Rebalancing and closing succeed, amounts and all, in
  every state that trades on both exchanges, auctions, compounding and price
  changes lead to, but in the cases that `TransactionsSucceed` names: the sale goes to
  Astroport; the LP tokens to withdraw would give nothing of one token; withdrawing alone turns a net long
  position short; the position has just what it owes and redeems less than it counts; all its means do not buy what
  it owes; the asset is not worth more than uusd, to the oracle or in the pool (`StaysDear`); and, for rebalancing only, what is
  left is too little to mint a unit or more than the pool can buy back.  The first, second, fourth and fifth do
  happen in the instance.  Outside them the price is not `StaysDear` in 3 of 48,759 states and the other
  two cases happen nowhere, so there TLC checks hardly less than success without them; they are named because at
  other sizes they are real, and the theorem of section 4 is about every size.  A rebalance ends neutral or long
  by one unit (`TradedToNeutralOnTerraswap`), unless one uusd buys several units of a cheap asset, and is
  never net short but if a redemption that it counts on is left out or turns it short by itself.  The search for the collateral
  and the one of a net short position for a withdrawal end at a boundary: what they find will do, and the next
  amount (one uusd more, one LP token less) will not (`SearchesEndAtBoundary`).  What they compare is not monotone,
  so there may be several boundaries, and neither the largest collateral nor the least withdrawal need be found (section 6).
- **aperture_manager.** The counterpart on EVM chains of the Terra runs: the manager
  holds what it owes for transfers that have arrived, leaves no
  allowance to a strategy, performs each instruction
  once from its own transfers, and pays every disbursement that it can pay, whoever
  completes the transfers first.  What it publishes of its positions: each is announced once, to the chain and
  with the strategy that were recorded, before any instruction about it, also when
  two are open and publications of both coexist.  The right to
  disburse comes with a strategy and does not outlive it.
- **pdn_vault.** Shares add up, and no call makes the shares of others worth
  less by more than what trades lose and the management fee due.  A newcomer gets shares for
  all that it brings.
- **dn_off_market**, **dn_astroport**, **aperture_keys**, **aperture_ether**,
  **pdn_harvest_fee.** See section 6.

### Bounds, and why they are enough
`TerraManager`: an instruction interacts with another one by sharing a
transfer, a position or the manager's balance, which takes two.  Two chains are
needed where sequences of different chains may be confused, and two transfers per
instruction where lists may be matched out of order
(`terra_instructions`).  `Amounts = {2}` with a fee of one half makes the
fee, the relayer's part and the remainder all differ from zero.
`MaxTerraPositions`, `MaxOutgoing` and `MaxStrategies` are 0 or 1
in `terra_instructions`, which is not about them, and 2 in `terra_manager`.
What a strategy refuses matters to liveness only (a refused request is no step), so `Refusals` is empty in
`terra_manager`; in `terra_instructions` openings with one asset may be refused while those with none or two are not.

`AnchorEarnProxy`: 4 and 7 do not divide by 1.3 or by the proportions, so
each conversion rounds; `MaxDeposited = 11` allows deposits of both sizes for
a position.  `MaxIdle` and `MaxDonated` bound tokens that only ever grow.

`DeltaNeutralPosition`: a position contract has at most one CDP in its life;
`MaxCdps = 2` lets a stranger take an index before or after it.  Positions share the two
lists, the oracle and Mirror's numbering of CDPs and nothing else; the theorems
of section 4 prove the safety properties for any number of them, and
liveness is a matter of each position by itself.

`DeltaNeutralTrading`: an amount times `DECIMAL_FRACTIONAL` has to fit TLC's
32-bit integers, which keeps pools in the hundreds and a Decimal to four digits.  Small
pools are the hard case: a unit is a large part of them and every
division rounds visibly.  Four moves of others cover a trade against the position on each
exchange with a price change and an auction.  `MaxMoves` counts rewards too.
`FitsDecimal`, the hypothesis of four theorems of section 4, holds in every state of the
instance.  `Uint128Max` is above `DECIMAL_FRACTIONAL` as in the code, and both fit the products.

`ApertureManager`: as for Terra, two incoming instructions, whose transfers
may be confused; amounts of 4 with a fee of a quarter and a `WethUnit` of 2 leave a
fee and a dust of WETH.  Two positions and two publications, so that two openings, or an opening and
an instruction about it, coexist and take different turns.  `MaxRequests` = 3 bounds positions and incoming instructions
together: two of either with one of the other, as the interest lies in two of a kind.  One strategy and one asset for each call; two
strategy ids that share a contract, three publications, and lists that name a token twice are covered by the
theorems, which hold for any number.

`HomoraPDNVault`: two units of time let rewards accrue below the threshold
for reinvestment (3 of 5) and above it (6), and let the ratio leave its range either way.
Amounts are of the size of `MaxLoss`, so rounding and losses count.  `MaxShares` bounds
the shares that fees and deposits add.

### Fairness
- `TerraManager!FairSpec` (`terra_instructions`): weak fairness of processing each *open* instruction.
  VAAs stay available for ever, anybody may submit them, a failed transaction
  leaves no trace, and the repository's README (lines 132, 143-145) has a
  controller submit every VAA; the fairness is on processing only, never on publishing, administration or the submission of
  transfers by others.
- `DeltaNeutralPosition`: `dn_lifecycle` assumes no fairness.  Its two liveness properties have the
  assumption in their statement: *if* a position is asked again and again (`Asked`, weak fairness of its
  `rebalance_and_reinvest`, which only the controller may call), *then* it leaves its CDP.  They are about the
  contract, which needs nothing else for it, and claim nothing of
  `scripts/controller.js`.  That script does not ask for every position: it leaves out
  those opened from other chains, ids 905, 1104, 1953 and 2613, and those
  whose price is stale by its own clock (lines 519, 633); a batch whose simulation fails is
  dropped until the next run (345); and a
  position in Anchor Earn, whose state is null, ends the run (680).
  `ShouldCloseHonoured` assumes a price that stays fresh besides.
  `FairSpec`, where all positions are asked, is used by `dn_off_market` only, to
  show what does not happen even then.
- `ApertureManager!FairSpec`: weak fairness of processing each disbursement that
  another chain has published, for the reasons given for `TerraManager`: anybody may
  submit the signed messages, as often as they like.


## 4. Proofs

All are checked by TLAPS for every value of the constants that meets the
modules' named assumptions: no bound of section 3 is used.  `TypeCorrect`,
`SearchesAlwaysEndAtBoundary`, `TradesToNeutralOnTerraswap` and `TransactionsAlwaysSucceed`, about `DeltaNeutralTrading`, have a
hypothesis besides, which is given there.

**SumTheorems.** The laws of `SumFunctionOnSet`: a sum does not depend on the order in which the
fold takes the elements, adding or changing an element adds or changes its value
(`SumUpdate`), sums over disjoint sets add up (`SumUnion`), one element is at most the sum.
The library's induction theorems have an operator parameter and cannot be used; each induction
is by a smallest counterexample instead: strict inclusion is well founded on the subsets of a finite set,
and `<` on the numbers, which the library states of *sets*.

**TerraManagerProofs.** `TypeCorrect`, `HolderIndex`, `ExternalAuthenticity`,
`DisbursementBacking` and `LedgerImplemented` follow from one inductive invariant,
`IInv` (`Invariance`).  The properties are not inductive by themselves:

- `ExternalPositionsAuthentic` needs `InstructionsRecorded`: what an
  instruction says of its position is what its publisher recorded, and there is one open
  instruction for each position.  `ManagersDeployed` says whose instructions count.
- *A position is never reopened* needs `LocationsOpened`: a foreign position exists because
  the one instruction that opens it has been completed, so another open instruction would
  have to be the same one, which `completed_instructions` refuses.
- *A transfer pays once* needs `SequencesUnique`: a sequence belongs to one
  transfer and is named by one instruction, so `MatchesSequence` can
  only pick the instruction's own.
- *Performed once* needs `PerformedCompleted`.
- `DisbursementsBacked` needs `OutSequences`: the bridge's counter is above
  all sequences used.

`LedgerImplemented` shows that initial states map to initial states and each
action of `TerraManager` to `Open`, `Act`, `Arrive` or a stutter of `PositionLedger`.

`ManagerSolvent` (`Solvent`) has an invariant of its own on top of `IInv`.  What is owed is the sum, over the
transfers that have arrived and belong to no completed instruction, of what the bridge left of
each (`Owed`); an instruction that is processed takes exactly its own transfers out of
that sum, because by `IInv` they are no other's, and pays no more than they
brought, because `TransfersPayable` keeps the relayer's fee within the amount.
Every other step leaves the sum alone and pays what it was given.

**AnchorEarnProxyProofs.** `TypeCorrect`; `AllSharesBacked` (`SharesBacked`), inductive with
`TypeOK`, as the market mints what the contract predicts and a
withdrawal burns what the position gives up; `NoMoreThanInterest` (`InterestOnly`),
whose steps rest on lemmas that bound integer division from both sides; and
`RoundingCosts` (`RoundingBounded`), by one lemma for a deposit and one for a
withdrawal.  `InterestOnly` is inductive with `TypeOK`: all that a step needs is
that the rate has not fallen and each conversion rounds down.

**DeltaNeutralPositionProofs.** `Invariance` proves `TypeOK`,
`OwnedCdpsActive`, `ContractsSound`, `IndicesLinked` and `AustInCdps` together; `CdpsActedOn`,
`InactiveCanClose` (`InactiveRedeemable`), `ClosingDisburses` (`CloseDisburses`), `FeeOnce` and `LockKept` follow.
`SoundContract`, which says of uusd and aUST what a contract may hold in each of its phases (not set up, active, left for
Anchor Earn, closed), is needed because what a rebalance leaves in the
contract depends on what the previous ones left; `IndicesLinked` relates
stored indices to Mirror's counter, so that a new CDP is never another contract's
recorded one; `AustInCdps` says that a contract has no aUST beside that in its CDP, which is why
closing the CDP leaves none.

**ApertureManagerProofs.** Three invariants beside `TypeOK`, each for one theorem:

- `Rights` (`OnlyCurrentStrategiesDisburse`) by `RightsInv`, which adds that all
  strategy ids in use are below the next one: a strategy that is added could otherwise
  take the metadata, and leave the right, of another contract.
- `Publications` (`PublishedAsRecorded`) by `PublishedInv`, which adds that positions are
  numbered without gaps (a new one's number has been announced nowhere) and that each
  position for another chain has been announced there (so an execution follows its opening).
- `LedgerImplemented` (`ImplementsInstructionLedger`) by `LedgerInv`: no two
  transfers of a chain share a sequence and no two instructions name the same one,
  as sequences in use are past ones; so what `MatchesSequence` accepts are the
  instruction's own transfers, and no other instruction has used them.  Each action is then a
  step `Arrive` or `Pay` of `InstructionLedger`, or a stutter.

- `ManagerSolvent` and `NothingApproved` (`Solvent`, `NoStandingAllowance`) by `SolventInv`:
  the balance of each token covers what is owed and what the bridge may still take, and no strategy has an
  allowance.  A call is followed through its parts: whatever it approves for a strategy
  is the sum of the assets passed on, token by token, and taken in the same call, also
  when a list names a token twice; what it publishes is funded by what came in.

**HomoraPDNVaultProofs.** The invariant `IInv` says that the total is the sum of the shares, that a vault
without a position at Homora has no shares, and that one with a position owes less than it owns,
without which the divisions by equity and collateral are not defined.  `TypeCorrect` (no unsigned subtraction
goes below zero) and `SharesAddUp` (`TotalIsSum`) follow.  A call is a chain of steps; each has a lemma on how far it
may move the equity, the worth and the backing of the shares, and `WorthKept` (`ShareWorthKept`)
and `NewcomersNotCharged` (`NewcomerNotCharged`) put the lemmas of a chain together.  The
products of shares and equities are treated by lemmas that name each product first, as the
solver does no non-linear arithmetic of five variables at once.

**DeltaNeutralTradingProofs.** The searches of the model are recursive functions, chosen by `CHOOSE`; the
proofs first show by a smallest counterexample that functions so defined exist
(`LeastNumber`, `SolutionExtends`).  Then:

- `LeftmostBoundary`: what a binary search finds is a boundary of the set it searches, whatever that
  set.  `LeftmostLeast`: it is the least element if the set has all that is above one of its members.
- `OfferLeast`: the inverse of a swap is such a search, as a swap's return is monotone in the offer despite two
  roundings and the commission, so it finds the least offer.
- `CollateralBoundary`: the collateral put down is nothing or feasible, and one unit more is not feasible, or is the whole
  budget, or the search stopped at an overflow.
- `TypeCorrect` (`TypeOK`): no subtraction of a transaction goes below zero, no
  pool is emptied, shares and LP tokens stay within their totals.  The hypothesis is `[]FitsDecimal`: there are at most
  `DECIMAL_FRACTIONAL`, that is 10^18, units of each token, counted with the next rewards, deposit
  or mint.  Some such hypothesis is needed: a swap's return is computed with 18
  decimals, and an offer of more units than that would round the rest of the
  pool to nothing.  10^18 units are 10^12 UST or shares; the model has trades of any size, so nothing
  else bounds what others bring.
- `SearchesAlwaysEndAtBoundary` (`SearchesEndAtBoundary`), with the same hypothesis, of every reachable state.
  Two consequences: `LargestCollateral`, the collateral is the largest feasible amount *if* roundings make no
  amount infeasible that is below a feasible one (section 6 has a case where they do); and `GivesUpOutOfMeans`, a net
  short position gives up only if withdrawing all of its liquidity would not suffice.
- `TradesToNeutralOnTerraswap` (`TradedToNeutralOnTerraswap`), with the same hypothesis: trading leaves the
  position with what it owes or one unit more.  *Not short*: the offer found is on the right side of the boundary
  (`OfferWhenLongIs`, `NotShortFromShort`), and what is counted when messages have been carried out is at
  least what was simulated (`LongAsSimulated`, `RedeemedAsSimulated`).  *One unit at most*: one
  more unit offered moves the long amount by at most one, as a swap in a pool with no more of the asset than
  of uusd returns at most one more (`SwapReturnNext`, `PurchaseNext`), also when the redemption is left out
  (`KeptAsSimulated`).  Left aside are sales on Astroport (disagreement `dn_astroport`); for the lower bound,
  LP tokens whose redemption gives nothing of one token and withdrawals that turn the position short since
  the farm takes a share too many (`TurnsShort`); for the upper bound, purchases of an asset of which one
  uusd buys several units (`BuysCheaply`).  An earlier form of this property bounded the difference by two units if a
  redemption is left out; the proof showed that this is an accident of small instances, and that one unit is the bound from above.

**DeltaNeutralTransactionProofs.** `TransactionsAlwaysSucceed` (`TransactionsSucceed`), again with `[]FitsDecimal`: in
every reachable state closing and rebalancing have an outcome, but in the cases named in section 3.  No induction
is needed beyond `TypeCorrect`; the proof follows the messages in their order, each lemma showing that a message
succeeds and what the next one finds:

- The farm: shares rounded up suffice for what is unbonded and are no more than the position has, and what remains is worth no more
  (`SharesSuffice`, `SharesRemain`); so any withdrawal up to the position's LP tokens is unbonded (`UnbondSucceeds`).
- Trading: a net long position can always withdraw enough (`WithdrawalWhenLongExists`), and what it then sells
  returns something (`SwapReturnsSome`, for a pool with less of the asset than of uusd); a net short one stays short
  until it buys (`StaysShortWithdrawing`), so that what it buys is something.  After it, what is left can be redeemed
  for what is owed (`TradingSucceeds`), which is stronger than owning it on paper.
- Closing: the LP tokens to redeem are found and redeemed (`IncreaseSucceeds`), and all of the debt is burned.
- The collateral ratio: below the minimum the amount to burn is positive and no more than what is owed, because the midpoint,
  rounded to nine decimals twice, is still above the minimum (`PricesAssumption`, `BelowMinimum`); above the maximum there is an excess.
- Reinvesting: the collateral found is feasible, so that the rest of the budget buys back what is minted
  (`CollateralBoundary`, `OfferLeast`).

Only model-checked:

- All liveness: fairness and ENABLED are out of the prover's reach.
- The five violated properties, which are refuted and cannot be proved.


## 5. Abstractions and omissions

Terra manager
: Amounts of one token; taxes are zero; a local request lists one asset at most.
  `RelayerFees` may be positive, as the Terra code handles it, though the Ethereum
  manager passes an arbiter fee of 0.  The fee that the Ethereum
  manager takes before transferring is not modelled, nor are the position
  ids that its local positions use up.  A transfer VAA is a real one:
  the token bridge verifies its emitter, which the manager
  leaves to it.  Coins that a request does not list stay with the manager, as in the code.  The contract saves whatever
  manager its admin registers for a chain; the admin of the model registers a chain's one deployment
  (`Deployed`).  A fresh deployment would restart its ids and could open a position
  again, a hazard that no property covers.  What a strategy refuses depends on the request's kind and the number of its assets.
  No message changes the fee rate.

Anchor Earn proxy
: Anchor's rate only grows.  A deposit too small to mint one aUST is allowed.  uusd that comes with a
  decrease or a close stays in the contract (`idle`), as in the code.  If the admin replaces
  the manager's address, the model's new manager uses
  the same position keys; nothing in the code keeps them apart.

Delta-neutral
: Amounts, prices, collateral ratios, minimum sizes and rounding dust are abstracted;
  a swap that the contract's simulation finds feasible succeeds.  An action is taken by the
  caller the code authorises.  A CDP may be modified at a fresh price (`contract.rs:225`)
  or, by assumption, at the final price of a delisted asset.  Mirror's behaviour on liquidation is an assumption:
  part may go, or all, with proceeds released to the owner and, if `Refunds`
  allows, collateral returned.  The Terra manager opens each key once
  (`LedgerImplemented` is what justifies it).

Delta-neutral trading
: One position with a CDP, whose life ends when it is closed or leaves the CDP;
  how it leaves pre-emptively, and the raising of its collateral range, is left to
  `DeltaNeutralPosition`.  Anchor's rate and the collateral oracle's price of aUST are one, so collateral
  counts in uusd.  Rewards arrive as uusd from pools not in the model.  Mirror's protocol fee on
  burning is left out; Spectrum's deposit fee rounds to nothing for amounts of this size.
  The assumptions on the constants say that pools start with some of each token, that
  others have LP tokens too, that the pools' commission is less than everything, that 10^18 is less than `u128::MAX`, and
  that prices and the collateral ratio do not vanish in Mirror's arithmetic of nine decimals, nor is the midpoint of the range
  rounded there to its minimum (`RatioAssumption`, `PricesAssumption`); the ranges of the code are tenths wide.
  A transfer of nothing fails, as CW20 tokens do.  The order of messages is that of the code.

Ethereum manager
: A strategy is any contract that takes what it is allowed, keeps it by position key, and pays out
  at most that on a decrease and all of it on a close.  Tokens other than WETH have no
  more decimals than the bridge carries.  Swaps yield any of `Assets`; a
  route exists or not.  Wormhole's addresses do not change, messages are signed,
  and the owner registers any contract as the manager of another chain, or none.  Instructions that Terra and
  EVM managers publish have the formats of the code; that Terra cannot read a
  multi-token disbursement is no step of either module.

Homora PDN vault
: Everything is counted by value, so price impact between the pair's tokens is `MaxLoss`
  or `Moves`.  Homora's collateral and borrow factors are one, with which `setConfig` relates the
  target ratio to the leverage.  Of the formulas for rebalancing only their aim is kept:
  the exposure becomes neutral, and collateral and debt are afterwards at the target ratio, up to rounding, or, where the code
  falls back on neutrality alone (`VaultLib.sol:1013`, `:1124`), on the safe side of it.  What a trade leaves with the adapter, AVAX or tokens of the pair,
  is any part of its loss.  A call fails if the harvest has brought no reward, as the router quotes nothing for an amount of zero.
  The pair includes WAVAX, into which rewards and native AVAX turn.  The controller and
  the owner's settings are constants; the minimal amounts a caller asks for are 0, since they only make a
  call fail.

### Not modelled
- *Delta-neutral manager*: messages that replace addresses or fee rates, migration, queries.
- *Curve router*: which exchange function a pool needs and what it yields.  That is a table of
  external contracts' signatures.
- *Lending optimizer*: `ethereum_contracts/README.md:21` sets it aside, no other contract
  calls it, and its operations are calls of lending markets that are not in the
  repository.
- *Controller*: an off-chain script of queries and retries.  Its transactions are actions of the
  position modules, in any order; no property assumes that it asks (section 3).
- *Solana*: a prototype; most entry points store their arguments or wrap one call of another program.
- *Encodings, interfaces, data collection, deployment*: no state of their own.


## 6. Disagreements between code and comments

- `dn_off_market`.  `contract.rs:260` says of a position that was opened while the
  oracle was stale: "Now that oracle price is fresh, we set up the DN position."  That
  branch never stores `CDP_IDX`, which the sanity check scheduled at
  `contract.rs:156` loads, so every such transaction reverts.  The run shows a
  position that stays in Anchor Earn for ever though its price is fresh and the
  controller keeps asking.
- `dn_astroport`.  `rebalance.rs:223` wants the position to end in "either the neutral state
  or a slightly net long state".  The amount to sell is found for a sale to Terraswap, in whose pool the
  farmed liquidity is; at line 249 it may be sold on Astroport.  Terraswap's pool
  then does not gain the asset, and the position ends net short by several units.
- `aperture_keys`.  `src/README.md:97` has each position identified by "the ordered pair
  (chain_id, position_index)".  A position opened from another chain reaches the strategy under the pair of
  its number and *this* chain's id (`CrossChainLib.sol:498`), which is the key of
  this chain's own position with that number.
- `aperture_ether`.  `CrossChainLib.sol:451` says "Validate token transfer VMs and disburse
  tokens to the recipient."  For WETH among several tokens, line 469 has the WETH contract send ether to the
  manager, which has no function to receive any: the transaction reverts, whoever
  tries and however often.
- `pdn_harvest_fee`.  `HomoraPDNVault.sol:680` says "Collect harvest fees".  The rewards have just been
  swapped into WAVAX, a token; line 681 takes the fee of the contract's native AVAX,
  of which there is none but for what Homora may have refunded.


Two more are a matter of a few base units, and have no run of their own:

- `contract.rs:491` says that if the CDP of a position is not active, "all funds are
  invested in Anchor Earn, so we redeem aUST for UST and disburse."  Closing the CDP burns what is owed and no
  more (`contract.rs:629`), after trading that may end slightly net long: the asset or LP
  tokens of that difference stay in the contract, and closing the position does not look for them.  `CloseCdpHoldings`
  has it so; `InactiveRedeemable` and `CloseDisburses` claim nothing of what is left over.
- `open.rs:36` says that the search finds the "largest possible" collateral.  The search at
  line 92 takes an amount for infeasible if a smaller one is; but to buy back one unit more may cost less, by rounding,
  when more is minted than the pool has.  With the operators of `DeltaNeutralTrading`, a deposit of 267 uusd in a pool of 60 of the asset
  and 76 uusd at a price of 1.2 puts down 219 uusd where 221 would do.  Hence `SearchesEndAtBoundary` claims a boundary,
  not the largest amount, and `LargestCollateral` has a hypothesis.

## 7. What is left

- `CrossChainSystem`: Terra's and an EVM chain's manager joined by Wormhole.  Both
  modules have the other chain as an environment that publishes what the
  code publishes; joined, they could show that every token that leaves
  one chain is credited once on the other or known to be stuck.
- Of `DeltaNeutralTrading`, conditions on pools and commission under which the cost of buying back is monotone, with
  which `LargestCollateral` has no hypothesis left; and rebalancing of an asset that is worth less than uusd, which the proof leaves aside.
- The controller's batches against positions that always fail, once its script is to
  be relied upon for liveness.
