--------------------------- MODULE HomoraPDNVault ---------------------------
(***************************************************************************)
(* The pseudo delta-neutral vault on Avalanche (HomoraPDNVault.sol with    *)
(* VaultLib and HomoraAdapterLib): users of the Aperture manager share one *)
(* leveraged farming position at Homora, a controller reinvests its        *)
(* rewards and rebalances it, and a fee collector takes shares.            *)
(*                                                                         *)
(* Tokens are counted by their value, as the vault's oracle gives it, and  *)
(* Homora, the pool and the market are the environment: a trade may lose   *)
(* a little, prices and debts move between calls.  A call runs several     *)
(* steps on the vault, each an operator from a vault to the set of vaults  *)
(* it may lead to; the empty set is a revert, and a reverted call is no    *)
(* step.  Entry points are nonReentrant or the controller's.               *)
(***************************************************************************)
EXTENDS Integers, FiniteSets, Functions

CONSTANTS
  Positions,         \* keys of positions, as the Aperture manager gives them
  Deposits,          \* values of a deposit
  Withdrawals,       \* shares that a decrease takes
  Yields,            \* rewards that a unit of time may bring
  Moves,             \* what it may do to the values of collateral and debt
  MaxLoss,           \* the most a trade may lose
  UNITY, Year,       \* denominators of the fees and of their time
  Leverage,          \* collateral per unit of equity
  minDebtRatio, targetDebtRatio, maxDebtRatio,       \* of UNITY
  withdrawFee, harvestFee, managementFee,            \* of UNITY
  reinvestThreshold, maxOpenPerTx, maxWithdrawPerTx, maxCapacity

(* Bounds that make the state space finite.                                *)
CONSTANTS MaxTime, MaxShares

Collector == "collector"      \* positions[0][0]
Holders   == Positions \cup {Collector}

(* A key is a chain and a 128-bit number: there are finitely many.         *)
ASSUME HoldersAssumption == Collector \notin Positions /\ IsFiniteSet(Positions)
ASSUME AmountsAssumption ==
  Deposits \cup Withdrawals \cup Yields \cup {MaxLoss, reinvestThreshold, maxOpenPerTx,
                             maxWithdrawPerTx, maxCapacity} \subseteq Nat
ASSUME MovesAssumption == Moves \subseteq Int \X Nat
ASSUME RatesAssumption ==
  /\ UNITY \in Nat \ {0} /\ Year \in Nat \ {0}
  /\ {withdrawFee, harvestFee, managementFee} \subseteq 0 .. UNITY
  /\ {minDebtRatio, targetDebtRatio, maxDebtRatio} \subseteq Nat

(* What the owner's configuration must satisfy.  The target ratio follows  *)
(* from the leverage.                                                      *)
setConfig ==
  /\ Leverage \in Nat /\ Leverage >= 2
  /\ targetDebtRatio * Leverage = UNITY * (Leverage - 1)
  /\ 0 < minDebtRatio /\ minDebtRatio < targetDebtRatio
  /\ targetDebtRatio < maxDebtRatio /\ maxDebtRatio < UNITY

ASSUME ConfigAssumption == setConfig
ASSUME BoundsAssumption == MaxTime \in Nat /\ MaxShares \in Nat

VARIABLES
  vault,      \* the contract with its position at Homora, see Init
  paused,
  now         \* block.timestamp

vars == <<vault, paused, now>>

-----------------------------------------------------------------------------
(* What a vault consists of: its amounts are unsigned.                     *)
Vaults ==
  [shares : [Holders -> Nat], totalShareAmount : Nat, lastCollectionTimestamp : Nat,
   opened : BOOLEAN, collateral : Nat, debt : Nat, neutral : BOOLEAN,
   tokens : Nat, avax : Nat, reward : Nat, pending : Nat, collected : Nat]

Init ==
  /\ vault = [shares |-> [h \in Holders |-> 0],  \* positions
              totalShareAmount |-> 0,
              lastCollectionTimestamp |-> 0,
              opened     |-> FALSE,  \* homoraPosId is set
              collateral |-> 0,      \* LP tokens at Homora
              debt       |-> 0,      \* both tokens owed to Homora
              neutral    |-> TRUE,   \* the offset is below deltaThreshold
              tokens     |-> 0,      \* the pair's tokens in the contract
              avax       |-> 0,      \* native AVAX in the contract
              reward     |-> 0,      \* reward tokens in the contract
              pending    |-> 0,      \* rewards not harvested yet
              collected  |-> 0]      \* harvest fees that feeCollector got
  /\ paused = FALSE
  /\ now = 0

-----------------------------------------------------------------------------
(* Values and ratios.                                                      *)

getCollateralETHValue(v) == v.collateral

getBorrowETHValue(v) == v.debt

getEquityETHValue(v) == getCollateralETHValue(v) - getBorrowETHValue(v)

(* Homora's borrow and collateral factors are taken as one.                *)
getDebtRatio(v) ==
  (UNITY * getBorrowETHValue(v)) \div getCollateralETHValue(v)

(* The ratio of an open position without collateral: division by zero.     *)
RatioDefined(v) == v.opened => v.collateral > 0

isDebtRatioHealthy(v) ==
  v.opened => minDebtRatio < getDebtRatio(v) /\ getDebtRatio(v) < maxDebtRatio

isDeltaNeutral(v) == v.neutral

Healthy(v) == isDeltaNeutral(v) /\ isDebtRatioHealthy(v)

-----------------------------------------------------------------------------
(* Homora through the adapter.                                             *)

(* What a trade loses, and what of that is left with the adapter: native   *)
(* AVAX and the pair's tokens.                                             *)
Trades == {t \in [loss : 0 .. MaxLoss, avax : 0 .. MaxLoss, tokens : 0 .. MaxLoss] :
             t.avax + t.tokens <= t.loss}
NoTrade == [loss |-> 0, avax |-> 0, tokens |-> 0]

(* What a call of Homora leaves with the adapter comes back to the vault.  *)
homoraExecute(v, rewards, trade) ==
  [v EXCEPT !.reward = @ + rewards, !.avax = @ + trade.avax, !.tokens = @ + trade.tokens]

(* What to borrow on a supply to reach the target leverage.                *)
deltaNeutralMath(supply) == (Leverage - 1) * supply

(* Supplies tokens and borrows.  Only of the supply is a part traded, what *)
(* is borrowed goes to the pool as it is (VaultLib.sol:511).               *)
addLiquidity(v, supply, borrow) ==
  {homoraExecute([v EXCEPT !.opened = TRUE,
                           !.collateral = @ + supply + borrow - trade.loss,
                           !.debt = @ + borrow], 0, trade) :
     trade \in {t \in Trades : t.loss <= supply}}

(* Without a deposit nothing is done.                                      *)
deposit(v, supply) ==
  IF supply = 0 THEN {v} ELSE addLiquidity(v, supply, deltaNeutralMath(supply))

harvest(v) == homoraExecute([v EXCEPT !.pending = 0], v.pending, NoTrade)

(* Native AVAX becomes WAVAX, one of the pair's tokens.                    *)
handleAVAX(v) == [v EXCEPT !.tokens = @ + v.avax, !.avax = 0]

(* The router reverts when it is asked what nothing would be swapped to.   *)
Quoted(v) == v.reward > 0

rewardETHValue(v) == v.reward

(* The reward tokens are swapped to WAVAX, a token of the pair: no native  *)
(* AVAX comes of it.                                                       *)
swapReward(v) == [v EXCEPT !.tokens = @ + v.reward, !.reward = 0]

HarvestFee(v) == (v.avax * harvestFee) \div UNITY

collectHarvestFee(v) ==
  [v EXCEPT !.avax = @ - HarvestFee(v), !.collected = @ + HarvestFee(v)]

(* Mutant: the rewards are left at the farm for the next reinvestment.     *)
reinvestInternal_unless_waiting(v, minReinvest) == {v}

(* The whole balance of the pair's tokens is deposited with the rewards.   *)
reinvestInternal(v, minReinvest) ==
  LET h == harvest(v)
      c == handleAVAX(collectHarvestFee(swapReward(h)))
  IN IF ~v.opened \/ v.totalShareAmount = 0 THEN {v}
     ELSE IF ~Quoted(h) \/ rewardETHValue(h) < minReinvest THEN {}
     ELSE IF rewardETHValue(h) < reinvestThreshold THEN {h}
     ELSE deposit([c EXCEPT !.tokens = 0], c.tokens)

(* The amounts to trade are computed to bring the position back to its     *)
(* leverage, up to rounding.  Where that takes more of a token than is     *)
(* withdrawn (VaultLib.sol:1013), or a debt that is too large to borrow to *)
(* (VaultLib.sol:1124), only to neutral: more is repaid, or borrowed.      *)
OffTarget(collateral, debt) == targetDebtRatio * collateral - UNITY * debt

rebalanceMathRemove(v) ==
  {y \in 0 .. v.debt : OffTarget(v.collateral - y, v.debt - y) >= -UNITY}

rebalanceMathAdd(v) ==
  {y \in 0 .. v.collateral : OffTarget(v.collateral + v.tokens + y, v.debt + y) <= UNITY}

(* Collateral is sold to repay debt; the slippage is limited.              *)
Repaid(v, y, trade) ==
  homoraExecute([v EXCEPT !.collateral = @ - y - trade.loss, !.debt = @ - y,
                          !.neutral = TRUE], 0, trade)

rebalanceRemove(v) == {Repaid(v, y, t) : y \in rebalanceMathRemove(v), t \in Trades}

(* More is borrowed and supplied with the stable tokens in the contract.   *)
Borrowed(v, y, trade) ==
  homoraExecute([v EXCEPT !.collateral = @ + v.tokens + y - trade.loss, !.debt = @ + y,
                          !.tokens = 0, !.neutral = TRUE], 0, trade)

rebalanceAdd(v) == {Borrowed(v, y, t) : y \in rebalanceMathAdd(v), t \in Trades}

rebalanceInternal(v) ==
  IF ~RatioDefined(v) \/ Healthy(v) THEN {}
  ELSE {r \in IF getDebtRatio(v) >= targetDebtRatio THEN rebalanceRemove(v)
              ELSE rebalanceAdd(v) :
          RatioDefined(r) /\ Healthy(r)}

RebalanceIfNeeded(v) ==
  IF ~RatioDefined(v) THEN {}
  ELSE IF Healthy(v) THEN {v} ELSE rebalanceInternal(v)

-----------------------------------------------------------------------------
(* Shares.                                                                 *)

(* Shares minted for the time since the last collection.                   *)
ManagementFee(v) ==
  (((managementFee * (v.totalShareAmount - v.shares[Collector])) \div UNITY)
     * (now - v.lastCollectionTimestamp)) \div Year

(* Shares s for a holder: the total follows.                               *)
Minted(v, h, s) == [v EXCEPT !.shares[h] = @ + s, !.totalShareAmount = @ + s]

(* Mutant: the total does not follow.                                      *)
collectManagementFee_untotalled(v) ==
  [v EXCEPT !.shares[Collector] = @ + ManagementFee(v),
            !.lastCollectionTimestamp = now]

collectManagementFee(v) ==
  [Minted(v, Collector, ManagementFee(v)) EXCEPT !.lastCollectionTimestamp = now]

(* What every deposit and withdrawal does first.                           *)
Prepared(v, minReinvest) ==
  {collectManagementFee(r) :
     r \in UNION {RebalanceIfNeeded(x) : x \in reinvestInternal(v, minReinvest)}}

(* Shares for a change of equity, rounded down.                            *)
SharesFor(v, change) ==
  IF getEquityETHValue(v) = 0 THEN change
  ELSE (v.totalShareAmount * change) \div getEquityETHValue(v)

Limits(change, v) ==
  change <= maxOpenPerTx /\ getEquityETHValue(v) <= maxCapacity

(* What a deposit leads to, from a prepared vault v.                       *)
Deposited(p, amount, minEquity, v) ==
  {Minted(x, p, SharesFor(v, getEquityETHValue(x) - getEquityETHValue(v))) :
     x \in {x \in deposit(v, amount) :
              LET change == getEquityETHValue(x) - getEquityETHValue(v)
              IN /\ getEquityETHValue(v) >= 0 /\ change >= minEquity
                 /\ Limits(change, x)
                 /\ RatioDefined(x) /\ Healthy(x)}}

(* Mutant: the time before a deposit is charged after it.                  *)
depositInternal_charging(p, amount, minEquity, minReinvest) ==
  {collectManagementFee(x) : x \in
     UNION {Deposited(p, amount, minEquity, v) :
              v \in UNION {RebalanceIfNeeded(x) :
                             x \in reinvestInternal(vault, minReinvest)}}}

depositInternal(p, amount, minEquity, minReinvest) ==
  UNION {Deposited(p, amount, minEquity, v) : v \in Prepared(vault, minReinvest)}

(* The withdrawal fee, in shares.                                          *)
collectWithdrawFee(w) == (w * withdrawFee) \div UNITY

(* n of all shares' part of collateral and debt.                           *)
removeLiquidity(v, n) ==
  [v EXCEPT !.collateral = @ - (@ * n) \div v.totalShareAmount,
            !.debt = @ - (@ * n) \div v.totalShareAmount]

(* With it goes the same part of the tokens lying in the contract.         *)
withdraw(v, n) ==
  [removeLiquidity(handleAVAX(v), n) EXCEPT
     !.tokens = ((v.tokens + v.avax) * (v.totalShareAmount - n)) \div v.totalShareAmount]

(* Shares w leave position p, the fee's part of them for the collector.    *)
Redeemed(v, p, w) ==
  [v EXCEPT !.shares = [h \in Holders |->
              v.shares[h] - (IF h = p THEN w ELSE 0)
                + (IF h = Collector THEN collectWithdrawFee(w) ELSE 0)],
            !.totalShareAmount = @ - w + collectWithdrawFee(w)]

(* What the withdrawal of w shares leads to, from a prepared vault v.  The *)
(* fee's shares keep their backing, the trade's loss is the withdrawer's.  *)
Withdrawn(p, w, minReceived, v) ==
  LET x == withdraw(v, w - collectWithdrawFee(w))
      removed == getEquityETHValue(v) - getEquityETHValue(x)
      spared  == v.tokens + v.avax - x.tokens
  IN IF /\ 0 <= removed /\ removed <= maxWithdrawPerTx
        /\ \E loss \in 0 .. MaxLoss :
              loss <= removed /\ removed - loss + spared >= minReceived
        /\ RatioDefined(x) /\ Healthy(x)
     THEN {Redeemed(x, p, w)} ELSE {}

(* Mutant: a position may withdraw what others hold.                       *)
Withdrawable_any(p, w) == w > 0 /\ w <= vault.totalShareAmount

Withdrawable(p, w) == w > 0 /\ w <= vault.shares[p]

withdrawInternal(p, w, minReceived, minReinvest) ==
  IF Withdrawable(p, w)
  THEN UNION {Withdrawn(p, w, minReceived, v) : v \in Prepared(vault, minReinvest)}
  ELSE {}

-----------------------------------------------------------------------------
(* The vault's calls.  A transaction that ends normally leaves one of its  *)
(* outcomes.                                                               *)

Becomes(outcomes) ==
  /\ vault' \in outcomes
  /\ vault'.totalShareAmount <= MaxShares
  /\ UNCHANGED <<paused, now>>

(* openPosition and increasePosition do the same.  The minimal amounts a   *)
(* caller gives only make the call fail, at 0 it may succeed.              *)
increasePosition(p, amount) ==
  /\ ~paused
  /\ Becomes(depositInternal(p, amount, 0, 0))

decreasePosition(p, w) ==
  /\ ~paused
  /\ Becomes(withdrawInternal(p, w, 0, 0))

closePosition(p) ==
  /\ ~paused
  /\ Becomes(withdrawInternal(p, vault.shares[p], 0, 0))

(* The controller's calls are not held back by a pause.                    *)
reinvest(minReinvest) == Becomes(reinvestInternal(vault, minReinvest))

rebalance(minReinvest) ==
  Becomes(UNION {rebalanceInternal(v) : v \in reinvestInternal(vault, minReinvest)})

pause   == ~paused /\ paused' = TRUE /\ UNCHANGED <<vault, now>>

unpause == paused /\ paused' = FALSE /\ UNCHANGED <<vault, now>>

(* Time passes: rewards accrue, interest and prices move the position.     *)
TimePasses ==
  /\ now < MaxTime
  /\ now' = now + 1
  /\ IF vault.opened
     THEN \E y \in Yields, m \in Moves, n \in BOOLEAN :
            /\ vault.collateral + m[1] > vault.debt + m[2]
            /\ vault' = [vault EXCEPT !.pending = @ + y, !.collateral = @ + m[1],
                                      !.debt = @ + m[2], !.neutral = n]
     ELSE vault' = vault
  /\ UNCHANGED paused

Controlled == reinvest(0) \/ rebalance(0)

Next ==
  \/ \E p \in Positions, amount \in Deposits : increasePosition(p, amount)
  \/ \E p \in Positions, w \in Withdrawals : decreasePosition(p, w)
  \/ \E p \in Positions : closePosition(p)
  \/ Controlled
  \/ pause \/ unpause
  \/ TimePasses

Spec == Init /\ [][Next]_vars

-----------------------------------------------------------------------------
(* Properties.                                                             *)

(* Shares, times and amounts are natural numbers: no subtraction of the    *)
(* contract's unsigned integers went below zero.                           *)
TypeOK ==
  /\ vault \in Vaults
  /\ vault.lastCollectionTimestamp <= now
  /\ paused \in BOOLEAN
  /\ now \in 0 .. MaxTime

(* totalShareAmount, by which every deposit and withdrawal divides, is     *)
(* kept apart from the positions' shares and always their sum, the fee     *)
(* collector's included (HomoraPDNVault.sol:486, :562, VaultLib.sol:774).  *)
TotalIsSum ==
  vault.totalShareAmount = SumFunction(vault.shares)

(* The backing of a vault's shares when its rewards, if they are worth it, *)
(* are reinvested.                                                         *)
Worth(v) ==
  getEquityETHValue(v) +
    IF v.opened /\ v.reward + v.pending >= reinvestThreshold
    THEN v.reward + v.pending + v.tokens + v.avax - HarvestFee(v) ELSE 0

(* No call makes the shares of those who do not take part worth less than  *)
(* a trade may lose and the management fee due: neither a newcomer nor a   *)
(* leaver takes a part of the rewards waiting or of the others' equity     *)
(* (depositInternal and withdrawInternal reinvest first).                  *)
ShareWorthKept ==
  [][now' = now =>
       (Worth(vault') + 1) * (vault.totalShareAmount + ManagementFee(vault))
         >= (Worth(vault) - 2 * MaxLoss) * vault'.totalShareAmount]_vars

(* All that backs the shares, invested or not.                             *)
Backing(v) ==
  getEquityETHValue(v) + v.tokens + v.avax + v.reward + v.pending

(* A depositor gets shares for all the equity that was not there before:   *)
(* the management fee of the time before is none of its business (:433).   *)
NewcomerNotCharged ==
  [][\A p \in Positions :
       LET s == vault'.shares[p] - vault.shares[p]
           e == getEquityETHValue(vault')
       IN s > 0 => s * e + Backing(vault)
                     >= (e - Backing(vault)) * vault'.totalShareAmount]_vars

(* "Collect harvest fees" (HomoraPDNVault.sol:680): of the rewards that a  *)
(* call reinvests, the fee collector gets its part.                        *)
HarvestFeeTaken ==
  [][LET taken == (vault.reward + vault.pending) - (vault'.reward + vault'.pending)
     IN now' = now /\ taken > 0 =>
          vault'.collected - vault.collected >= (taken * harvestFee) \div UNITY]_vars

=============================================================================
