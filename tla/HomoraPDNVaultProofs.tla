------------------------ MODULE HomoraPDNVaultProofs ------------------------
(***************************************************************************)
(* Proofs about HomoraPDNVault: the shares always add up, no unsigned      *)
(* subtraction goes below zero, and for every configuration no call takes  *)
(* from the shares of the others more than the trades may lose and the     *)
(* management fee due.                                                     *)
(*                                                                         *)
(* A call is a chain of steps on a vault.  Each has a lemma that says what *)
(* it keeps and how the equity, the worth and the backing of the shares    *)
(* may move; the action lemmas only put those of a chain together.         *)
(***************************************************************************)
EXTENDS HomoraPDNVault, SumTheorems

-----------------------------------------------------------------------------
(* The inductive invariant.  A vault without a position at Homora has      *)
(* issued no share; one with a position owes less than it owns, which is   *)
(* what keeps the divisions by its equity and by its collateral defined.   *)

Covered(v) ==
  IF v.opened THEN v.debt < v.collateral
  ELSE /\ v.neutral /\ v.collateral = 0 /\ v.debt = 0
       /\ v.totalShareAmount = 0

Summed(v) == v.totalShareAmount = SumFunction(v.shares)

Sound(v) ==
  /\ v \in Vaults /\ Summed(v) /\ Covered(v)
  /\ v.lastCollectionTimestamp <= now

IInv ==
  /\ Sound(vault)
  /\ paused \in BOOLEAN
  /\ now \in 0 .. MaxTime

(* Two vaults with the same shares, and the same fee due on them.          *)
SameShares(v, x) ==
  /\ x.shares = v.shares
  /\ x.totalShareAmount = v.totalShareAmount
  /\ x.lastCollectionTimestamp = v.lastCollectionTimestamp

Equity(v) == v.collateral - v.debt

-----------------------------------------------------------------------------
(* Arithmetic.                                                             *)

LEMMA Division ==
  ASSUME NEW a \in Int, NEW t \in Nat, t > 0
  PROVE  a \div t \in Int /\ t * (a \div t) <= a /\ a < t * (a \div t) + t
OBVIOUS

(* A part n of t of a.                                                     *)
LEMMA PartOf ==
  ASSUME NEW a \in Nat, NEW n \in Nat, NEW t \in Nat, n <= t, t > 0
  PROVE  (a * n) \div t \in 0 .. a
OBVIOUS

LEMMA QuotientNat ==
  ASSUME NEW a \in Nat, NEW t \in Nat, t > 0
  PROVE  a \div t \in Nat
OBVIOUS

(* A debt ratio below one is a debt below the collateral.                  *)
LEMMA RatioBelowOne ==
  ASSUME NEW d \in Nat, NEW c \in Nat, NEW u \in Nat, c > 0,
         (u * d) \div c < u
  PROVE  d < c
OBVIOUS

-----------------------------------------------------------------------------
(* The steps of a call.                                                    *)

LEMMA EquityDef ==
  ASSUME NEW v
  PROVE  getEquityETHValue(v) = Equity(v)
BY DEF getEquityETHValue, getCollateralETHValue, getBorrowETHValue, Equity

LEMMA HarvestFeeBound ==
  ASSUME NEW v \in Vaults
  PROVE  HarvestFee(v) \in 0 .. v.avax
BY PartOf, RatesAssumption DEF HarvestFee, Vaults

(* A vault that is healthy and whose ratio is defined owns more than it    *)
(* owes.                                                                   *)
LEMMA HealthyCovered ==
  ASSUME NEW v \in Vaults, v.opened, RatioDefined(v), Healthy(v)
  PROVE  v.debt < v.collateral
<1>1. v.collateral > 0 /\ v.collateral \in Nat /\ v.debt \in Nat
  BY DEF RatioDefined, Vaults
<1>2. (UNITY * v.debt) \div v.collateral < maxDebtRatio
  BY DEF Healthy, isDebtRatioHealthy, getDebtRatio, getBorrowETHValue,
         getCollateralETHValue
<1>3. maxDebtRatio < UNITY /\ UNITY \in Nat /\ maxDebtRatio \in Nat
  BY ConfigAssumption, RatesAssumption DEF setConfig
<1>4. UNITY * v.debt \in Int
  BY <1>1, <1>3
<1>5. (UNITY * v.debt) \div v.collateral < UNITY
  BY <1>1, <1>2, <1>3, <1>4, Division
<1>. QED
  BY <1>1, <1>3, <1>5, RatioBelowOne

(* A call of Homora adds what it leaves with the adapter.                  *)
LEMMA ExecuteStep ==
  ASSUME NEW v \in Vaults, NEW t \in Trades
  PROVE  LET x == homoraExecute(v, 0, t)
         IN /\ x \in Vaults /\ SameShares(v, x) /\ x.opened = v.opened
            /\ x.collateral = v.collateral /\ x.debt = v.debt
            /\ x.reward = v.reward /\ x.pending = v.pending
            /\ x.avax = v.avax + t.avax /\ x.tokens = v.tokens + t.tokens
<1>1. /\ v.avax + t.avax \in Nat /\ v.tokens + t.tokens \in Nat
      /\ v.reward + 0 = v.reward /\ v.reward \in Nat
  BY AmountsAssumption DEF Vaults, Trades
<1>2. homoraExecute(v, 0, t) =
        [v EXCEPT !.avax = v.avax + t.avax, !.tokens = v.tokens + t.tokens]
  BY <1>1 DEF homoraExecute, Vaults
<1>3. [v EXCEPT !.avax = v.avax + t.avax, !.tokens = v.tokens + t.tokens] \in Vaults
  BY <1>1 DEF Vaults
<1>. QED
  BY <1>2, <1>3 DEF Vaults, SameShares

LEMMA TradeType ==
  ASSUME NEW t \in Trades
  PROVE  /\ MaxLoss \in Nat /\ t.loss \in 0 .. MaxLoss
         /\ t.avax \in Nat /\ t.tokens \in Nat
         /\ t.avax + t.tokens <= t.loss
BY AmountsAssumption DEF Trades

LEMMA AddLiquidityStep ==
  ASSUME NEW v \in Vaults, NEW supply \in Nat, NEW borrow \in Nat,
         NEW x \in addLiquidity(v, supply, borrow)
  PROVE  /\ x \in Vaults /\ x.opened /\ SameShares(v, x)
         /\ Equity(x) >= Equity(v) /\ Equity(x) >= Equity(v) + supply - MaxLoss
         /\ Backing(x) <= Backing(v) + supply
<1>1. PICK t \in Trades :
        /\ t.loss <= supply
        /\ x = homoraExecute([v EXCEPT !.opened = TRUE,
                                       !.collateral = @ + supply + borrow - t.loss,
                                       !.debt = @ + borrow], 0, t)
  BY DEF addLiquidity
<1> DEFINE c == v.collateral + supply + borrow - t.loss
           d == v.debt + borrow
           a == [v EXCEPT !.opened = TRUE, !.collateral = c, !.debt = d]
<1>2. /\ v.collateral \in Nat /\ v.debt \in Nat /\ v.reward \in Nat
      /\ v.avax \in Nat /\ v.tokens \in Nat /\ v.pending \in Nat
  BY DEF Vaults
<1>3. c \in Nat /\ d \in Nat
  BY <1>1, <1>2, TradeType
<1>4. x = homoraExecute(a, 0, t)
  BY <1>1
<1> HIDE DEF c, d
<1>5. /\ a \in Vaults /\ SameShares(v, a) /\ a.opened
      /\ a.collateral = c /\ a.debt = d /\ a.reward = v.reward
      /\ a.pending = v.pending /\ a.avax = v.avax /\ a.tokens = v.tokens
  BY <1>3 DEF Vaults, SameShares
<1> HIDE DEF a
<1>6. /\ x \in Vaults /\ SameShares(v, x) /\ x.opened
      /\ x.collateral = c /\ x.debt = d /\ x.reward = v.reward
      /\ x.pending = v.pending
      /\ x.avax = v.avax + t.avax /\ x.tokens = v.tokens + t.tokens
  BY <1>4, <1>5, ExecuteStep DEF SameShares
<1>7. Equity(x) = Equity(v) + supply - t.loss
  BY <1>1, <1>2, <1>3, <1>6, TradeType DEF Equity, c, d
<1>8. /\ Backing(x) = Equity(x) + x.tokens + x.avax + x.reward + x.pending
      /\ Backing(v) = Equity(v) + v.tokens + v.avax + v.reward + v.pending
      /\ Equity(v) \in Int
  BY <1>2, EquityDef DEF Backing, Equity
<1>. QED
  BY <1>1, <1>2, <1>6, <1>7, <1>8, TradeType

LEMMA DepositStep ==
  ASSUME NEW v \in Vaults, NEW supply \in Nat, NEW x \in deposit(v, supply)
  PROVE  /\ x \in Vaults /\ SameShares(v, x)
         /\ Equity(x) >= Equity(v) /\ Equity(x) >= Equity(v) + supply - MaxLoss
         /\ Backing(x) <= Backing(v) + supply
         /\ (IF supply = 0 THEN x = v ELSE x.opened)
<1>1. CASE supply = 0
  <2>1. x = v
    BY <1>1 DEF deposit
  <2>. QED
    BY <2>1, <1>1, AmountsAssumption, EquityDef
       DEF Vaults, SameShares, Equity, Backing
<1>2. CASE supply # 0
  <2>1. x \in addLiquidity(v, supply, deltaNeutralMath(supply))
    BY <1>2 DEF deposit
  <2>2. deltaNeutralMath(supply) \in Nat
    BY ConfigAssumption DEF setConfig, deltaNeutralMath
  <2>. QED
    BY <1>2, <2>1, <2>2, AddLiquidityStep
<1>. QED
  BY <1>1, <1>2

(* A step that leaves the shares alone and the equity positive.            *)
LEMMA SoundKept ==
  ASSUME NEW v, Sound(v), NEW x \in Vaults, SameShares(v, x),
         x.opened, Equity(x) > 0
  PROVE  Sound(x)
BY DEF Sound, SameShares, Summed, Covered, Equity, Vaults

(* The rewards on their way into the position.                             *)
LEMMA HarvestStep ==
  ASSUME NEW v \in Vaults
  PROVE  LET h == harvest(v)
             c == handleAVAX(collectHarvestFee(swapReward(h)))
         IN /\ h \in Vaults
            /\ h = [v EXCEPT !.pending = 0, !.reward = @ + v.pending]
            /\ [c EXCEPT !.tokens = 0] \in Vaults
            /\ [c EXCEPT !.tokens = 0] =
                 [v EXCEPT !.pending = 0, !.reward = 0, !.avax = 0, !.tokens = 0,
                           !.collected = @ + HarvestFee(v)]
            /\ c.tokens = v.tokens + v.reward + v.pending + v.avax - HarvestFee(v)
<1> DEFINE h == harvest(v)
           s == swapReward(h)
           f == collectHarvestFee(s)
           c == handleAVAX(f)
<1>1. h = [v EXCEPT !.pending = 0, !.reward = @ + v.pending]
  <2> DEFINE o == [v EXCEPT !.pending = 0]
  <2>1. /\ v.avax + 0 = v.avax /\ v.tokens + 0 = v.tokens
        /\ o.reward = v.reward /\ o.avax = v.avax /\ o.tokens = v.tokens
    BY DEF Vaults
  <2>2. h = [o EXCEPT !.reward = o.reward + v.pending, !.avax = o.avax + 0,
                      !.tokens = o.tokens + 0]
    BY DEF harvest, homoraExecute, NoTrade
  <2>. QED
    BY <2>1, <2>2 DEF Vaults
<1>2. h \in Vaults
  <2> DEFINE n == v.reward + v.pending
  <2>1. n \in Nat
    BY DEF Vaults
  <2>2. h = [v EXCEPT !.pending = 0, !.reward = n]
    BY <1>1
  <2> HIDE DEF n, h
  <2>3. [v EXCEPT !.pending = 0, !.reward = n] \in Vaults
    BY <2>1 DEF Vaults
  <2>. QED
    BY <2>2, <2>3
<1>3. s = [v EXCEPT !.pending = 0, !.reward = 0,
                    !.tokens = @ + (v.reward + v.pending)]
  BY <1>1 DEF swapReward, Vaults
<1>4. HarvestFee(s) = HarvestFee(v)
  BY <1>3 DEF HarvestFee, Vaults
<1>5. f = [v EXCEPT !.pending = 0, !.reward = 0,
                    !.tokens = @ + (v.reward + v.pending),
                    !.avax = @ - HarvestFee(v), !.collected = @ + HarvestFee(v)]
  BY <1>3, <1>4 DEF collectHarvestFee, Vaults
<1>6. c = [v EXCEPT !.pending = 0, !.reward = 0,
                    !.tokens = v.tokens + (v.reward + v.pending)
                                 + (v.avax - HarvestFee(v)),
                    !.avax = 0, !.collected = @ + HarvestFee(v)]
  BY <1>5 DEF handleAVAX, Vaults
<1>7. HarvestFee(v) \in Nat
  BY HarvestFeeBound DEF Vaults
<1>8. [c EXCEPT !.tokens = 0] =
        [v EXCEPT !.pending = 0, !.reward = 0, !.avax = 0, !.tokens = 0,
                  !.collected = @ + HarvestFee(v)]
  BY <1>6 DEF Vaults
<1>9. v.collected + HarvestFee(v) \in Nat
  BY <1>7 DEF Vaults
<1>10. [c EXCEPT !.tokens = 0] \in Vaults
  <2>1. [v EXCEPT !.pending = 0, !.reward = 0, !.avax = 0, !.tokens = 0,
                  !.collected = v.collected + HarvestFee(v)] \in Vaults
    BY <1>9 DEF Vaults
  <2>. QED
    BY <2>1, <1>8
<1>11. c.tokens = v.tokens + (v.reward + v.pending) + (v.avax - HarvestFee(v))
  BY <1>6 DEF Vaults
<1>12. c.tokens = v.tokens + v.reward + v.pending + v.avax - HarvestFee(v)
  BY <1>11, <1>7 DEF Vaults
<1>. QED
  BY <1>1, <1>2, <1>8, <1>10, <1>12

(* Worth lies between the equity and all that backs the shares.            *)
LEMMA WorthBounds ==
  ASSUME NEW v \in Vaults
  PROVE  /\ Equity(v) \in Int /\ Worth(v) \in Int /\ Backing(v) \in Int
         /\ Equity(v) <= Worth(v) /\ Worth(v) <= Backing(v)
<1>1. HarvestFee(v) \in 0 .. v.avax
  BY HarvestFeeBound
<1>. QED
  BY <1>1, EquityDef, AmountsAssumption DEF Worth, Backing, Equity, Vaults

(* A reinvestment turns what the rewards are worth into equity.            *)
LEMMA ReinvestStep ==
  ASSUME NEW v, Sound(v), NEW m \in Nat, NEW x \in reinvestInternal(v, m)
  PROVE  /\ Sound(x) /\ SameShares(v, x) /\ x.opened = v.opened
         /\ Backing(x) <= Backing(v) /\ Worth(x) >= Worth(v) - MaxLoss
         /\ v.opened /\ v.totalShareAmount > 0 => Equity(x) >= Worth(v) - MaxLoss
<1> DEFINE h == harvest(v)
           c == handleAVAX(collectHarvestFee(swapReward(h)))
           d == [c EXCEPT !.tokens = 0]
<1>1. v \in Vaults /\ MaxLoss \in Nat /\ reinvestThreshold \in Nat
  BY AmountsAssumption DEF Sound
<1>2. /\ Equity(v) \in Int /\ Worth(v) \in Int /\ Backing(v) \in Int
  BY <1>1, WorthBounds
<1>3. /\ h \in Vaults /\ d \in Vaults
      /\ h = [v EXCEPT !.pending = 0, !.reward = @ + v.pending]
      /\ d = [v EXCEPT !.pending = 0, !.reward = 0, !.avax = 0, !.tokens = 0,
                       !.collected = @ + HarvestFee(v)]
      /\ c.tokens = v.tokens + v.reward + v.pending + v.avax - HarvestFee(v)
  BY <1>1, HarvestStep
<1> HIDE DEF h, c, d
<1>4. CASE ~v.opened \/ v.totalShareAmount = 0
  <2>1. x = v
    BY <1>4 DEF reinvestInternal
  <2>. QED
    BY <2>1, <1>1, <1>2, <1>4 DEF SameShares
<1>5. CASE v.opened /\ v.totalShareAmount # 0
  <2>1. /\ Equity(v) > 0
        /\ Quoted(h) /\ ~(rewardETHValue(h) < m)
    BY <1>1, <1>5 DEF Sound, Covered, Equity, Vaults, reinvestInternal, h
  <2>2. CASE rewardETHValue(h) < reinvestThreshold
    <3>1. x = h
      BY <1>5, <2>1, <2>2 DEF reinvestInternal, h
    <3>2. /\ h.opened /\ h.collateral = v.collateral /\ h.debt = v.debt
          /\ h.pending = 0 /\ h.reward = v.reward + v.pending
          /\ h.tokens = v.tokens /\ h.avax = v.avax /\ SameShares(v, h)
      BY <1>1, <1>3, <1>5 DEF Vaults, SameShares
    <3>3. /\ v.reward \in Nat /\ v.pending \in Nat /\ v.tokens \in Nat
          /\ v.avax \in Nat
      BY <1>1 DEF Vaults
    <3>4. Equity(h) = Equity(v)
      BY <3>2 DEF Equity
    <3>5. v.reward + v.pending < reinvestThreshold
      BY <2>2, <3>2 DEF rewardETHValue
    <3>6. Worth(h) = Equity(v) /\ Worth(v) = Equity(v)
      <4>1. h.reward + h.pending < reinvestThreshold
        BY <3>2, <3>3, <3>5
      <4>2. ~(h.reward + h.pending >= reinvestThreshold)
        BY <4>1, <3>2, <3>3, <1>1
      <4>3. ~(v.reward + v.pending >= reinvestThreshold)
        BY <3>5, <3>3, <1>1
      <4>4. Worth(h) = getEquityETHValue(h) + 0 /\ Worth(v) = getEquityETHValue(v) + 0
        BY <4>2, <4>3 DEF Worth
      <4>. QED
        BY <4>4, <3>4, <1>2, EquityDef
    <3>7. Backing(h) = Backing(v)
      BY <3>2, <3>3, <3>4, <1>2, EquityDef DEF Backing
    <3>8. Sound(h)
      BY <1>3, <2>1, <3>2, <3>4, SoundKept
    <3>. QED
      BY <3>1, <3>2, <3>4, <3>6, <3>7, <3>8, <1>1, <1>2, <1>5
  <2>3. CASE ~(rewardETHValue(h) < reinvestThreshold)
    <3>1. x \in deposit(d, c.tokens)
      BY <1>5, <2>1, <2>3 DEF reinvestInternal, h, c, d
    <3>2. /\ d.opened /\ d.collateral = v.collateral /\ d.debt = v.debt
          /\ d.pending = 0 /\ d.reward = 0 /\ d.tokens = 0 /\ d.avax = 0
          /\ SameShares(v, d)
      BY <1>1, <1>3, <1>5 DEF Vaults, SameShares
    <3>3. /\ v.reward \in Nat /\ v.pending \in Nat /\ v.tokens \in Nat
          /\ v.avax \in Nat /\ HarvestFee(v) \in 0 .. v.avax
      BY <1>1, HarvestFeeBound DEF Vaults
    <3>4. Equity(d) = Equity(v) /\ Backing(d) = Equity(v)
      BY <3>2, <1>2, EquityDef DEF Equity, Backing
    <3>5. c.tokens \in Nat
      BY <1>3, <3>3
    <3>6. /\ x \in Vaults /\ SameShares(d, x)
          /\ Equity(x) >= Equity(d) /\ Equity(x) >= Equity(d) + c.tokens - MaxLoss
          /\ Backing(x) <= Backing(d) + c.tokens
          /\ (IF c.tokens = 0 THEN x = d ELSE x.opened)
      BY <1>3, <3>1, <3>5, DepositStep
    <3>7. x.opened /\ SameShares(v, x)
      BY <3>2, <3>6 DEF SameShares
    <3>8. /\ Equity(x) \in Int /\ Worth(x) \in Int /\ Backing(x) \in Int
          /\ Equity(x) <= Worth(x)
      BY <3>6, WorthBounds
    <3>9. v.reward + v.pending >= reinvestThreshold
      <4>1. h.reward = v.reward + v.pending
        BY <1>1, <1>3 DEF Vaults
      <4>. QED
        BY <2>3, <4>1, <3>3, <1>1 DEF rewardETHValue
    <3>10. Worth(v) = Equity(v) + (v.reward + v.pending + v.tokens + v.avax - HarvestFee(v))
      BY <1>5, <3>9, EquityDef DEF Worth
    <3>11. Backing(v) = Equity(v) + v.tokens + v.avax + v.reward + v.pending
      BY EquityDef DEF Backing
    <3>12. /\ Equity(x) >= Worth(v) - MaxLoss /\ Worth(x) >= Worth(v) - MaxLoss
           /\ Backing(x) <= Backing(v) /\ Equity(x) > 0
      BY <1>1, <1>2, <1>3, <2>1, <3>3, <3>4, <3>5, <3>6, <3>8, <3>10, <3>11
    <3>13. Sound(x)
      BY <3>6, <3>7, <3>12, SoundKept
    <3>. QED
      BY <3>7, <3>12, <3>13, <1>5
  <2>. QED
    BY <2>2, <2>3
<1>. QED
  BY <1>4, <1>5, <1>1 DEF Vaults

(* The fee on a larger balance is larger by no more than the balance.      *)
LEMMA HarvestFeeGrows ==
  ASSUME NEW v \in Vaults, NEW x \in Vaults, NEW r \in Nat, x.avax = v.avax + r
  PROVE  HarvestFee(x) <= HarvestFee(v) + r
<1> DEFINE a == v.avax * harvestFee
           b == x.avax * harvestFee
           k == a \div UNITY
           n == b \div UNITY
<1>1. /\ v.avax \in Nat /\ x.avax \in Nat /\ harvestFee \in Nat
      /\ UNITY \in Nat /\ UNITY > 0 /\ harvestFee <= UNITY
  BY RatesAssumption DEF Vaults
<1>2. a \in Nat /\ b \in Nat /\ b <= a + r * UNITY
  <2>1. b = a + r * harvestFee
    BY <1>1
  <2>2. r * harvestFee <= r * UNITY
    BY <1>1
  <2>3. a \in Nat /\ b \in Nat /\ r * harvestFee \in Nat /\ r * UNITY \in Nat
    BY <1>1
  <2>. QED
    BY <2>1, <2>2, <2>3
<1> HIDE DEF a, b
<1>3. /\ k \in Int /\ n \in Int /\ UNITY * n <= b /\ a < UNITY * k + UNITY
  BY <1>1, <1>2, Division
<1> HIDE DEF k, n
<1>4. n < k + r + 1
  <2>1. UNITY * n < UNITY * (k + r + 1)
    <3>1. UNITY * (k + r + 1) = UNITY * k + r * UNITY + UNITY
      BY <1>1, <1>3
    <3>. QED
      BY <3>1, <1>1, <1>2, <1>3
  <2>2. n >= k + r + 1 => UNITY * n >= UNITY * (k + r + 1)
    BY <1>1, <1>3
  <2>. QED
    BY <2>1, <2>2, <1>1, <1>3
<1>. QED
  BY <1>3, <1>4 DEF HarvestFee, a, b, k, n

(* What the two ways to rebalance have in common: the equity loses no more *)
(* than a trade, what is left of it stays in the contract, and the tokens  *)
(* there may go into the position.                                         *)
LEMMA RebalancedWorth ==
  ASSUME NEW v \in Vaults, NEW x \in Vaults, NEW t \in Trades,
         NEW used \in 0 .. v.tokens,
         Equity(x) = Equity(v) + used - t.loss,
         x.tokens = v.tokens - used + t.tokens, x.avax = v.avax + t.avax,
         x.opened = v.opened, x.reward = v.reward, x.pending = v.pending
  PROVE  /\ Equity(x) >= Equity(v) - MaxLoss
         /\ Worth(x) >= Worth(v) - MaxLoss
         /\ Backing(x) <= Backing(v)
<1>1. /\ v.avax \in Nat /\ v.tokens \in Nat /\ v.reward \in Nat
      /\ v.pending \in Nat /\ Equity(v) \in Int
      /\ HarvestFee(v) \in Int /\ HarvestFee(x) \in Int
  BY WorthBounds, HarvestFeeBound DEF Vaults
<1>2. HarvestFee(x) <= HarvestFee(v) + t.avax
  BY HarvestFeeGrows, TradeType
<1>3. Worth(v) = Equity(v) +
        IF v.opened /\ v.reward + v.pending >= reinvestThreshold
        THEN v.reward + v.pending + v.tokens + v.avax - HarvestFee(v) ELSE 0
  BY EquityDef DEF Worth
<1>4. Worth(x) = Equity(x) +
        IF v.opened /\ v.reward + v.pending >= reinvestThreshold
        THEN v.reward + v.pending + x.tokens + x.avax - HarvestFee(x) ELSE 0
  BY EquityDef DEF Worth
<1>5. /\ Backing(v) = Equity(v) + v.tokens + v.avax + v.reward + v.pending
      /\ Backing(x) = Equity(x) + x.tokens + x.avax + v.reward + v.pending
  BY EquityDef DEF Backing
<1>6. Worth(x) >= Worth(v) - MaxLoss
  <2>1. CASE v.opened /\ v.reward + v.pending >= reinvestThreshold
    BY <2>1, <1>1, <1>2, <1>3, <1>4, TradeType
  <2>2. CASE ~(v.opened /\ v.reward + v.pending >= reinvestThreshold)
    BY <2>2, <1>1, <1>3, <1>4, TradeType
  <2>. QED
    BY <2>1, <2>2
<1>. QED
  BY <1>1, <1>5, <1>6, TradeType

(* A rebalance leaves the shares alone and the vault healthy.              *)
LEMMA RebalanceStep ==
  ASSUME NEW v, Sound(v), NEW x \in rebalanceInternal(v)
  PROVE  /\ Sound(x) /\ SameShares(v, x) /\ x.opened = v.opened /\ Healthy(x)
         /\ Equity(x) >= Equity(v) - MaxLoss
         /\ Worth(x) >= Worth(v) - MaxLoss
         /\ Backing(x) <= Backing(v)
<1>1. v \in Vaults /\ MaxLoss \in Nat /\ ~Healthy(v)
  BY AmountsAssumption DEF Sound, rebalanceInternal
<1>2. v.opened
  BY <1>1 DEF Sound, Covered, Healthy, isDeltaNeutral, isDebtRatioHealthy
<1>3. RatioDefined(x) /\ Healthy(x)
  BY DEF rebalanceInternal
<1>4. x \in rebalanceRemove(v) \/ x \in rebalanceAdd(v)
  BY DEF rebalanceInternal
<1>5. /\ v.collateral \in Nat /\ v.debt \in Nat /\ v.tokens \in Nat
  BY <1>1 DEF Vaults
<1>6. /\ x \in Vaults /\ x.opened /\ SameShares(v, x)
      /\ Equity(x) >= Equity(v) - MaxLoss
      /\ Worth(x) >= Worth(v) - MaxLoss
      /\ Backing(x) <= Backing(v)
  <2>1. CASE x \in rebalanceRemove(v)
    <3>1. PICK y \in rebalanceMathRemove(v), t \in Trades : x = Repaid(v, y, t)
      BY <2>1 DEF rebalanceRemove
    <3> DEFINE c == v.collateral - y - t.loss
               d == v.debt - y
               a == [v EXCEPT !.collateral = c, !.debt = d, !.neutral = TRUE]
    <3>2. y \in 0 .. v.debt
      BY DEF rebalanceMathRemove
    <3>3. x = homoraExecute(a, 0, t)
      BY <3>1 DEF Repaid
    <3>4. c \in Int /\ d \in Nat
      BY <1>5, <3>2, TradeType
    <3>5. c \in Nat
      <4>1. x.collateral = c /\ x.opened
        BY <3>3, <1>1, <1>2 DEF homoraExecute, Vaults
      <4>. QED
        BY <4>1, <3>4, <1>3 DEF RatioDefined
    <3> HIDE DEF c, d
    <3>6. /\ a \in Vaults /\ SameShares(v, a) /\ a.opened = v.opened
          /\ a.collateral = c /\ a.debt = d /\ a.reward = v.reward
          /\ a.pending = v.pending /\ a.avax = v.avax /\ a.tokens = v.tokens
      BY <1>1, <3>4, <3>5 DEF Vaults, SameShares
    <3> HIDE DEF a
    <3>7. /\ x \in Vaults /\ SameShares(v, x) /\ x.opened = v.opened
          /\ x.collateral = c /\ x.debt = d /\ x.reward = v.reward
          /\ x.pending = v.pending /\ x.avax = v.avax + t.avax
          /\ x.tokens = v.tokens - 0 + t.tokens
      BY <1>5, <3>3, <3>6, ExecuteStep, TradeType DEF SameShares
    <3>8. Equity(x) = Equity(v) + 0 - t.loss /\ 0 \in 0 .. v.tokens
      BY <3>2, <3>7, <1>5, TradeType DEF Equity, c, d
    <3>. QED
      BY <1>1, <1>2, <3>7, <3>8, RebalancedWorth
  <2>2. CASE x \in rebalanceAdd(v)
    <3>1. PICK y \in rebalanceMathAdd(v), t \in Trades : x = Borrowed(v, y, t)
      BY <2>2 DEF rebalanceAdd
    <3> DEFINE c == v.collateral + v.tokens + y - t.loss
               d == v.debt + y
               a == [v EXCEPT !.collateral = c, !.debt = d, !.tokens = 0, !.neutral = TRUE]
    <3>2. y \in 0 .. v.collateral
      BY DEF rebalanceMathAdd
    <3>3. x = homoraExecute(a, 0, t)
      BY <3>1 DEF Borrowed
    <3>4. c \in Int /\ d \in Nat
      BY <1>5, <3>2, TradeType
    <3>5. c \in Nat
      <4>1. x.collateral = c /\ x.opened
        BY <3>3, <1>1, <1>2 DEF homoraExecute, Vaults
      <4>. QED
        BY <4>1, <3>4, <1>3 DEF RatioDefined
    <3> HIDE DEF c, d
    <3>6. /\ a \in Vaults /\ SameShares(v, a) /\ a.opened = v.opened
          /\ a.collateral = c /\ a.debt = d /\ a.reward = v.reward
          /\ a.pending = v.pending /\ a.avax = v.avax /\ a.tokens = 0
      BY <1>1, <3>4, <3>5 DEF Vaults, SameShares
    <3> HIDE DEF a
    <3>7. /\ x \in Vaults /\ SameShares(v, x) /\ x.opened = v.opened
          /\ x.collateral = c /\ x.debt = d /\ x.reward = v.reward
          /\ x.pending = v.pending /\ x.avax = v.avax + t.avax
          /\ x.tokens = v.tokens - v.tokens + t.tokens
      BY <1>5, <3>3, <3>6, ExecuteStep, TradeType DEF SameShares
    <3>8. Equity(x) = Equity(v) + v.tokens - t.loss /\ v.tokens \in 0 .. v.tokens
      BY <3>2, <3>7, <1>5, TradeType DEF Equity, c, d
    <3>. QED
      BY <1>1, <1>2, <3>7, <3>8, RebalancedWorth
  <2>. QED
    BY <1>4, <2>1, <2>2
<1>7. Equity(x) > 0
  <2>1. x.debt < x.collateral
    BY <1>3, <1>6, HealthyCovered
  <2>. QED
    BY <2>1, <1>6 DEF Equity, Vaults
<1>. QED
  BY <1>2, <1>3, <1>6, <1>7, SoundKept

LEMMA RebalanceIfNeededStep ==
  ASSUME NEW v, Sound(v), NEW x \in RebalanceIfNeeded(v)
  PROVE  /\ Sound(x) /\ SameShares(v, x) /\ x.opened = v.opened /\ Healthy(x)
         /\ Equity(x) >= Equity(v) - MaxLoss
         /\ Worth(x) >= Worth(v) - MaxLoss
         /\ Backing(x) <= Backing(v)
<1>1. CASE x = v /\ Healthy(v)
  <2>1. MaxLoss \in Nat /\ v \in Vaults
    BY AmountsAssumption DEF Sound
  <2>2. /\ Equity(v) \in Int /\ Worth(v) \in Int /\ Backing(v) \in Int
    BY <2>1, WorthBounds
  <2>. QED
    BY <1>1, <2>1, <2>2 DEF SameShares
<1>2. CASE x \in rebalanceInternal(v)
  BY <1>2, RebalanceStep
<1>. QED
  BY <1>1, <1>2 DEF RebalanceIfNeeded

LEMMA HoldersFinite == IsFiniteSet(Holders) /\ Collector \in Holders
BY HoldersAssumption, FS_AddElement DEF Holders

(* Nobody holds more than the total, so that the fee is on no negative     *)
(* number of shares.                                                       *)
LEMMA HoldersBelowTotal ==
  ASSUME NEW v, Sound(v), NEW h \in Holders
  PROVE  v.shares[h] \in Nat /\ v.shares[h] <= v.totalShareAmount
<1>1. v.shares \in [Holders -> Nat]
  BY DEF Sound, Vaults
<1>2. v.shares[h] <= SumFunctionOnSet(v.shares, Holders)
  BY <1>1, HoldersFinite, SumBoundsElement
<1>. QED
  BY <1>1, <1>2 DEF Sound, Summed, SumFunction

LEMMA ManagementFeeNat ==
  ASSUME NEW v, Sound(v), now \in Nat
  PROVE  /\ ManagementFee(v) \in Nat
         /\ v.totalShareAmount = 0 => ManagementFee(v) = 0
<1>1. /\ v.shares[Collector] \in Nat /\ v.totalShareAmount \in Nat
      /\ v.shares[Collector] <= v.totalShareAmount
      /\ v.lastCollectionTimestamp \in Nat /\ v.lastCollectionTimestamp <= now
  BY HoldersBelowTotal, HoldersFinite DEF Sound, Vaults
<1>2. /\ managementFee \in Nat /\ UNITY \in Nat /\ UNITY > 0
      /\ Year \in Nat /\ Year > 0
  BY RatesAssumption
<1> DEFINE others  == v.totalShareAmount - v.shares[Collector]
           elapsed == now - v.lastCollectionTimestamp
           rate    == (managementFee * others) \div UNITY
<1>3. others \in Nat /\ elapsed \in Nat
  BY <1>1
<1>4. v.totalShareAmount = 0 => others = 0
  BY <1>1
<1> HIDE DEF others, elapsed
<1>5. rate \in Nat
  <2>1. managementFee * others \in Nat
    BY <1>2, <1>3
  <2>. QED
    BY <2>1, <1>2, QuotientNat
<1>6. others = 0 => rate = 0
  BY <1>2
<1> HIDE DEF rate
<1>7. (rate * elapsed) \div Year \in Nat
  <2>1. rate * elapsed \in Nat
    BY <1>3, <1>5
  <2>. QED
    BY <2>1, <1>2, QuotientNat
<1>8. rate = 0 => (rate * elapsed) \div Year = 0
  BY <1>2, <1>3
<1>9. ManagementFee(v) = (rate * elapsed) \div Year
  BY DEF ManagementFee, rate, others, elapsed
<1>. QED
  BY <1>4, <1>6, <1>7, <1>8, <1>9

(* Vaults that differ in their shares only.                                *)
SameAssets(v, x) ==
  /\ x.opened = v.opened /\ x.neutral = v.neutral
  /\ x.collateral = v.collateral /\ x.debt = v.debt
  /\ x.tokens = v.tokens /\ x.avax = v.avax
  /\ x.reward = v.reward /\ x.pending = v.pending

LEMMA AssetsTell ==
  ASSUME NEW v, NEW x, SameAssets(v, x)
  PROVE  /\ Equity(x) = Equity(v) /\ Worth(x) = Worth(v) /\ Backing(x) = Backing(v)
         /\ Healthy(x) = Healthy(v) /\ RatioDefined(x) = RatioDefined(v)
BY DEF SameAssets, Equity, Worth, Backing, HarvestFee, Healthy, RatioDefined,
       isDeltaNeutral, isDebtRatioHealthy, getDebtRatio, getEquityETHValue,
       getCollateralETHValue, getBorrowETHValue

(* The sum of the shares follows what is minted.                           *)
LEMMA MintedStep ==
  ASSUME NEW v \in Vaults, Summed(v), NEW h \in Holders, NEW s \in Nat
  PROVE  LET x == Minted(v, h, s)
         IN /\ x \in Vaults /\ Summed(x) /\ SameAssets(v, x)
            /\ x.totalShareAmount = v.totalShareAmount + s
            /\ x.shares = [v.shares EXCEPT ![h] = @ + s]
            /\ x.lastCollectionTimestamp = v.lastCollectionTimestamp
<1> DEFINE x == Minted(v, h, s)
           n == v.shares[h] + s
           t == v.totalShareAmount + s
<1>1. v.shares \in [Holders -> Nat] /\ v.totalShareAmount \in Nat
  BY DEF Vaults
<1>2. n \in Nat /\ t \in Nat
  BY <1>1
<1>3. x = [v EXCEPT !.shares = [@ EXCEPT ![h] = n], !.totalShareAmount = t]
  BY <1>1 DEF Minted, Vaults
<1> HIDE DEF x, n, t
<1>4. /\ x.shares = [v.shares EXCEPT ![h] = n] /\ x.totalShareAmount = t
      /\ x.lastCollectionTimestamp = v.lastCollectionTimestamp
      /\ SameAssets(v, x)
  BY <1>3 DEF Vaults, SameAssets
<1>5. x.shares \in [Holders -> Nat] /\ x.shares[h] = n
  BY <1>1, <1>2, <1>4
<1>6. x \in Vaults
  <2>1. [v EXCEPT !.shares = x.shares, !.totalShareAmount = t] \in Vaults
    BY <1>2, <1>5 DEF Vaults
  <2>. QED
    BY <2>1, <1>3, <1>4
<1>7. Summed(x)
  <2>1. SumFunctionOnSet(x.shares, Holders)
          = SumFunctionOnSet(v.shares, Holders) - v.shares[h] + x.shares[h]
    <3>1. /\ \A k \in Holders : v.shares[k] \in Int
          /\ x.shares[h] \in Int
          /\ \A k \in Holders \ {h} : x.shares[k] = v.shares[k]
      BY <1>1, <1>4, <1>5
    <3>. QED
      BY <3>1, HoldersFinite, SumUpdate
  <2>2. v.totalShareAmount = SumFunctionOnSet(v.shares, Holders)
    BY <1>1 DEF Summed, SumFunction
  <2>3. x.shares[h] - v.shares[h] = s /\ v.shares[h] \in Nat
    BY <1>1, <1>5 DEF n
  <2>4. SumFunctionOnSet(x.shares, Holders) = v.totalShareAmount + s
    BY <2>1, <2>2, <2>3, <1>1, <1>5, <1>2
  <2>. QED
    BY <2>4, <1>4, <1>5 DEF Summed, SumFunction, t
<1>. QED
  BY <1>4, <1>6, <1>7 DEF x, n, t

LEMMA CollectStep ==
  ASSUME NEW v, Sound(v), now \in Nat
  PROVE  LET x == collectManagementFee(v)
         IN /\ Sound(x) /\ SameAssets(v, x)
            /\ x.totalShareAmount = v.totalShareAmount + ManagementFee(v)
            /\ \A p \in Positions : x.shares[p] = v.shares[p]
<1> DEFINE x == collectManagementFee(v)
           fee == ManagementFee(v)
           m == Minted(v, Collector, fee)
<1>1. v \in Vaults /\ v.shares \in [Holders -> Nat] /\ Summed(v)
  BY DEF Sound, Vaults
<1>2. fee \in Nat /\ (v.totalShareAmount = 0 => fee = 0)
  BY ManagementFeeNat
<1> HIDE DEF fee
<1>3. /\ m \in Vaults /\ Summed(m) /\ SameAssets(v, m)
      /\ m.totalShareAmount = v.totalShareAmount + fee
      /\ m.shares = [v.shares EXCEPT ![Collector] = @ + fee]
  BY <1>1, <1>2, HoldersFinite, MintedStep
<1>4. x = [m EXCEPT !.lastCollectionTimestamp = now]
  BY DEF collectManagementFee, fee
<1> HIDE DEF m, x
<1>5. /\ x \in Vaults /\ Summed(x) /\ SameAssets(v, x)
      /\ x.totalShareAmount = v.totalShareAmount + fee
      /\ x.shares = m.shares /\ x.lastCollectionTimestamp = now
  BY <1>3, <1>4 DEF Vaults, Summed, SameAssets
<1>6. Covered(x)
  BY <1>1, <1>2, <1>5 DEF Sound, Covered, SameAssets, Vaults
<1>7. \A p \in Positions : x.shares[p] = v.shares[p]
  BY <1>1, <1>3, <1>5, HoldersAssumption DEF Holders
<1>8. Sound(x)
  BY <1>5, <1>6 DEF Sound
<1>. QED
  BY <1>5, <1>7, <1>8 DEF x, fee

(* The vault that a deposit or a withdrawal works on.                      *)
LEMMA PreparedStep ==
  ASSUME NEW v, Sound(v), now \in Nat, NEW m \in Nat, NEW y \in Prepared(v, m)
  PROVE  /\ Sound(y) /\ y.opened = v.opened /\ Healthy(y)
         /\ ManagementFee(v) \in Nat
         /\ y.totalShareAmount = v.totalShareAmount + ManagementFee(v)
         /\ v.totalShareAmount = 0 => ManagementFee(v) = 0
         /\ \A p \in Positions : y.shares[p] = v.shares[p]
         /\ Backing(y) <= Backing(v)
         /\ v.opened /\ v.totalShareAmount > 0 => Equity(y) >= Worth(v) - 2 * MaxLoss
<1>1. PICK x \in reinvestInternal(v, m) :
        \E r \in RebalanceIfNeeded(x) : y = collectManagementFee(r)
  BY DEF Prepared
<1>. PICK r \in RebalanceIfNeeded(x) : y = collectManagementFee(r)
  BY <1>1
<1>2. /\ Sound(x) /\ SameShares(v, x) /\ x.opened = v.opened
      /\ Backing(x) <= Backing(v)
      /\ v.opened /\ v.totalShareAmount > 0 => Equity(x) >= Worth(v) - MaxLoss
  BY ReinvestStep
<1>3. /\ Sound(r) /\ SameShares(x, r) /\ r.opened = x.opened /\ Healthy(r)
      /\ Equity(r) >= Equity(x) - MaxLoss /\ Backing(r) <= Backing(x)
  BY <1>2, RebalanceIfNeededStep
<1>4. SameShares(v, r) /\ ManagementFee(r) = ManagementFee(v)
  BY <1>2, <1>3 DEF SameShares, ManagementFee
<1>5. /\ Sound(y) /\ SameAssets(r, y)
      /\ y.totalShareAmount = r.totalShareAmount + ManagementFee(r)
      /\ \A p \in Positions : y.shares[p] = r.shares[p]
  BY <1>3, CollectStep
<1>6. Equity(y) = Equity(r) /\ Backing(y) = Backing(r) /\ Healthy(y) = Healthy(r)
  BY <1>5, AssetsTell
<1>7. /\ Equity(v) \in Int /\ Equity(x) \in Int /\ Equity(r) \in Int
      /\ Backing(v) \in Int /\ Backing(x) \in Int /\ Backing(r) \in Int
      /\ Worth(v) \in Int /\ MaxLoss \in Nat
  BY <1>2, <1>3, WorthBounds, AmountsAssumption DEF Sound
<1>8. /\ ManagementFee(v) \in Nat
      /\ v.totalShareAmount = 0 => ManagementFee(v) = 0
  BY ManagementFeeNat
<1>9. Backing(y) <= Backing(v)
  BY <1>2, <1>3, <1>6, <1>7
<1>10. v.opened /\ v.totalShareAmount > 0 => Equity(y) >= Worth(v) - 2 * MaxLoss
  BY <1>2, <1>3, <1>6, <1>7
<1>. QED
  BY <1>2, <1>3, <1>4, <1>5, <1>6, <1>8, <1>9, <1>10 DEF SameShares, SameAssets

(* A deposit mints shares in the proportion of the equity it adds, rounded *)
(* down.                                                                   *)
LEMMA DepositedStep ==
  ASSUME NEW v, Sound(v), now \in Nat, NEW p \in Positions,
         NEW amount \in Nat, NEW y \in Deposited(p, amount, 0, v)
  PROVE  \E s \in Nat :
           /\ Sound(y) /\ y.totalShareAmount = v.totalShareAmount + s
           /\ y.shares[p] = v.shares[p] + s
           /\ \A q \in Positions \ {p} : y.shares[q] = v.shares[q]
           /\ Equity(y) - Equity(v) \in Nat
           /\ IF Equity(v) = 0 THEN s = Equity(y)
              ELSE s = (v.totalShareAmount * (Equity(y) - Equity(v))) \div Equity(v)
<1>1. PICK x \in deposit(v, amount) :
        LET change == getEquityETHValue(x) - getEquityETHValue(v)
        IN /\ getEquityETHValue(v) >= 0 /\ change >= 0
           /\ RatioDefined(x) /\ Healthy(x)
           /\ y = Minted(x, p, SharesFor(v, change))
  BY DEF Deposited
<1> DEFINE change == Equity(x) - Equity(v)
           s == SharesFor(v, change)
<1>2. /\ Equity(v) >= 0 /\ change >= 0 /\ RatioDefined(x) /\ Healthy(x)
      /\ y = Minted(x, p, s)
  BY <1>1, EquityDef
<1>3. v \in Vaults /\ Equity(v) \in Nat
  <2>1. v \in Vaults
    BY DEF Sound
  <2>. QED
    BY <2>1, <1>2, WorthBounds
<1>4. /\ x \in Vaults /\ SameShares(v, x)
      /\ (IF amount = 0 THEN x = v ELSE x.opened)
  BY <1>3, DepositStep
<1>5. change \in Nat /\ Equity(x) \in Int
  BY <1>2, <1>3, <1>4, WorthBounds
<1>6. /\ Equity(v) = 0 => s = change
      /\ Equity(v) # 0 => s = (v.totalShareAmount * change) \div Equity(v)
  BY EquityDef DEF SharesFor
<1>7. v.totalShareAmount \in Nat
  BY <1>3 DEF Vaults
<1> HIDE DEF change, s
<1>8. s \in Nat
  <2>1. v.totalShareAmount * change \in Nat
    BY <1>5, <1>7
  <2>. QED
    BY <2>1, <1>3, <1>5, <1>6, QuotientNat
<1>9. Summed(x)
  BY <1>4 DEF Sound, Summed, SameShares
<1>10. /\ y \in Vaults /\ Summed(y) /\ SameAssets(x, y)
       /\ y.totalShareAmount = x.totalShareAmount + s
       /\ y.shares = [x.shares EXCEPT ![p] = @ + s]
       /\ y.lastCollectionTimestamp = x.lastCollectionTimestamp
  BY <1>2, <1>4, <1>8, <1>9, MintedStep DEF Holders
<1>11. Equity(y) = Equity(x)
  BY <1>10, AssetsTell
<1>12. Covered(y)
  <2>1. CASE amount = 0 /\ ~v.opened
    <3>1. x = v /\ Equity(v) = 0 /\ v.totalShareAmount = 0
      BY <2>1, <1>4 DEF Sound, Covered, Equity
    <3>2. s = 0
      BY <3>1, <1>3, <1>6 DEF change
    <3>. QED
      BY <3>1, <3>2, <2>1, <1>10 DEF Sound, Covered, SameAssets
  <2>2. CASE amount # 0 \/ v.opened
    <3>1. x.opened
      BY <2>2, <1>4
    <3>2. x.debt < x.collateral
      BY <3>1, <1>2, <1>4, HealthyCovered
    <3>. QED
      BY <3>1, <3>2, <1>10 DEF Covered, SameAssets
  <2>. QED
    BY <2>1, <2>2
<1>13. Sound(y)
  BY <1>4, <1>10, <1>12 DEF Sound, SameShares
<1>14. /\ y.shares[p] = v.shares[p] + s
       /\ \A q \in Positions \ {p} : y.shares[q] = v.shares[q]
       /\ y.totalShareAmount = v.totalShareAmount + s
  BY <1>3, <1>4, <1>10 DEF SameShares, Vaults, Holders
<1>15. change = Equity(y) - Equity(v) /\ (Equity(v) = 0 => change = Equity(y))
  BY <1>11, <1>5, <1>3 DEF change
<1>. QED
  BY <1>5, <1>6, <1>8, <1>13, <1>14, <1>15

(* The withdrawer's shares go, the fee's part of them to the collector.    *)
LEMMA RedeemedStep ==
  ASSUME NEW v \in Vaults, Summed(v), NEW p \in Positions, NEW w \in Nat,
         w <= v.shares[p], collectWithdrawFee(w) \in 0 .. w,
         w <= v.totalShareAmount
  PROVE  LET y == Redeemed(v, p, w)
         IN /\ y \in Vaults /\ Summed(y) /\ SameAssets(v, y)
            /\ y.totalShareAmount = v.totalShareAmount - (w - collectWithdrawFee(w))
            /\ y.shares[p] = v.shares[p] - w
            /\ \A q \in Positions \ {p} : y.shares[q] = v.shares[q]
            /\ y.lastCollectionTimestamp = v.lastCollectionTimestamp
<1> DEFINE y == Redeemed(v, p, w)
           fee == collectWithdrawFee(w)
           held == [h \in Holders |->
                      v.shares[h] - (IF h = p THEN w ELSE 0)
                        + (IF h = Collector THEN fee ELSE 0)]
           t == v.totalShareAmount - w + fee
           left == [v.shares EXCEPT ![p] = @ - w]
<1>1. /\ v.shares \in [Holders -> Nat] /\ v.totalShareAmount \in Nat
      /\ fee \in Nat /\ fee <= w /\ p \in Holders /\ p # Collector
  BY HoldersAssumption DEF Vaults, Holders
<1>2. t \in Nat
  BY <1>1
<1>3. y = [v EXCEPT !.shares = held, !.totalShareAmount = t]
  BY <1>1 DEF Redeemed, Vaults
<1> HIDE DEF y, t, fee
<1>4. held \in [Holders -> Nat]
  BY <1>1
<1>5. /\ held[p] = v.shares[p] - w
      /\ held[Collector] = v.shares[Collector] + fee
      /\ \A h \in Holders \ {p, Collector} : held[h] = v.shares[h]
  BY <1>1, HoldersFinite
<1> HIDE DEF held
<1>6. y \in Vaults
  BY <1>2, <1>3, <1>4 DEF Vaults
<1>7. /\ y.shares = held /\ y.totalShareAmount = t /\ SameAssets(v, y)
      /\ y.lastCollectionTimestamp = v.lastCollectionTimestamp
  BY <1>3 DEF Vaults, SameAssets
<1>8. /\ left \in [Holders -> Int] /\ left[p] = v.shares[p] - w
      /\ \A h \in Holders \ {p} : left[h] = v.shares[h]
  BY <1>1
<1> HIDE DEF left
<1>9. Summed(y)
  <2>1. SumFunctionOnSet(left, Holders)
          = SumFunctionOnSet(v.shares, Holders) - v.shares[p] + left[p]
    <3>1. (\A h \in Holders : v.shares[h] \in Int) /\ left[p] \in Int
      BY <1>1, <1>8
    <3>. QED
      BY <3>1, <1>1, <1>8, HoldersFinite, SumUpdate
  <2>2. SumFunctionOnSet(held, Holders)
          = SumFunctionOnSet(left, Holders) - left[Collector] + held[Collector]
    <3>1. /\ \A h \in Holders : left[h] \in Int
          /\ held[Collector] \in Int
          /\ \A h \in Holders \ {Collector} : held[h] = left[h]
      BY <1>1, <1>4, <1>5, <1>8, HoldersFinite
    <3>. QED
      BY <3>1, HoldersFinite, SumUpdate
  <2>3. v.totalShareAmount = SumFunctionOnSet(v.shares, Holders)
    BY <1>1 DEF Summed, SumFunction
  <2>4. /\ left[Collector] = v.shares[Collector] /\ v.shares[Collector] \in Nat
        /\ v.shares[p] \in Nat
    BY <1>1, <1>8, HoldersFinite
  <2>5. SumFunctionOnSet(held, Holders) = t
    BY <2>1, <2>2, <2>3, <2>4, <1>1, <1>5, <1>8 DEF t
  <2>. QED
    BY <2>5, <1>4, <1>7 DEF Summed, SumFunction
<1>10. \A q \in Positions \ {p} : y.shares[q] = v.shares[q]
  BY <1>5, <1>7, HoldersAssumption DEF Holders
<1>11. t = v.totalShareAmount - (w - fee)
  BY <1>1 DEF t
<1>. QED
  BY <1>5, <1>6, <1>7, <1>9, <1>10, <1>11 DEF y, fee

(* Taking the n-th part of t of collateral and debt, rounded down, leaves  *)
(* the other shares their equity but for one unit.                         *)
LEMMA ProRata ==
  ASSUME NEW c \in Nat, NEW d \in Nat, NEW n \in Nat, NEW t \in Nat, t > 0
  PROVE  t * ((c - (c * n) \div t) - (d - (d * n) \div t)) + t
           >= (c - d) * (t - n)
<1> DEFINE a == (c * n) \div t
           b == (d * n) \div t
<1>1. c * n \in Nat /\ d * n \in Nat
  OBVIOUS
<1>2. /\ a \in Int /\ t * a <= c * n
      /\ b \in Int /\ d * n < t * b + t
  BY <1>1, Division
<1> HIDE DEF a, b
<1>3. t * ((c - a) - (d - b)) = t * (c - d) - t * a + t * b
  BY <1>2
<1>4. (c - d) * (t - n) = t * (c - d) - c * n + d * n
  OBVIOUS
<1>5. t * a \in Int /\ t * b \in Int /\ t * (c - d) \in Int
  BY <1>2
<1>6. t * ((c - a) - (d - b)) + t >= (c - d) * (t - n)
  BY <1>1, <1>2, <1>3, <1>4, <1>5
<1>. QED
  BY <1>6 DEF a, b

(* A withdrawal leaves the others the equity of their shares.              *)
LEMMA WithdrawnStep ==
  ASSUME NEW v, Sound(v), now \in Nat, NEW p \in Positions,
         NEW w \in Nat, w > 0, w <= v.shares[p],
         NEW y \in Withdrawn(p, w, 0, v)
  PROVE  \E n \in 0 .. w :
           /\ Sound(y) /\ y.totalShareAmount = v.totalShareAmount - n
           /\ v.totalShareAmount > 0
           /\ y.shares[p] = v.shares[p] - w
           /\ \A q \in Positions \ {p} : y.shares[q] = v.shares[q]
           /\ v.totalShareAmount * Equity(y) + v.totalShareAmount
                >= Equity(v) * (v.totalShareAmount - n)
<1> DEFINE fee == collectWithdrawFee(w)
           n == w - fee
           t == v.totalShareAmount
           x == withdraw(v, n)
<1>1. /\ v \in Vaults /\ Summed(v) /\ Covered(v)
      /\ v.collateral \in Nat /\ v.debt \in Nat /\ t \in Nat
      /\ v.tokens \in Nat /\ v.avax \in Nat
  BY DEF Sound, Vaults
<1>2. /\ w <= t /\ t > 0 /\ p \in Holders
  BY <1>1, HoldersBelowTotal DEF Holders
<1>3. fee \in 0 .. w
  BY RatesAssumption, PartOf DEF collectWithdrawFee
<1>4. n \in 0 .. w /\ n \in Nat /\ n <= t
  BY <1>1, <1>2, <1>3
<1>5. v.opened
  BY <1>1, <1>2 DEF Covered
<1>6. RatioDefined(x) /\ Healthy(x) /\ y = Redeemed(x, p, w)
  BY DEF Withdrawn
<1> HIDE DEF fee, n, t
<1> DEFINE a == (v.collateral * n) \div t
           b == (v.debt * n) \div t
           c == ((v.tokens + v.avax) * (t - n)) \div t
<1>7. a \in 0 .. v.collateral /\ b \in 0 .. v.debt
  BY <1>1, <1>2, <1>4, PartOf
<1>8. c \in Nat
  <2>1. (v.tokens + v.avax) * (t - n) \in Nat
    BY <1>1, <1>4
  <2>. QED
    BY <2>1, <1>1, <1>2, QuotientNat
<1>9. x = [v EXCEPT !.collateral = v.collateral - a, !.debt = v.debt - b,
                    !.tokens = c, !.avax = 0]
  <2>1. handleAVAX(v) = [v EXCEPT !.tokens = v.tokens + v.avax, !.avax = 0]
    BY DEF handleAVAX
  <2>2. /\ handleAVAX(v).collateral = v.collateral /\ handleAVAX(v).debt = v.debt
        /\ handleAVAX(v).totalShareAmount = t
    BY <2>1, <1>1 DEF Vaults, t
  <2>3. removeLiquidity(handleAVAX(v), n)
          = [handleAVAX(v) EXCEPT !.collateral = v.collateral - a, !.debt = v.debt - b]
    BY <2>2 DEF removeLiquidity
  <2>4. x = [removeLiquidity(handleAVAX(v), n) EXCEPT !.tokens = c]
    BY DEF withdraw, t
  <2> HIDE DEF a, b, c, x
  <2>. QED
    BY <2>1, <2>3, <2>4, <1>1 DEF Vaults
<1>10. Equity(v) * (t - n) <= t * ((v.collateral - a) - (v.debt - b)) + t
  BY <1>1, <1>2, <1>4, ProRata DEF Equity
<1> HIDE DEF a, b, c, x
<1>11. /\ x.collateral = v.collateral - a /\ x.debt = v.debt - b
       /\ x.opened /\ SameShares(v, x)
  BY <1>1, <1>5, <1>9 DEF Vaults, SameShares
<1>12. x \in Vaults
  <2>1. v.collateral - a \in Nat /\ v.debt - b \in Nat
    BY <1>1, <1>7
  <2>. QED
    BY <2>1, <1>1, <1>8, <1>9 DEF Vaults
<1>13. x.debt < x.collateral
  BY <1>6, <1>11, <1>12, HealthyCovered
<1>14. /\ Summed(x) /\ w <= x.shares[p] /\ w <= x.totalShareAmount
  BY <1>1, <1>2, <1>11 DEF Summed, SameShares, t
<1>15. /\ y \in Vaults /\ Summed(y) /\ SameAssets(x, y)
       /\ y.totalShareAmount = x.totalShareAmount - n
       /\ y.shares[p] = x.shares[p] - w
       /\ \A q \in Positions \ {p} : y.shares[q] = x.shares[q]
       /\ y.lastCollectionTimestamp = x.lastCollectionTimestamp
  BY <1>3, <1>6, <1>12, <1>14, RedeemedStep DEF n, fee
<1>16. Covered(y) /\ Equity(y) = Equity(x)
  BY <1>11, <1>13, <1>15, AssetsTell DEF Covered, SameAssets
<1>17. Sound(y)
  BY <1>11, <1>15, <1>16 DEF Sound, SameShares
<1>18. Equity(x) = (v.collateral - a) - (v.debt - b)
  BY <1>11 DEF Equity
<1>19. t * Equity(y) + t >= Equity(v) * (t - n)
  BY <1>1, <1>4, <1>7, <1>10, <1>16, <1>18 DEF Equity
<1>. QED
  BY <1>2, <1>4, <1>11, <1>15, <1>17, <1>19 DEF SameShares, t

-----------------------------------------------------------------------------
(* The calls.                                                              *)

(* What ShareWorthKept and NewcomerNotCharged say of a step.               *)
WorthStep ==
  now' = now =>
    (Worth(vault') + 1) * (vault.totalShareAmount + ManagementFee(vault))
      >= (Worth(vault) - 2 * MaxLoss) * vault'.totalShareAmount

NewcomerStep ==
  \A p \in Positions :
    LET s == vault'.shares[p] - vault.shares[p]
        e == getEquityETHValue(vault')
    IN s > 0 => s * e + Backing(vault)
                  >= (e - Backing(vault)) * vault'.totalShareAmount

(* A sound vault has no negative equity, and none without a position.      *)
LEMMA SoundEquity ==
  ASSUME NEW v, Sound(v)
  PROVE  /\ v \in Vaults /\ v.totalShareAmount \in Nat
         /\ Equity(v) \in Nat /\ Worth(v) \in Int /\ Backing(v) \in Int
         /\ Equity(v) <= Worth(v) /\ Worth(v) <= Backing(v)
         /\ v.opened => Equity(v) > 0
         /\ ~v.opened => Equity(v) = 0 /\ Worth(v) = 0 /\ v.totalShareAmount = 0
<1>1. v \in Vaults /\ v.totalShareAmount \in Nat
  BY DEF Sound, Vaults
<1>2. /\ v.opened => Equity(v) > 0
      /\ ~v.opened => Equity(v) = 0 /\ v.totalShareAmount = 0
  BY <1>1 DEF Sound, Covered, Equity, Vaults
<1>3. ~v.opened => Worth(v) = 0
  BY <1>2, EquityDef DEF Worth
<1>. QED
  BY <1>1, <1>2, <1>3, WorthBounds

(* The shares t are worth e; s more for c more of equity, rounded down,    *)
(* make none of them worth less than g.                                    *)
LEMMA MintKeepsWorth ==
  ASSUME NEW e \in Nat, NEW c \in Nat, NEW t \in Nat, NEW s \in Nat,
         NEW w \in Int, NEW g \in Int,
         e * s <= t * c, g <= e, e + c <= w
  PROVE  (w + 1) * t >= g * (t + s)
<1>1. (w + 1) * t >= (e + c) * t
  OBVIOUS
<1>2. (e + c) * t = e * t + t * c
  OBVIOUS
<1>3. e * t + t * c >= e * t + e * s
  <2>1. e * t \in Int /\ t * c \in Int /\ e * s \in Int
    OBVIOUS
  <2>. QED
    BY <2>1
<1>4. e * t + e * s = e * (t + s)
  OBVIOUS
<1>5. e * (t + s) >= g * (t + s)
  OBVIOUS
<1>6. /\ (w + 1) * t \in Int /\ (e + c) * t \in Int /\ e * (t + s) \in Int
      /\ g * (t + s) \in Int /\ e * t + t * c \in Int
  OBVIOUS
<1>. QED
  BY <1>1, <1>2, <1>3, <1>4, <1>5, <1>6

(* The newcomer's s shares, rounded down, are worth the c that it brought. *)
LEMMA MintKeepsNewcomer ==
  ASSUME NEW e \in Nat, NEW c \in Nat, NEW t \in Nat, NEW s \in Nat,
         NEW b \in Int, t * c < e * s + e, e <= b
  PROVE  s * (e + c) + b >= ((e + c) - b) * (t + s)
<1>1. b * (1 + t + s) >= e * (1 + t + s)
  OBVIOUS
<1>2. e * (1 + t + s) = e + e * t + e * s
  OBVIOUS
<1>3. e * t \in Int /\ e * s \in Int /\ t * c \in Int /\ b * (1 + t + s) \in Int
  OBVIOUS
<1>4. b * (1 + t + s) >= e * t + t * c
  BY <1>1, <1>2, <1>3
<1>5. s * (e + c) + b - ((e + c) - b) * (t + s) = b * (1 + t + s) - (e * t + t * c)
  OBVIOUS
<1>6. s * (e + c) + b \in Int /\ ((e + c) - b) * (t + s) \in Int
  OBVIOUS
<1>. QED
  BY <1>3, <1>4, <1>5, <1>6

LEMMA IncreaseStep ==
  ASSUME IInv, NEW p \in Positions, NEW amount \in Nat,
         increasePosition(p, amount)
  PROVE  Sound(vault') /\ UNCHANGED <<paused, now>> /\ WorthStep /\ NewcomerStep
<1>1. now \in Nat /\ Sound(vault) /\ MaxLoss \in Nat
  BY BoundsAssumption, AmountsAssumption DEF IInv
<1>2. UNCHANGED <<paused, now>>
  BY DEF increasePosition, Becomes
<1>3. PICK v \in Prepared(vault, 0) : vault' \in Deposited(p, amount, 0, v)
  BY DEF increasePosition, Becomes, depositInternal
<1> DEFINE fee == ManagementFee(vault)
           total == vault.totalShareAmount
           e == Equity(v)
           c == Equity(vault') - Equity(v)
<1>4. /\ Sound(v) /\ v.opened = vault.opened
      /\ fee \in Nat /\ v.totalShareAmount = total + fee
      /\ total = 0 => fee = 0
      /\ \A q \in Positions : v.shares[q] = vault.shares[q]
      /\ Backing(v) <= Backing(vault)
      /\ vault.opened /\ total > 0 => e >= Worth(vault) - 2 * MaxLoss
  BY <1>1, PreparedStep
<1>5. PICK s \in Nat :
        /\ Sound(vault') /\ vault'.totalShareAmount = v.totalShareAmount + s
        /\ vault'.shares[p] = v.shares[p] + s
        /\ \A q \in Positions \ {p} : vault'.shares[q] = v.shares[q]
        /\ c \in Nat
        /\ IF e = 0 THEN s = Equity(vault')
           ELSE s = (v.totalShareAmount * c) \div e
  BY <1>1, <1>3, <1>4, DepositedStep
<1>6. /\ e \in Nat /\ Backing(v) \in Int /\ e <= Backing(v)
      /\ v.totalShareAmount \in Nat /\ (v.opened => e > 0)
      /\ (~v.opened => e = 0 /\ v.totalShareAmount = 0)
  BY <1>4, SoundEquity
<1>7. /\ Worth(vault) \in Int /\ Backing(vault) \in Int /\ total \in Nat
      /\ Worth(vault) <= Backing(vault)
      /\ (~vault.opened => Worth(vault) = 0 /\ total = 0)
  BY <1>1, SoundEquity
<1>8. /\ Equity(vault') \in Nat /\ Worth(vault') \in Int
      /\ Equity(vault') <= Worth(vault')
  BY <1>5, SoundEquity
<1>9. Equity(vault') = e + c /\ e <= Backing(vault)
  BY <1>4, <1>6, <1>7, <1>8
<1> DEFINE t == v.totalShareAmount
           b == Backing(vault)
           w == Worth(vault')
           g == Worth(vault) - 2 * MaxLoss
<1>10. /\ t \in Nat /\ b \in Int /\ w \in Int /\ g \in Int /\ e \in Nat /\ c \in Nat
       /\ e + c <= w /\ e <= b
  BY <1>1, <1>5, <1>6, <1>7, <1>8, <1>9
<1> HIDE DEF e, c
<1>11. e # 0 => e * s <= t * c /\ t * c < e * s + e
  <2>1. t * c \in Int /\ (e # 0 => e > 0)
    BY <1>10
  <2>2. e # 0 => s = (t * c) \div e
    BY <1>5
  <2>3. e # 0 => /\ e * ((t * c) \div e) <= t * c
                 /\ t * c < e * ((t * c) \div e) + e
    BY <2>1, <1>10, Division
  <2>. QED
    BY <2>2, <2>3
<1>12. e = 0 => t = 0 /\ s = c /\ ~vault.opened
  BY <1>4, <1>5, <1>6, <1>9, <1>10
<1>13. /\ e # 0 /\ t # 0 => g <= e
       /\ e = 0 => g <= 0
       /\ t = 0 /\ e # 0 => s = 0
  <2>1. t # 0 => total > 0
    BY <1>4, <1>7
  <2>2. e # 0 /\ t # 0 => g <= e
    BY <2>1, <1>4, <1>6, <1>10
  <2>3. e = 0 => g <= 0
    BY <1>1, <1>7, <1>12
  <2>4. t = 0 /\ e # 0 => s = 0
    BY <1>10, <1>11
  <2>. QED
    BY <2>2, <2>3, <2>4
<1>14. total + fee = t /\ vault'.totalShareAmount = t + s
  BY <1>4, <1>5
<1> HIDE DEF t, b, w, g
<1>15. (w + 1) * t >= g * (t + s)
  <2>1. CASE e # 0 /\ t # 0
    BY <2>1, <1>10, <1>11, <1>13, MintKeepsWorth
  <2>2. CASE e # 0 /\ t = 0
    BY <2>2, <1>10, <1>13
  <2>3. CASE e = 0
    <3>1. t = 0 /\ g <= 0
      BY <2>3, <1>12, <1>13
    <3>2. (w + 1) * 0 = 0 /\ g * (0 + s) <= 0
      BY <3>1, <1>10
    <3>. QED
      BY <3>1, <3>2
  <2>. QED
    BY <2>1, <2>2, <2>3
<1>16. s * (e + c) + b >= ((e + c) - b) * (t + s)
  <2>1. CASE e # 0
    BY <2>1, <1>10, <1>11, MintKeepsNewcomer
  <2>2. CASE e = 0
    <3>1. t = 0 /\ s = c
      BY <2>2, <1>12
    <3>2. c * (0 + c) + b >= ((0 + c) - b) * (0 + c)
      BY <2>2, <1>10
    <3>. QED
      BY <3>1, <3>2, <2>2
  <2>. QED
    BY <2>1, <2>2
<1>17. WorthStep
  BY <1>14, <1>15 DEF WorthStep, w, g
<1>18. NewcomerStep
  <2>1. SUFFICES ASSUME NEW q \in Positions, vault'.shares[q] - vault.shares[q] > 0
                 PROVE  (vault'.shares[q] - vault.shares[q]) * getEquityETHValue(vault')
                            + Backing(vault)
                          >= (getEquityETHValue(vault') - Backing(vault))
                               * vault'.totalShareAmount
    BY DEF NewcomerStep
  <2>2. vault.shares[q] \in Nat
    BY <1>1, HoldersBelowTotal DEF Holders
  <2>3. q = p /\ vault'.shares[q] - vault.shares[q] = s
    BY <2>1, <2>2, <1>4, <1>5
  <2>4. getEquityETHValue(vault') = e + c
    BY <1>9, EquityDef
  <2>. QED
    BY <2>3, <2>4, <1>14, <1>16 DEF b
<1>. QED
  BY <1>2, <1>5, <1>17, <1>18

(* A step by which nobody gets shares brings no newcomer.                  *)
LEMMA NoNewcomer ==
  ASSUME \A p \in Positions : vault'.shares[p] <= vault.shares[p],
         \A p \in Positions : vault'.shares[p] \in Int /\ vault.shares[p] \in Int
  PROVE  NewcomerStep
BY DEF NewcomerStep

LEMMA WithdrawStep ==
  ASSUME IInv, NEW p \in Positions, NEW w \in Nat,
         UNCHANGED <<paused, now>>, vault' \in withdrawInternal(p, w, 0, 0)
  PROVE  Sound(vault') /\ WorthStep /\ NewcomerStep
<1>1. now \in Nat /\ Sound(vault) /\ MaxLoss \in Nat
  BY BoundsAssumption, AmountsAssumption DEF IInv
<1>2. w > 0 /\ w <= vault.shares[p]
  BY DEF withdrawInternal, Withdrawable
<1>3. PICK v \in Prepared(vault, 0) : vault' \in Withdrawn(p, w, 0, v)
  BY DEF withdrawInternal
<1> DEFINE fee == ManagementFee(vault)
           total == vault.totalShareAmount
           t == v.totalShareAmount
           e == Equity(v)
           g == Worth(vault) - 2 * MaxLoss
           x == Worth(vault')
<1>4. /\ Sound(v) /\ v.opened = vault.opened
      /\ fee \in Nat /\ t = total + fee
      /\ total = 0 => fee = 0
      /\ \A q \in Positions : v.shares[q] = vault.shares[q]
      /\ vault.opened /\ total > 0 => e >= g
  BY <1>1, PreparedStep
<1>5. PICK n \in 0 .. w :
        /\ Sound(vault') /\ vault'.totalShareAmount = t - n
        /\ t > 0
        /\ vault'.shares[p] = v.shares[p] - w
        /\ \A q \in Positions \ {p} : vault'.shares[q] = v.shares[q]
        /\ t * Equity(vault') + t >= e * (t - n)
  BY <1>1, <1>2, <1>3, <1>4, WithdrawnStep
<1>6. /\ Worth(vault) \in Int /\ total \in Nat /\ (~vault.opened => total = 0)
      /\ e \in Nat /\ t \in Nat /\ (v.opened \/ t = 0)
      /\ Equity(vault') \in Nat /\ x \in Int /\ Equity(vault') <= x
      /\ vault'.totalShareAmount \in Nat
  BY <1>1, <1>4, <1>5, SoundEquity
<1>7. e >= g /\ g \in Int /\ t - n \in Nat
  BY <1>1, <1>4, <1>5, <1>6
<1> HIDE DEF t, e, g, x, fee, total
<1>8. (x + 1) * t >= g * (t - n)
  <2>1. (x + 1) * t >= t * Equity(vault') + t
    <3>1. (x + 1) * t >= (Equity(vault') + 1) * t
      BY <1>6
    <3>2. (Equity(vault') + 1) * t = t * Equity(vault') + t
      BY <1>6
    <3>. QED
      BY <3>1, <3>2
  <2>2. e * (t - n) >= g * (t - n)
    BY <1>6, <1>7
  <2>3. /\ (x + 1) * t \in Int /\ t * Equity(vault') + t \in Int
        /\ e * (t - n) \in Int /\ g * (t - n) \in Int
    BY <1>6, <1>7
  <2>. QED
    BY <2>1, <2>2, <2>3, <1>5
<1>9. WorthStep
  BY <1>4, <1>5, <1>8 DEF WorthStep, x, g, fee, total
<1>10. NewcomerStep
  <2>1. \A q \in Positions : vault.shares[q] \in Nat /\ vault'.shares[q] \in Nat
    BY <1>1, <1>5, HoldersBelowTotal DEF Holders
  <2>2. \A q \in Positions : vault'.shares[q] <= vault.shares[q]
    BY <2>1, <1>2, <1>4, <1>5
  <2>. QED
    BY <2>1, <2>2, NoNewcomer
<1>. QED
  BY <1>5, <1>9, <1>10

(* The controller's calls and every other step that leaves the shares      *)
(* alone: what is lost is lost by all alike.                               *)
LEMMA SharesUntouched ==
  ASSUME IInv, Sound(vault'), SameShares(vault, vault'),
         Worth(vault') >= Worth(vault) - 2 * MaxLoss
  PROVE  WorthStep /\ NewcomerStep
<1>1. now \in Nat /\ Sound(vault) /\ MaxLoss \in Nat
  BY BoundsAssumption, AmountsAssumption DEF IInv
<1> DEFINE fee == ManagementFee(vault)
           t == vault.totalShareAmount
           g == Worth(vault) - 2 * MaxLoss
           x == Worth(vault')
<1>2. /\ fee \in Nat /\ t \in Nat /\ g \in Int /\ x \in Int /\ x >= 0 /\ x >= g
      /\ vault'.totalShareAmount = t
  BY <1>1, ManagementFeeNat, SoundEquity DEF SameShares
<1> HIDE DEF fee, t, g, x
<1>3. (x + 1) * (t + fee) >= g * t
  <2>1. (x + 1) * (t + fee) = (x + 1) * t + (x + 1) * fee
    BY <1>2
  <2>2. (x + 1) * fee >= 0 /\ (x + 1) * t >= g * t
    BY <1>2
  <2>3. (x + 1) * fee \in Int /\ (x + 1) * t \in Int /\ g * t \in Int
    BY <1>2
  <2>. QED
    BY <2>1, <2>2, <2>3
<1>4. WorthStep
  BY <1>2, <1>3 DEF WorthStep, x, g, fee, t
<1>5. NewcomerStep
  <2>1. \A q \in Positions : vault.shares[q] \in Nat /\ vault'.shares[q] \in Nat
    BY <1>1, HoldersBelowTotal DEF Holders
  <2>2. \A q \in Positions : vault'.shares[q] <= vault.shares[q]
    BY <2>1 DEF SameShares
  <2>. QED
    BY <2>1, <2>2, NoNewcomer
<1>. QED
  BY <1>4, <1>5

LEMMA ControlledStep ==
  ASSUME IInv, Controlled
  PROVE  Sound(vault') /\ UNCHANGED <<paused, now>> /\ WorthStep /\ NewcomerStep
<1>1. Sound(vault) /\ MaxLoss \in Nat
  BY AmountsAssumption DEF IInv
<1>2. UNCHANGED <<paused, now>>
  BY DEF Controlled, reinvest, rebalance, Becomes
<1>3. Sound(vault') /\ SameShares(vault, vault')
      /\ Worth(vault') >= Worth(vault) - 2 * MaxLoss
  <2>1. CASE reinvest(0)
    <3>1. /\ Sound(vault') /\ SameShares(vault, vault')
          /\ Worth(vault') >= Worth(vault) - MaxLoss
      BY <2>1, <1>1, ReinvestStep DEF reinvest, Becomes
    <3>2. Worth(vault) \in Int /\ Worth(vault') \in Int
      BY <1>1, <3>1, SoundEquity
    <3>. QED
      BY <1>1, <3>1, <3>2
  <2>2. CASE rebalance(0)
    <3>1. PICK v \in reinvestInternal(vault, 0) : vault' \in rebalanceInternal(v)
      BY <2>2 DEF rebalance, Becomes
    <3>2. /\ Sound(v) /\ SameShares(vault, v)
          /\ Worth(v) >= Worth(vault) - MaxLoss
      BY <1>1, ReinvestStep
    <3>3. /\ Sound(vault') /\ SameShares(v, vault')
          /\ Worth(vault') >= Worth(v) - MaxLoss
      BY <3>1, <3>2, RebalanceStep
    <3>4. Worth(vault) \in Int /\ Worth(v) \in Int /\ Worth(vault') \in Int
      BY <1>1, <3>2, <3>3, SoundEquity
    <3>. QED
      BY <1>1, <3>2, <3>3, <3>4 DEF SameShares
  <2>. QED
    BY <2>1, <2>2 DEF Controlled
<1>. QED
  BY <1>2, <1>3, SharesUntouched

LEMMA TimePassesStep ==
  ASSUME IInv, TimePasses
  PROVE  IInv' /\ WorthStep /\ NewcomerStep
<1>1. /\ now \in 0 .. MaxTime /\ now' \in 0 .. MaxTime /\ now' = now + 1
      /\ MaxTime \in Nat /\ Sound(vault) /\ vault \in Vaults /\ paused' = paused
  <2>1. /\ now \in 0 .. MaxTime /\ now < MaxTime /\ now' = now + 1
        /\ paused' = paused /\ Sound(vault) /\ vault \in Vaults
    BY DEF IInv, Sound, TimePasses
  <2>. QED
    BY <2>1, BoundsAssumption
<1>2. /\ vault' \in Vaults /\ SameShares(vault, vault') /\ Covered(vault')
  <2>1. CASE ~vault.opened
    BY <2>1, <1>1 DEF TimePasses, SameShares, Sound
  <2>2. CASE vault.opened
    <3>1. PICK y \in Yields, m \in Moves, n \in BOOLEAN :
            /\ vault.collateral + m[1] > vault.debt + m[2]
            /\ vault' = [vault EXCEPT !.pending = @ + y, !.collateral = @ + m[1],
                                      !.debt = @ + m[2], !.neutral = n]
      BY <2>2 DEF TimePasses
    <3>2. y \in Nat /\ m[1] \in Int /\ m[2] \in Nat
      BY AmountsAssumption, MovesAssumption
    <3>3. /\ vault.pending + y \in Nat /\ vault.debt + m[2] \in Nat
          /\ vault.collateral + m[1] \in Nat
      BY <1>1, <3>1, <3>2 DEF Vaults
    <3>4. /\ vault'.collateral = vault.collateral + m[1]
          /\ vault'.debt = vault.debt + m[2] /\ vault'.opened
          /\ SameShares(vault, vault')
      BY <2>2, <3>1, <1>1 DEF Vaults, SameShares
    <3>5. vault' \in Vaults
      BY <3>1, <3>3, <1>1 DEF Vaults
    <3>6. Covered(vault')
      BY <3>1, <3>3, <3>4 DEF Covered
    <3>. QED
      BY <3>4, <3>5, <3>6
  <2>. QED
    BY <2>1, <2>2
<1>3. IInv'
  <2>1. Summed(vault')
    BY <1>1, <1>2 DEF Sound, Summed, SameShares
  <2>2. vault'.lastCollectionTimestamp <= now'
    <3>1. /\ vault.lastCollectionTimestamp \in Nat
          /\ vault.lastCollectionTimestamp <= now
      BY <1>1 DEF Sound, Vaults
    <3>. QED
      BY <3>1, <1>1, <1>2 DEF SameShares
  <2>. QED
    BY <2>1, <2>2, <1>1, <1>2 DEF IInv, Sound
<1>4. WorthStep
  <2>1. now' # now
    BY <1>1
  <2>. QED
    BY <2>1 DEF WorthStep
<1>5. NewcomerStep
  <2>1. \A q \in Positions : vault.shares[q] \in Nat
    BY <1>1, HoldersBelowTotal DEF Holders
  <2>. QED
    BY <2>1, <1>2, NoNewcomer DEF SameShares
<1>. QED
  BY <1>3, <1>4, <1>5

(* Pausing, and steps of others.                                           *)
LEMMA NoCallStep ==
  ASSUME IInv, UNCHANGED <<vault, now>>
  PROVE  Sound(vault') /\ WorthStep /\ NewcomerStep
<1>1. Sound(vault) /\ MaxLoss \in Nat
  BY AmountsAssumption DEF IInv
<1>2. Sound(vault') /\ SameShares(vault, vault')
  BY <1>1 DEF SameShares
<1>3. Worth(vault') = Worth(vault) /\ Worth(vault) \in Int
  BY <1>1, SoundEquity
<1>4. Worth(vault') >= Worth(vault) - 2 * MaxLoss
  BY <1>1, <1>3
<1>. QED
  BY <1>2, <1>4, SharesUntouched

LEMMA InitInv == Init => IInv
<1>1. SUFFICES ASSUME Init PROVE IInv
  OBVIOUS
<1>2. /\ vault.shares = [h \in Holders |-> 0] /\ vault.totalShareAmount = 0
      /\ vault.lastCollectionTimestamp = 0 /\ vault.collateral = 0
      /\ vault.debt = 0 /\ vault.neutral /\ ~vault.opened
      /\ now = 0 /\ paused = FALSE
  BY <1>1 DEF Init
<1>3. vault \in Vaults
  BY <1>1 DEF Init, Vaults
<1>4. Summed(vault)
  <2> DEFINE f == [h \in Holders |-> 0]
  <2>1. IsFiniteSet(Holders) /\ \A h \in Holders : f[h] = 0
    BY HoldersFinite
  <2>2. SumFunctionOnSet(f, Holders) = 0
    BY <2>1, SumZero
  <2>. QED
    BY <1>2, <2>2 DEF Summed, SumFunction
<1>5. vault.lastCollectionTimestamp <= now /\ now \in 0 .. MaxTime
  BY <1>2, BoundsAssumption
<1>. QED
  BY <1>2, <1>3, <1>4, <1>5 DEF IInv, Sound, Covered

(* Every step keeps the invariant and what the properties say of a step.   *)
LEMMA NextStep == IInv /\ [Next]_vars => IInv' /\ WorthStep /\ NewcomerStep
<1>. SUFFICES ASSUME IInv, [Next]_vars
              PROVE  IInv' /\ WorthStep /\ NewcomerStep
  OBVIOUS
<1>1. ASSUME Sound(vault'), now' = now, paused' \in BOOLEAN
      PROVE  IInv'
  BY <1>1 DEF IInv, Sound
<1>2. paused \in BOOLEAN
  BY DEF IInv
<1>3. ASSUME NEW p \in Positions, NEW amount \in Deposits, increasePosition(p, amount)
      PROVE  IInv' /\ WorthStep /\ NewcomerStep
  <2>1. amount \in Nat
    BY AmountsAssumption
  <2>. QED
    BY <1>1, <1>2, <1>3, <2>1, IncreaseStep
<1>4. ASSUME NEW p \in Positions, NEW w \in Withdrawals, decreasePosition(p, w)
      PROVE  IInv' /\ WorthStep /\ NewcomerStep
  <2>1. w \in Nat
    BY AmountsAssumption
  <2>2. UNCHANGED <<paused, now>> /\ vault' \in withdrawInternal(p, w, 0, 0)
    BY <1>4 DEF decreasePosition, Becomes
  <2>. QED
    BY <1>1, <1>2, <2>1, <2>2, WithdrawStep
<1>5. ASSUME NEW p \in Positions, closePosition(p)
      PROVE  IInv' /\ WorthStep /\ NewcomerStep
  <2>1. vault.shares[p] \in Nat
    BY HoldersBelowTotal DEF IInv, Holders
  <2>2. /\ UNCHANGED <<paused, now>>
        /\ vault' \in withdrawInternal(p, vault.shares[p], 0, 0)
    BY <1>5 DEF closePosition, Becomes
  <2>. QED
    BY <1>1, <1>2, <2>1, <2>2, WithdrawStep
<1>6. CASE Controlled
  BY <1>1, <1>2, <1>6, ControlledStep
<1>7. CASE pause \/ unpause
  <2>1. UNCHANGED <<vault, now>> /\ paused' \in BOOLEAN
    BY <1>7 DEF pause, unpause
  <2>. QED
    BY <1>1, <2>1, NoCallStep
<1>8. CASE TimePasses
  BY <1>8, TimePassesStep
<1>9. CASE UNCHANGED vars
  <2>1. UNCHANGED <<vault, now>> /\ paused' \in BOOLEAN
    BY <1>2, <1>9 DEF vars
  <2>. QED
    BY <1>1, <2>1, NoCallStep
<1>. QED
  BY <1>3, <1>4, <1>5, <1>6, <1>7, <1>8, <1>9 DEF Next

LEMMA Invariance == Spec => []IInv
BY InitInv, NextStep, PTL DEF Spec

(* No amount of the contract, all of them unsigned, goes below zero: not   *)
(* in the fee on the others' shares, a withdrawal's shares, collateral or  *)
(* debt (HomoraPDNVault.sol:413, :519, VaultLib.sol:760).                  *)
THEOREM TypeCorrect == Spec => []TypeOK
<1>1. IInv => TypeOK
  BY DEF IInv, Sound, TypeOK
<1>. QED
  BY <1>1, Invariance, PTL

(* The total by which deposits and withdrawals divide is the sum of what   *)
(* the positions and the fee collector hold, after every call.             *)
THEOREM SharesAddUp == Spec => []TotalIsSum
<1>1. IInv => TotalIsSum
  BY DEF IInv, Sound, Summed, TotalIsSum
<1>. QED
  BY <1>1, Invariance, PTL

(* Whatever the fees, the leverage, the limits and the thresholds are, a   *)
(* call leaves the shares of those who do not take part what they were     *)
(* worth, but for two trades' loss, the management fee due and rounding.   *)
THEOREM WorthKept == Spec => ShareWorthKept
<1>1. IInv /\ [Next]_vars => [WorthStep]_vars
  BY NextStep
<1>. QED
  BY <1>1, Invariance, PTL DEF Spec, ShareWorthKept, WorthStep

(* Whatever they are, a depositor's shares are worth the equity that the   *)
(* deposit adds, up to rounding: no fee of the time before is its to pay.  *)
THEOREM NewcomersNotCharged == Spec => NewcomerNotCharged
<1>1. IInv /\ [Next]_vars => [NewcomerStep]_vars
  BY NextStep
<1>. QED
  BY <1>1, Invariance, PTL DEF Spec, NewcomerNotCharged, NewcomerStep

=============================================================================
