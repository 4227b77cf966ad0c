------------------------- MODULE DeltaNeutralTrading -------------------------
(***************************************************************************)
(* The trading mathematics of a delta-neutral position: how much liquidity *)
(* it withdraws and how much it swaps to make the amount of the Mirror     *)
(* asset that it owns, liquid or farmed, match the amount that its CDP     *)
(* owes.  The contract computes these amounts by binary search over        *)
(* simulations of Terraswap and Spectrum, then sends the messages, and     *)
(* everything reverts if one of them fails.                                *)
(*                                                                         *)
(* DeltaNeutralPosition has the life of the contract and leaves amounts    *)
(* out; this module has the amounts, all in integers and rounded as in the *)
(* code, of one position with a CDP.  Anchor and the collateral oracle are *)
(* taken at the rate one, so that collateral is counted in uusd.           *)
(*                                                                         *)
(* What the tokens of all contracts become under a message is a set: empty *)
(* if it fails, otherwise of one element.                                  *)
(***************************************************************************)
EXTENDS Integers, FiniteSetsExt

CONSTANTS
  DECIMAL_FRACTIONAL,        \* one, as a Decimal (10^18 in the code)
  MIRROR_FRACTIONAL,         \* one, in Mirror's arithmetic (10^9, math.rs)
  Commission,                \* commission_rate of the pools, as a Decimal
  Uint128Max,                \* u128::MAX
  CollateralRatioRange,      \* TARGET_COLLATERAL_RATIO_RANGE, as Decimals
  min_reinvest_uusd_amount

(* What the others do, and bounds that make the state space finite.        *)
CONSTANTS
  InitialMarkets,            \* Terraswap, Astroport and Spectrum at first
  Deposits,                  \* uusd that positions are opened with
  Prices,                    \* oracle prices of the asset, as Decimals
  Rewards,                   \* uusd that MIR and SPEC rewards sell for
  Trades,                    \* amounts of others' trades and auctions
  MaxMoves                   \* moves of others, and rewards

ASSUME DecimalAssumption == DECIMAL_FRACTIONAL \in Nat \ {0} /\ MIRROR_FRACTIONAL \in Nat \ {0}
ASSUME CommissionAssumption == Commission \in 0 .. DECIMAL_FRACTIONAL - 1
ASSUME TradesAssumption == Trades \subseteq Nat \ {0} /\ Rewards \subseteq Nat /\ Deposits \subseteq Nat
ASSUME BoundsAssumption ==
  Uint128Max \in Nat /\ DECIMAL_FRACTIONAL <= Uint128Max /\ MaxMoves \in Nat

(* What there is of each token: a pool that had nothing of one of its      *)
(* tokens could not trade.                                                 *)
TerraswapPools == [asset : Nat \ {0}, uusd : Nat \ {0}, supply : Nat]
AstroportPools == [asset : Nat \ {0}, uusd : Nat \ {0}]
Farms     == [lp : Nat, shares : Nat, staked : Nat]
Positions == [uusd : Nat, asset : Nat, loose : Nat, shares : Nat, short : Nat,
              collateral : Nat, locked : Nat]

(* Some LP tokens belong to others than Spectrum, and not all of Spectrum's*)
(* are staked elsewhere.                                                   *)
ASSUME MarketsAssumption ==
  \A m \in InitialMarkets :
    /\ m.terraswap \in TerraswapPools /\ m.astroport \in AstroportPools /\ m.spectrum \in Farms
    /\ m.spectrum.staked <= m.spectrum.lp /\ m.spectrum.lp < m.terraswap.supply

VARIABLES
  chain,     \* the tokens of the pools, of the farm and of the position
  price,     \* the oracle's price of the asset
  unlocked,  \* have the short sale proceeds been unlocked?
  phase,     \* "none" before, "open", and "closed" or "left" for Anchor Earn
  moves      \* moves made so far

vars == <<chain, price, unlocked, phase, moves>>

-----------------------------------------------------------------------------
(* Arithmetic of cosmwasm-std, and of Mirror.                              *)

Decimal(n, d)    == (n * DECIMAL_FRACTIONAL) \div d         \* from_ratio
Times(amount, d) == (amount * d) \div DECIMAL_FRACTIONAL    \* Uint128 * Decimal
MultiplyRatio(amount, n, d) == (amount * n) \div d

reverse_decimal(d) == Decimal(MIRROR_FRACTIONAL, Times(MIRROR_FRACTIONAL, d))
decimal_division(a, b) == Decimal(Times(MIRROR_FRACTIONAL, a), Times(MIRROR_FRACTIONAL, b))
decimal_multiplication(a, b) ==
  Decimal(Times(Times(MIRROR_FRACTIONAL, a), b), MIRROR_FRACTIONAL)

(* The binary search that the contract writes out five times, for an       *)
(* amount where S begins: end if it finds none.  search[n] is the search   *)
(* of the n amounts from a on.                                             *)
Leftmost(S, first, end) ==
  LET search[n \in Nat] ==
        [a \in Nat |->
           IF n = 0 THEN a
           ELSE LET half == n \div 2 IN
                IF a + half \in S THEN search[half][a]
                                  ELSE search[n - half - 1][a + half + 1]]
  IN search[end - first][first]

Then(outcomes, Message(_)) == UNION {Message(c) : c \in outcomes}

-----------------------------------------------------------------------------
(* Terraswap.                                                              *)

SwapReturn(offerPool, askPool, offer) ==
  LET return == (Decimal(askPool, 1) - Decimal(offerPool * askPool, offerPool + offer))
                  \div DECIMAL_FRACTIONAL
  IN return - Times(return, Commission)

simulate_terraswap_swap(offerPool, askPool, offer) ==
  LET return == SwapReturn(offerPool, askPool, offer) IN
  [offerPool |-> offerPool + offer, askPool |-> askPool - return, return |-> return]

(* The least offer that returns ask; u128::MAX if none does.               *)
compute_terraswap_offer_amount(askPool, offerPool, ask) ==
  Leftmost({offer \in Nat : SwapReturn(offerPool, askPool, offer) >= ask}, 0, Uint128Max)

compute_terraswap_liquidity_token_mint_amount(a, b, poolA, poolB, supply) ==
  Min({MultiplyRatio(a, supply, poolA), MultiplyRatio(b, supply, poolB)})

(* A swap that returns nothing fails, as the transfer of nothing does.     *)
SellAsset(c, offer) ==
  LET s == simulate_terraswap_swap(c.terraswap.asset, c.terraswap.uusd, offer) IN
  IF offer > c.position.asset \/ s.return = 0 THEN {}
  ELSE {[c EXCEPT !.terraswap.asset = s.offerPool, !.terraswap.uusd = s.askPool,
                  !.position.asset = @ - offer, !.position.uusd = @ + s.return]}

BuyAsset(c, offer) ==
  LET s == simulate_terraswap_swap(c.terraswap.uusd, c.terraswap.asset, offer) IN
  IF offer > c.position.uusd \/ s.return = 0 THEN {}
  ELSE {[c EXCEPT !.terraswap.uusd = s.offerPool, !.terraswap.asset = s.askPool,
                  !.position.uusd = @ - offer, !.position.asset = @ + s.return]}

(* Astroport is a pool of the same kind, which the asset is sold to if it  *)
(* returns more uusd than Terraswap: both are asked before any message has *)
(* been carried out.                                                       *)
OnAstroport(c, amount) ==
  SwapReturn(c.astroport.asset, c.astroport.uusd, amount)
    > SwapReturn(c.terraswap.asset, c.terraswap.uusd, amount)

SellOnAstroport(c, amount) ==
  LET s == simulate_terraswap_swap(c.astroport.asset, c.astroport.uusd, amount) IN
  IF amount > c.position.asset THEN {}
  ELSE {[c EXCEPT !.astroport.asset = s.offerPool, !.astroport.uusd = s.askPool,
                  !.position.asset = @ - amount, !.position.uusd = @ + s.return]}

swap_cw20_token_for_uusd(asked, c, amount) ==
  IF OnAstroport(asked, amount) THEN SellOnAstroport(c, amount) ELSE SellAsset(c, amount)

-----------------------------------------------------------------------------
(* The Spectrum farm: shares of the LP tokens that it bonds.               *)

calc_auto_bond_share(f, amount) ==
  IF f.shares = 0 \/ f.lp = f.staked THEN amount
  ELSE MultiplyRatio(amount, f.shares, f.lp - f.staked)

calc_user_auto_balance(f, shares) ==
  IF f.shares = 0 THEN 0 ELSE MultiplyRatio(f.lp - f.staked, shares, f.shares)

(* Mutant: the share that rounding asks for is not added.                  *)
unbonded_share_rounded_down(f, amount) == calc_auto_bond_share(f, amount)

UnbondedShare(f, amount) ==
  LET share == calc_auto_bond_share(f, amount) IN
  IF calc_user_auto_balance(f, share) < amount THEN share + 1 ELSE share

simulate_spectrum_mirror_farm_unbond(f, shares, amount) ==
  LET share == UnbondedShare(f, amount) IN
  calc_user_auto_balance([f EXCEPT !.lp = @ - amount, !.shares = @ - share], shares - share)

(* lp_token_amount, mirror_asset_long_farm and mirror_asset_long_amount.   *)
LpTokens(c) == calc_user_auto_balance(c.spectrum, c.position.shares)
LongFarm(c) == MultiplyRatio(LpTokens(c), c.terraswap.asset, c.terraswap.supply)
Long(c)     == c.position.asset + LongFarm(c)
Short(c)    == c.position.short

Unbond(c, amount) ==
  LET share == UnbondedShare(c.spectrum, amount) IN
  IF amount > LpTokens(c) \/ share > c.position.shares THEN {}
  ELSE {[c EXCEPT !.spectrum.lp = @ - amount, !.spectrum.shares = @ - share,
                  !.position.shares = @ - share, !.position.loose = @ + amount]}

Bond(c, amount) ==
  LET share == calc_auto_bond_share(c.spectrum, amount) IN
  {[c EXCEPT !.spectrum.lp = @ + amount, !.spectrum.shares = @ + share,
             !.position.shares = @ + share, !.position.loose = @ - amount]}

(* What LP tokens are worth in the pool: floors of floors.                 *)
AssetFor(c, lp) == Times(c.terraswap.asset, Decimal(lp, c.terraswap.supply))
UusdFor(c, lp)  == Times(c.terraswap.uusd, Decimal(lp, c.terraswap.supply))

WithdrawsNothing(c, lp) == AssetFor(c, lp) = 0 \/ UusdFor(c, lp) = 0

WithdrawLiquidity(c, lp) ==
  IF WithdrawsNothing(c, lp) THEN {}
  ELSE {[c EXCEPT !.terraswap.asset = @ - AssetFor(c, lp),
                  !.terraswap.uusd = @ - UusdFor(c, lp),
                  !.terraswap.supply = @ - lp,
                  !.position.asset = @ + AssetFor(c, lp),
                  !.position.uusd = @ + UusdFor(c, lp),
                  !.position.loose = @ - lp]}

unstake_lp_from_spectrum_and_withdraw_liquidity(c, lp) ==
  LET Redeem(d) == WithdrawLiquidity(d, lp) IN Then(Unbond(c, lp), Redeem)

(* LP tokens estimated to give the asset wanted.                           *)
WithdrawalEstimate(c, wanted) == MultiplyRatio(LpTokens(c), wanted, LongFarm(c))

(* Mutant: the estimate is not adjusted for rounding.                      *)
withdrawals_by_estimate(c, wanted) == {WithdrawalEstimate(c, wanted)}

(* The estimate is adjusted upwards to the first of these; if all are more *)
(* than the position has, the unbonding fails.                             *)
WithdrawalsFor(c, wanted) ==
  {lp \in WithdrawalEstimate(c, wanted) .. LpTokens(c) : AssetFor(c, lp) >= wanted}

(* If there is no farmed asset, the estimate divides by zero.              *)
increase_mirror_asset_balance_from_long_farm(c, target) ==
  IF target <= c.position.asset THEN {c}
  ELSE IF LongFarm(c) = 0 \/ WithdrawalsFor(c, target - c.position.asset) = {} THEN {}
  ELSE unstake_lp_from_spectrum_and_withdraw_liquidity(
         c, Min(WithdrawalsFor(c, target - c.position.asset)))

-----------------------------------------------------------------------------
(* achieve_delta_neutral_from_state.                                       *)

(* What the contract expects to have after withdrawing lp LP tokens.       *)
AfterWithdrawal(c, lp) ==
  [asset     |-> c.position.asset + AssetFor(c, lp),
   uusd      |-> c.position.uusd + UusdFor(c, lp),
   poolAsset |-> c.terraswap.asset - AssetFor(c, lp),
   poolUusd  |-> c.terraswap.uusd - UusdFor(c, lp),
   lpRatio   |-> Decimal(IF lp = 0 THEN LpTokens(c)
                         ELSE simulate_spectrum_mirror_farm_unbond(c.spectrum, c.position.shares, lp),
                         c.terraswap.supply - lp)]

(* Its long amount if it then sells, or buys for, the amount offered.      *)
LongAfterSale(s, offer) == s.asset - offer + Times(s.poolAsset + offer, s.lpRatio)

LongAfterPurchase(s, offer) ==
  LET swap == simulate_terraswap_swap(s.poolUusd, s.poolAsset, offer) IN
  Times(swap.askPool, s.lpRatio) + swap.return + s.asset

(* Net long: the least LP tokens to withdraw so that selling all of the    *)
(* asset suffices, and the most of the asset to sell that leaves no less   *)
(* than what is owed.                                                      *)
SellingAllSuffices(c, lp) ==
  LET s == AfterWithdrawal(c, lp) IN LongAfterSale(s, s.asset) <= Short(c)

WithdrawalWhenLong(c) ==
  Leftmost({lp \in Nat : SellingAllSuffices(c, lp)}, 0, LpTokens(c) + 1)

TurnShort(c, s) == {offer \in Nat : LongAfterSale(s, offer) < Short(c)}

(* Mutant: the first offer that turns the position short is made.          *)
offer_until_short(c, s) == Min({Leftmost(TurnShort(c, s), 0, s.asset + 1), s.asset})

OfferWhenLong(c, s) == Leftmost(TurnShort(c, s), 0, s.asset + 1) - 1

(* The message that redeems the LP tokens is left out if it would give     *)
(* nothing of one token: the contract keeps them, and goes on as if it had *)
(* redeemed them.                                                          *)
WithdrawWhenLong(c, lp) ==
  IF lp = 0 THEN {c}
  ELSE IF WithdrawsNothing(c, lp) THEN Unbond(c, lp)
  ELSE unstake_lp_from_spectrum_and_withdraw_liquidity(c, lp)

NeutralFromLong(c) ==
  LET lp      == WithdrawalWhenLong(c)
      offer   == OfferWhenLong(c, AfterWithdrawal(c, lp))
      Sell(d) == IF offer > 0 THEN swap_cw20_token_for_uusd(c, d, offer) ELSE {d}
  IN Then(WithdrawWhenLong(c, lp), Sell)

(* Net short: the least LP tokens to withdraw so that buying for all uusd  *)
(* suffices, and the least uusd to buy for.                                *)
StaysShort(c, s, offer) == LongAfterPurchase(s, offer) < Short(c)

BuyingForAllSuffices(c, lp) ==
  LET s == AfterWithdrawal(c, lp) IN ~StaysShort(c, s, s.uusd)

WithdrawalWhenShort(c) ==
  Leftmost({lp \in Nat : BuyingForAllSuffices(c, lp)}, 0, LpTokens(c) + 1)

OfferWhenShort(c, s) ==
  Leftmost({offer \in Nat : ~StaysShort(c, s, offer)}, 0, s.uusd + 1)

(* If even all LP tokens do not suffice, more are asked for than there are *)
(* and the unbonding fails.                                                *)
NeutralFromShort(c) ==
  LET lp     == WithdrawalWhenShort(c)
      Buy(d) == BuyAsset(d, OfferWhenShort(c, AfterWithdrawal(c, lp)))
  IN IF lp > LpTokens(c) THEN {}
     ELSE IF lp = 0 THEN Buy(c)
     ELSE Then(unstake_lp_from_spectrum_and_withdraw_liquidity(c, lp), Buy)

achieve_delta_neutral_from_state(c) ==
  CASE Long(c) > Short(c) -> NeutralFromLong(c)
    [] Long(c) < Short(c) -> NeutralFromShort(c)
    [] Long(c) = Short(c) -> {c}

(* MIR and SPEC rewards, sold for uusd, and unlocked proceeds.             *)
claim_and_increase_uusd_balance(c, rewards) ==
  [c EXCEPT !.position.uusd = @ + rewards + (IF unlocked THEN c.position.locked ELSE 0),
            !.position.locked = IF unlocked THEN 0 ELSE @]

achieve_delta_neutral(c, rewards) ==
  achieve_delta_neutral_from_state(claim_and_increase_uusd_balance(c, rewards))

-----------------------------------------------------------------------------
(* delta_neutral_invest.                                                   *)

midpoint == (CollateralRatioRange.min + CollateralRatioRange.max) \div 2

(* The contract divides by prices and ratios in Mirror's arithmetic, where *)
(* they must not vanish: less than 10^-9 would stop every transaction.  As *)
(* rounded there, the midpoint is still above the minimum.                 *)
ASSUME RatioAssumption ==
  /\ CollateralRatioRange.min \in Nat /\ CollateralRatioRange.max \in Nat
  /\ CollateralRatioRange.min <= CollateralRatioRange.max
  /\ Times(MIRROR_FRACTIONAL, midpoint) > 0
ASSUME PricesAssumption ==
  \A p \in Prices :
    LET ratio == decimal_multiplication(midpoint, p) IN
    /\ p \in Nat /\ Times(MIRROR_FRACTIONAL, p) > 0
    /\ Times(MIRROR_FRACTIONAL, ratio) > 0
    /\ (Times(CollateralRatioRange.min, p) + 1) * reverse_decimal(ratio)
         <= DECIMAL_FRACTIONAL * DECIMAL_FRACTIONAL

MintAmount(collateral) ==
  Times(Times(collateral, decimal_division(DECIMAL_FRACTIONAL, price)), reverse_decimal(midpoint))

(* What minting and selling leaves in the pool, and what buying back costs. *)
AfterShortSale(c, mint) ==
  simulate_terraswap_swap(c.terraswap.asset, c.terraswap.uusd, mint)

LongSwap(c, mint) ==
  LET s == AfterShortSale(c, mint) IN
  compute_terraswap_offer_amount(s.offerPool, s.askPool, mint)

(* As many assets as the pool has cannot be bought: no liquidity.          *)
Buyable(c, mint) == mint < AfterShortSale(c, mint).offerPool

(* The sum of collateral and cost overflows if the cost is u128::MAX.      *)
Overflows(c, collateral) ==
  LET mint == MintAmount(collateral) IN
  Buyable(c, mint) /\ collateral + LongSwap(c, mint) > Uint128Max

Feasible(c, budget, collateral) ==
  LET mint == MintAmount(collateral) IN
  Buyable(c, mint) /\ collateral + LongSwap(c, mint) <= budget

(* Mutant: the search ends while an amount is left between the bounds.     *)
collateral_search_too_short(c, budget) ==
  LET search[n \in Nat] ==
        [a \in Nat |->
           IF n <= 2 THEN [collateral |-> a, overflow |-> FALSE]
           ELSE LET half == n \div 2 IN
                IF Overflows(c, a + half) THEN [collateral |-> a, overflow |-> TRUE]
                ELSE IF Feasible(c, budget, a + half) THEN search[n - half][a + half]
                ELSE search[half][a]]
  IN search[budget][0]

(* The binary search for the collateral: search[n] has a known to be       *)
(* feasible (or 0) and a + n not to be (or the budget).                    *)
CollateralSearch(c, budget) ==
  LET search[n \in Nat] ==
        [a \in Nat |->
           IF n <= 1 THEN [collateral |-> a, overflow |-> FALSE]
           ELSE LET half == n \div 2 IN
                IF Overflows(c, a + half) THEN [collateral |-> a, overflow |-> TRUE]
                ELSE IF Feasible(c, budget, a + half) THEN search[n - half][a + half]
                ELSE search[half][a]]
  IN search[budget][0]

(* Mirror mints for the collateral, sells on Terraswap and locks the       *)
(* proceeds anew.                                                          *)
MintAndSellShort(c, collateral, mint) ==
  LET s == AfterShortSale(c, mint) IN
  IF mint = 0 \/ s.return = 0 THEN {}
  ELSE {[c EXCEPT !.terraswap.asset = s.offerPool, !.terraswap.uusd = s.askPool,
                  !.position.uusd = @ - collateral,
                  !.position.collateral = @ + collateral,
                  !.position.short = @ + mint,
                  !.position.locked = @ + s.return]}

delta_neutral_invest(c, budget) ==
  LET found  == CollateralSearch(c, budget)
      mint   == MintAmount(found.collateral)
      Buy(d) == BuyAsset(d, LongSwap(c, mint))
  IN IF found.overflow THEN {}
     ELSE Then(MintAndSellShort(c, found.collateral, mint), Buy)

open_position_sanity_check(c) == c.position.asset = c.position.short

-----------------------------------------------------------------------------
(* What else rebalancing does.                                             *)

Burn(c, amount) ==
  IF amount <= 0 \/ amount > c.position.asset \/ amount > Short(c) THEN {}
  ELSE {[c EXCEPT !.position.asset = @ - amount, !.position.short = @ - amount]}

(* A ratio below the range burns some of the asset, one above it withdraws *)
(* collateral unless short sale proceeds are locked.                       *)
BurnToTarget(c) ==
  LET target  == Times(c.position.collateral,
                       reverse_decimal(decimal_multiplication(midpoint, price)))
      burn    == Short(c) - target
      Pay(d)  == Burn(d, burn)
  IN Then(increase_mirror_asset_balance_from_long_farm(c, burn), Pay)

WithdrawToTarget(c) ==
  LET excess == c.position.collateral
                  - Times(Times(Short(c), price), decimal_division(midpoint, DECIMAL_FRACTIONAL))
  IN IF excess <= 0 THEN {}
     ELSE {[c EXCEPT !.position.collateral = @ - excess, !.position.uusd = @ + excess]}

achieve_safe_collateral_ratios(c) ==
  LET ratio == Decimal(c.position.collateral, Times(Short(c), price)) IN
  IF Times(Short(c), price) = 0 THEN {}
  ELSE IF ratio < CollateralRatioRange.min THEN BurnToTarget(c)
  ELSE IF ratio > CollateralRatioRange.max /\ c.position.locked = 0 THEN WithdrawToTarget(c)
  ELSE {c}

(* Mutant: as much as the more plentiful token allows is provided.         *)
larger_pairing_ratio(c) ==
  Max({Decimal(c.position.uusd, c.terraswap.uusd), Decimal(c.position.asset, c.terraswap.asset)})

PairingRatio(c) ==
  Min({Decimal(c.position.uusd, c.terraswap.uusd), Decimal(c.position.asset, c.terraswap.asset)})

(* Spectrum's fee on so few LP tokens is rounded down to nothing.          *)
pair_uusd_with_mirror_asset_to_provide_liquidity_and_stake(c) ==
  LET pool  == c.terraswap
      uusd  == Times(pool.uusd, PairingRatio(c))
      asset == Times(pool.asset, PairingRatio(c))
      lp    == compute_terraswap_liquidity_token_mint_amount(uusd, asset, pool.uusd,
                                                             pool.asset, pool.supply)
  IN IF uusd = 0 \/ asset = 0 \/ lp = 0 THEN {c}
     ELSE Bond([c EXCEPT !.terraswap = [asset |-> pool.asset + asset, uusd |-> pool.uusd + uusd,
                                        supply |-> pool.supply + lp],
                         !.position.asset = @ - asset, !.position.uusd = @ - uusd,
                         !.position.loose = @ + lp], lp)

DeltaNeutralReinvest(c) ==
  IF c.position.uusd >= min_reinvest_uusd_amount
  THEN delta_neutral_invest(c, c.position.uusd)
  ELSE {c}

(* Nothing is reinvested while short sale proceeds are locked.             *)
Locked(c) == c.position.locked > 0 /\ ~unlocked

get_reinvest_internal_messages(asked, outcomes) ==
  IF Locked(asked) THEN outcomes
  ELSE Then(Then(outcomes, pair_uusd_with_mirror_asset_to_provide_liquidity_and_stake),
            DeltaNeutralReinvest)

(* rebalance_and_reinvest at a fresh price.                                *)
RebalanceOutcomes(c, rewards) ==
  get_reinvest_internal_messages(
    c, Then(achieve_delta_neutral(c, rewards), achieve_safe_collateral_ratios))

(* Burning what the CDP owes, if it is still there, and redeeming its      *)
(* collateral.                                                             *)
close_cdp_and_collect_fees(c) ==
  LET Pay(d)    == Burn(d, Short(d))
      Redeem(d) == {[d EXCEPT !.position.uusd = @ + d.position.collateral,
                              !.position.collateral = 0]}
  IN IF Short(c) = 0 THEN {c}
     ELSE Then(Then(increase_mirror_asset_balance_from_long_farm(c, Short(c)), Pay), Redeem)

CloseOutcomes(c, rewards) ==
  Then(achieve_delta_neutral(c, rewards), close_cdp_and_collect_fees)

-----------------------------------------------------------------------------
(* The transactions of the position, and the moves of the others.          *)

NoPosition == [uusd |-> 0, asset |-> 0, loose |-> 0, shares |-> 0, short |-> 0,
               collateral |-> 0, locked |-> 0]

Init ==
  /\ \E m \in InitialMarkets :
       chain = [terraswap |-> m.terraswap, astroport |-> m.astroport,
                spectrum |-> m.spectrum, position |-> NoPosition]
  /\ price \in Prices
  /\ unlocked = FALSE /\ phase = "none" /\ moves = 0

(* Rewards are a move, as they are bounded.                                *)
CountMoves(n) == moves + n <= MaxMoves /\ moves' = moves + n
CountRewards(rewards) == CountMoves(IF rewards > 0 THEN 1 ELSE 0)

open_position(budget) ==
  /\ phase = "none" /\ phase' = "open"
  /\ chain' \in {c \in delta_neutral_invest([chain EXCEPT !.position.uusd = budget], budget) :
                  open_position_sanity_check(c)}
  /\ UNCHANGED <<price, unlocked, moves>>

(* While the CDP exists: at a stale price the position only trades.        *)
rebalance_and_reinvest(rewards, fresh) ==
  /\ phase = "open" /\ Short(chain) > 0
  /\ chain' \in IF fresh THEN RebalanceOutcomes(chain, rewards)
                          ELSE achieve_delta_neutral(chain, rewards)
  /\ unlocked' = FALSE
  /\ CountRewards(rewards)
  /\ UNCHANGED <<price, phase>>

(* The CDP has been liquidated: everything is sold, for Anchor Earn.       *)
rebalance_liquidated(rewards) ==
  /\ phase = "open" /\ Short(chain) = 0 /\ phase' = "left"
  /\ chain' \in {[c EXCEPT !.position.uusd = 0] : c \in achieve_delta_neutral(chain, rewards)}
  /\ unlocked' = FALSE
  /\ CountRewards(rewards)
  /\ UNCHANGED price

close_position(rewards) ==
  /\ phase = "open" /\ phase' = "closed"
  /\ chain' \in {[c EXCEPT !.position.uusd = 0] : c \in CloseOutcomes(chain, rewards)}
  /\ unlocked' = FALSE
  /\ CountRewards(rewards)
  /\ UNCHANGED price

OthersTrade(pool, sold, bought, offer) ==
  LET s == simulate_terraswap_swap(chain[pool][sold], chain[pool][bought], offer) IN
  /\ chain' = [chain EXCEPT ![pool][sold] = s.offerPool, ![pool][bought] = s.askPool]
  /\ UNCHANGED <<price, unlocked, phase>>

(* LP tokens of others are bonded for the benefit of all shares.           *)
FarmCompounds(amount) ==
  /\ chain.spectrum.lp + amount < chain.terraswap.supply - chain.position.loose
  /\ chain' = [chain EXCEPT !.spectrum.lp = @ + amount]
  /\ UNCHANGED <<price, unlocked, phase>>

(* Mirror auctions a part of the CDP, or all of it and then releases the   *)
(* short sale proceeds.                                                    *)
Auction(amount) ==
  LET p == chain.position IN
  /\ chain' = [chain EXCEPT !.position =
       IF amount = p.short
       THEN [p EXCEPT !.short = 0, !.collateral = 0, !.locked = 0, !.uusd = @ + p.locked]
       ELSE [p EXCEPT !.short = @ - amount,
                      !.collateral = @ - Min({@, Times(amount, price)})]]
  /\ UNCHANGED <<price, unlocked, phase>>

Unlock ==
  /\ Locked(chain) /\ unlocked' = TRUE
  /\ UNCHANGED <<chain, price, phase>>

PriceChanges(p) == price' = p /\ UNCHANGED <<chain, unlocked, phase>>

Others ==
  /\ phase = "open"
  /\ CountMoves(1)
  /\ \/ \E pool \in {"terraswap", "astroport"}, offer \in Trades :
          OthersTrade(pool, "asset", "uusd", offer) \/ OthersTrade(pool, "uusd", "asset", offer)
     \/ \E amount \in Trades : FarmCompounds(amount)
     \/ \E amount \in {x \in Trades \cup {Short(chain)} : 0 < x /\ x <= Short(chain)} :
          Auction(amount)
     \/ Unlock
     \/ \E p \in Prices \ {price} : PriceChanges(p)

Next ==
  \/ \E budget \in Deposits : open_position(budget)
  \/ \E rewards \in Rewards, fresh \in BOOLEAN : rebalance_and_reinvest(rewards, fresh)
  \/ \E rewards \in Rewards : rebalance_liquidated(rewards) \/ close_position(rewards)
  \/ Others

Spec == Init /\ [][Next]_vars

-----------------------------------------------------------------------------
(* Properties.                                                             *)

(* Type invariant: no subtraction of the code has gone below zero, and no  *)
(* pool has been emptied.                                                  *)
TypeOK ==
  /\ chain \in [terraswap : TerraswapPools, astroport : AstroportPools,
               spectrum : Farms, position : Positions]
  /\ chain.position.shares <= chain.spectrum.shares
  /\ chain.spectrum.staked <= chain.spectrum.lp
  /\ chain.spectrum.lp + chain.position.loose < chain.terraswap.supply
  /\ price \in Prices /\ unlocked \in BOOLEAN
  /\ phase \in {"none", "open", "closed", "left"} /\ moves \in 0 .. MaxMoves

(* All uusd and all of the asset that the pools and the position have.     *)
Uusd(c) == c.terraswap.uusd + c.astroport.uusd
             + c.position.uusd + c.position.collateral + c.position.locked
Assets(c) == c.terraswap.asset + c.astroport.asset + c.position.asset

(* There are less than 10^18 units of each token, also if all uusd were put*)
(* down as collateral: a swap then leaves something of both tokens, as its *)
(* return is computed with 18 decimals.                                    *)
FitsDecimal ==
  \A more \in Rewards \cup Deposits \cup {0} :
    /\ Uusd(chain) + more <= DECIMAL_FRACTIONAL
    /\ Assets(chain) + MintAmount(Uusd(chain) + more) <= DECIMAL_FRACTIONAL

(* The contract asked both exchanges what the sale returns, and Astroport  *)
(* offers more, although the search was for an offer to Terraswap.         *)
SoldElsewhere(c) ==
  /\ Long(c) > Short(c)
  /\ LET offer == OfferWhenLong(c, AfterWithdrawal(c, WithdrawalWhenLong(c))) IN
     offer > 0 /\ OnAstroport(c, offer)

(* Redeeming the LP tokens to withdraw would give nothing of one token.    *)
WithdrawsDust(c) ==
  LET lp == IF Long(c) > Short(c) THEN WithdrawalWhenLong(c) ELSE WithdrawalWhenShort(c) IN
  Long(c) # Short(c) /\ lp > 0 /\ WithdrawsNothing(c, lp)

SlightlyLong(c) == Long(c) - Short(c) \in 0 .. 1

(* "either the neutral state or a slightly net long state if exact neutral *)
(* is not achievable" (rebalance.rs:223 and 347): after the messages have  *)
(* been carried out the position owns what it owes, or one unit more.      *)
(* Redemptions that give nothing are left aside, as they are no trade.     *)
TradedToNeutral ==
  phase = "open" =>
    \A rewards \in Rewards :
      LET c == claim_and_increase_uusd_balance(chain, rewards) IN
      WithdrawsDust(c) \/ \A d \in achieve_delta_neutral_from_state(c) : SlightlyLong(d)

(* Withdrawing liquidity turns a net long position short by itself: the    *)
(* shares of the farm may be worth several LP tokens, and as many of them  *)
(* are rounded up.                                                         *)
StaysLong(c) ==
  LET lp == WithdrawalWhenLong(c) IN
  lp = 0 \/ LongAfterSale(AfterWithdrawal(c, lp), 0) >= Short(c)

TurnsShort(c) == Long(c) > Short(c) /\ ~StaysLong(c)

(* One uusd may buy several units of an asset that is worth less than uusd.*)
BuysCheaply(c) ==
  LET s == AfterWithdrawal(c, WithdrawalWhenShort(c)) IN
  Long(c) < Short(c) /\ s.poolUusd < s.poolAsset

(* The same, whatever prices, pools and farm have become in the meantime,  *)
(* but for sales on Astroport: the position does not end short unless the  *)
(* redemption that it counts on is left out or turns it short by itself,   *)
(* and not by more than one unit long unless it buys a cheap asset.        *)
TradedToNeutralOnTerraswap ==
  phase = "open" =>
    \A rewards \in Rewards :
      LET c == claim_and_increase_uusd_balance(chain, rewards) IN
      \/ SoldElsewhere(c)
      \/ \A d \in achieve_delta_neutral_from_state(c) :
           /\ Long(d) >= Short(d) \/ WithdrawsDust(c) \/ TurnsShort(c)
           /\ Long(d) <= Short(d) + 1 \/ BuysCheaply(c)

(* The position owns just what it owes, but its LP tokens are worth less   *)
(* of the asset when they are redeemed than when they are counted.         *)
NothingToSpare(c) == Long(c) = Short(c) /\ AssetFor(c, LpTokens(c)) < LongFarm(c)

(* All uusd and all LP tokens do not buy back what is owed.                *)
OutOfMeans(c) == Long(c) < Short(c) /\ WithdrawalWhenShort(c) > LpTokens(c)

(* The condition of the search for the collateral, and of the one for the  *)
(* withdrawal of a net short position, is not monotone: it compares floors *)
(* of floors.  Whatever it is like, the collateral found (open.rs:88-137)  *)
(* can be afforded, and one uusd more cannot unless that is the budget or  *)
(* a sum overflows; and the withdrawal found (rebalance.rs:262-312)        *)
(* suffices, if the position has it, and one LP token less does not.       *)
SearchesEndAtBoundary ==
  /\ \A budget \in (IF phase = "none" THEN Deposits ELSE {chain.position.uusd}) :
       LET found == CollateralSearch(chain, budget) IN
       /\ found.collateral > 0 => Feasible(chain, budget, found.collateral)
       /\ \/ found.overflow \/ found.collateral + 1 >= budget
          \/ ~Feasible(chain, budget, found.collateral + 1)
  /\ phase = "open" /\ Long(chain) < Short(chain) =>
       LET lp == WithdrawalWhenShort(chain) IN
       /\ lp <= LpTokens(chain) => BuyingForAllSuffices(chain, lp)
       /\ lp > 0 => ~BuyingForAllSuffices(chain, lp - 1)

(* The asset is worth more than uusd, to the oracle and in the pool that   *)
(* each step of a transaction asks for uusd, so that no amount of it is    *)
(* worth nothing.                                                          *)
Dear(c) == c.terraswap.asset < c.terraswap.uusd

BeforeReinvesting(c) ==
  Then(Then(achieve_delta_neutral_from_state(c), achieve_safe_collateral_ratios),
       pair_uusd_with_mirror_asset_to_provide_liquidity_and_stake)

StaysDear(c) ==
  /\ price >= DECIMAL_FRACTIONAL
  /\ Long(c) > Short(c) => \A d \in WithdrawWhenLong(c, WithdrawalWhenLong(c)) : Dear(d)
  /\ \A d \in achieve_delta_neutral_from_state(c) \cup BeforeReinvesting(c) : Dear(d)

(* What is to be reinvested is too little to mint a unit of the asset, or  *)
(* more than there is to buy it back with.                                 *)
CannotReinvest(c) ==
  \E d \in BeforeReinvesting(c) :
    LET found == CollateralSearch(d, d.position.uusd) IN
    /\ d.position.uusd >= min_reinvest_uusd_amount
    /\ found.overflow \/ MintAmount(found.collateral) = 0

(* The holder can close the position, and the controller rebalance it, in  *)
(* every state that trades and auctions lead to: while the asset is dear,  *)
(* none of the many messages fails for amounts that were computed before   *)
(* the others were carried out, but in the five cases above, and when      *)
(* rebalancing if what is left is not fit to be reinvested.                *)
TransactionsSucceed ==
  phase = "open" =>
    \A rewards \in Rewards :
      LET c == claim_and_increase_uusd_balance(chain, rewards) IN
      \/ SoldElsewhere(c) \/ WithdrawsDust(c) \/ TurnsShort(c)
      \/ NothingToSpare(c) \/ OutOfMeans(c) \/ ~StaysDear(c)
      \/ /\ CloseOutcomes(chain, rewards) # {}
         /\ \/ Short(chain) = 0
            \/ ~Locked(chain) /\ CannotReinvest(c)
            \/ RebalanceOutcomes(chain, rewards) # {}

=============================================================================
