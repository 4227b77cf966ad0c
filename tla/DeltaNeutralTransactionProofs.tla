-------------------- MODULE DeltaNeutralTransactionProofs ---------------------
(***************************************************************************)
(* Proofs that the transactions of a delta-neutral position succeed, for   *)
(* every size of pools, positions and decimals: no message fails for an    *)
(* amount that was computed before the messages sent ahead of it had been  *)
(* carried out.                                                            *)
(***************************************************************************)
EXTENDS DeltaNeutralTradingProofs

-----------------------------------------------------------------------------
(* Shares of the farm: what unbonding takes and what it leaves.            *)

LEMMA ProductMonotone ==
  ASSUME NEW a \in Nat, NEW x \in Int, NEW y \in Int, x <= y
  PROVE  a * x <= a * y /\ a * x \in Int /\ a * y \in Int
OBVIOUS

(* Spectrum asks for no more shares than the position has, and for shares  *)
(* that are worth what is unbonded: T shares are worth l LP tokens, of     *)
(* which the position has n shares.                                        *)
LEMMA SharesSuffice ==
  ASSUME NEW l \in Nat \ {0}, NEW T \in Nat \ {0}, NEW n \in 0 .. T,
         NEW x \in Nat, x <= (l * n) \div T
  PROVE  LET q == (x * T) \div l
             share == IF (l * q) \div T < x THEN q + 1 ELSE q
         IN share \in 0 .. n /\ x * T <= l * share
<1> DEFINE q == (x * T) \div l
           b == (l * q) \div T
           share == IF b < x THEN q + 1 ELSE q
<1>1. x * T \in Nat /\ l * n \in Nat /\ n \in Nat
  OBVIOUS
<1>2. q \in Nat /\ l * q <= x * T /\ x * T < l * q + l
  BY <1>1, DivBounds
<1>3. x * T <= l * n
  <2>1. T * ((l * n) \div T) <= l * n /\ (l * n) \div T \in Nat
    BY <1>1, DivBounds
  <2> DEFINE k == (l * n) \div T
  <2>2. k \in Nat /\ x <= k
    BY <2>1
  <2> HIDE DEF k
  <2>3. T * x <= T * k /\ T * k \in Int
    BY <2>2, ProductMonotone
  <2>4. T * k <= l * n
    BY <2>1 DEF k
  <2> QED BY <1>1, <2>3, <2>4
<1> HIDE DEF q
<1>4. l * q \in Nat /\ l * (q + 1) = l * q + l
  BY <1>2
<1>5. b \in Nat /\ T * b <= l * q
  BY <1>4, DivBounds
<1>6. q <= n
  <2> SUFFICES ASSUME n < q
               PROVE  FALSE
    BY <1>1, <1>2
  <2>1. n + 1 <= q
    BY <1>1, <1>2
  <2>2. l * (n + 1) <= l * q /\ l * (n + 1) = l * n + l
    BY <1>1, <1>2, <2>1, ProductMonotone
  <2> QED BY <1>1, <1>2, <1>3, <1>4, <2>2
<1>7. CASE b < x
  <2>1. q # n
    <3> SUFFICES ASSUME q = n
                 PROVE  FALSE
      OBVIOUS
    <3>1. x <= b
      OBVIOUS
    <3> QED BY <1>5, <1>7, <3>1
  <2>2. q + 1 \in 0 .. n
    BY <1>1, <1>2, <1>6, <2>1
  <2>3. x * T <= l * (q + 1)
    BY <1>1, <1>2, <1>4
  <2> QED BY <1>7, <2>2, <2>3 DEF q
<1>8. CASE ~(b < x)
  <2> HIDE DEF b
  <2>1. x <= b
    BY <1>5, <1>8
  <2>2. T * x <= T * b /\ T * b \in Int
    BY <1>5, <2>1, ProductMonotone
  <2>3. x * T <= l * q
    BY <1>1, <1>4, <1>5, <2>2
  <2>4. q \in 0 .. n
    BY <1>1, <1>2, <1>6
  <2> QED BY <1>8, <2>3, <2>4 DEF q, b
<1> QED BY <1>7, <1>8

(* What remains is worth no more than before less what was unbonded.       *)
LEMMA SharesRemain ==
  ASSUME NEW l \in Nat \ {0}, NEW T \in Nat \ {0}, NEW n \in 0 .. T,
         NEW x \in Nat, x <= (l * n) \div T,
         NEW share \in 0 .. n, x * T <= l * share, share < T
  PROVE  x <= l /\ ((l - x) * (n - share)) \div (T - share) <= (l * n) \div T - x
<1> DEFINE k == (l * n) \div T
           Q == T - n
           R == T - share
           P == l - k - 1
           y == l - x
<1>1. l * n \in Nat /\ n \in Nat /\ share \in Nat
  OBVIOUS
<1>2. k \in Nat /\ T * k <= l * n /\ l * n < T * k + T
  BY <1>1, DivBounds
<1>3. k <= l
  <2>1. l * n <= T * l
    <3>1. l * n <= l * T /\ l * T = T * l /\ l * T \in Int
      BY <1>1, ProductMonotone
    <3> QED BY <3>1, <1>1
  <2> QED BY <1>1, <2>1, DivAtMost
<1>4. x <= k
  OBVIOUS
<1> HIDE DEF k
<1>5. Q \in Nat /\ R \in Nat \ {0} /\ P \in Int /\ P >= -1 /\ y \in Nat /\ k - x \in Nat
  BY <1>1, <1>2, <1>3, <1>4
<1>6. T * P < l * Q
  <2>1. T * P = T * l - T * k - T /\ l * Q = l * T - l * n
    BY <1>1, <1>2
  <2>2. T * l = l * T /\ T * l \in Nat /\ T * k \in Nat
    BY <1>2
  <2> QED BY <1>1, <1>2, <2>1, <2>2
<1>7. l * R <= y * T
  <2>1. l * R = l * T - l * share /\ y * T = l * T - x * T
    BY <1>1
  <2>2. l * T \in Nat /\ l * share \in Nat /\ x * T \in Nat
    BY <1>1
  <2> QED BY <2>1, <2>2
<1>8. n - share = R - Q /\ k - x + 1 = y - P
  BY <1>1, <1>2
<1> HIDE DEF Q, R, P, y
<1>9. R * P < y * Q
  <2> SUFFICES ASSUME y * Q <= R * P
               PROVE  FALSE
    BY <1>5
  <2>1. y * Q \in Nat /\ R * P \in Int /\ T * P \in Int /\ l * Q \in Nat /\ l * R \in Nat /\ y * T \in Nat
    BY <1>5
  <2>2. T * (y * Q) <= T * (R * P)
    BY <2>1, ProductMonotone
  <2>3. Q * (l * R) <= Q * (y * T)
    BY <1>5, <1>7, <2>1, ProductMonotone
  <2>4. R * (T * P) < R * (l * Q)
    <3>1. T * P + 1 <= l * Q
      BY <1>6, <2>1
    <3>2. R * (T * P + 1) <= R * (l * Q) /\ R * (T * P + 1) = R * (T * P) + R
      BY <1>5, <2>1, <3>1, ProductMonotone
    <3>3. R * (T * P) \in Int /\ R * (l * Q) \in Int
      BY <1>5, <2>1
    <3> QED BY <1>5, <3>2, <3>3
  <2>5. T * (y * Q) = Q * (y * T) /\ Q * (l * R) = R * (l * Q) /\ T * (R * P) = R * (T * P)
    BY <1>5
  <2>6. T * (y * Q) \in Int /\ R * (l * Q) \in Int /\ R * (T * P) \in Int
    BY <1>5, <2>1
  <2> QED BY <2>2, <2>3, <2>4, <2>5, <2>6
<1>10. y * (n - share) < R * (k - x + 1)
  <2>1. y * (R - Q) = y * R - y * Q /\ R * (y - P) = R * y - R * P
    BY <1>5
  <2>2. y * R = R * y /\ y * R \in Nat /\ y * Q \in Nat /\ R * P \in Int
    BY <1>5
  <2> QED BY <1>8, <1>9, <2>1, <2>2
<1>11. n - share \in Nat /\ y * (n - share) \in Nat /\ k - x + 1 \in Nat
  BY <1>1, <1>5
<1>12. (y * (n - share)) \div R < k - x + 1 /\ (y * (n - share)) \div R \in Nat
  BY <1>5, <1>10, <1>11, DivBelow, DivBounds
<1>13. (y * (n - share)) \div R <= k - x
  BY <1>5, <1>12
<1>14. x <= l
  BY <1>2, <1>3, <1>4
<1> QED BY <1>13, <1>14 DEF k, R, y

-----------------------------------------------------------------------------
(* Withdrawing liquidity.                                                  *)

(* The same of the farm in a state of the model.                           *)
LEMMA FarmShares ==
  ASSUME NEW c, Sound(c), NEW x \in 0 .. LpTokens(c)
  PROVE  /\ UnbondedShare(c.spectrum, x) \in 0 .. c.position.shares
         /\ simulate_spectrum_mirror_farm_unbond(c.spectrum, c.position.shares, x)
              \in 0 .. LpTokens(c) - x
<1> DEFINE f == c.spectrum
           l == f.lp - f.staked
           T == f.shares
           n == c.position.shares
           share == UnbondedShare(f, x)
<1>1. l \in Nat /\ T \in Nat /\ n \in 0 .. T /\ f \in Farms /\ f.lp \in Nat /\ f.staked \in Nat
  BY SoundNumbers DEF Sound, Chains
<1>2. LpTokens(c) = IF T = 0 THEN 0 ELSE (l * n) \div T
  BY DEF LpTokens, calc_user_auto_balance, MultiplyRatio
<1>3. x \in Nat /\ x <= LpTokens(c) /\ LpTokens(c) \in Nat
  BY FarmNumbers, SoundNumbers
<1>4. simulate_spectrum_mirror_farm_unbond(f, n, x)
        = IF T - share = 0 THEN 0 ELSE ((l - x) * (n - share)) \div (T - share)
  <2>1. /\ [f EXCEPT !.lp = @ - x, !.shares = @ - share].lp = f.lp - x
        /\ [f EXCEPT !.lp = @ - x, !.shares = @ - share].staked = f.staked
        /\ [f EXCEPT !.lp = @ - x, !.shares = @ - share].shares = T - share
    BY <1>1 DEF Farms
  <2>2. (f.lp - x) - f.staked = l - x
    BY <1>1, <1>3
  <2> HIDE DEF f, n, l, share
  <2> QED BY <2>1, <2>2 DEF simulate_spectrum_mirror_farm_unbond, calc_user_auto_balance, MultiplyRatio, share
<1>5. CASE T = 0 \/ l = 0
  <2>1. x = 0
    <3>1. CASE T = 0
      BY <1>2, <1>3, <3>1
    <3>2. CASE T # 0 /\ l = 0
      <4>1. 0 * n = 0 /\ 0 \div T = 0
        BY <1>1, <3>2
      <4> QED BY <1>2, <1>3, <3>2, <4>1
    <3> QED BY <1>5, <3>1, <3>2
  <2>2. calc_auto_bond_share(f, x) = 0
    <3>1. T = 0 \/ f.lp = f.staked
      BY <1>1, <1>5
    <3> QED BY <2>1, <3>1 DEF calc_auto_bond_share
  <2>3. calc_user_auto_balance(f, 0) = 0
    <3>1. CASE T = 0
      BY <3>1 DEF calc_user_auto_balance
    <3>2. CASE T # 0
      <4>1. l * 0 = 0 /\ 0 \div T = 0
        BY <1>1, <3>2
      <4> QED BY <3>2, <4>1 DEF calc_user_auto_balance, MultiplyRatio
    <3> QED BY <3>1, <3>2
  <2>4. share = 0
    BY <2>1, <2>2, <2>3 DEF UnbondedShare
  <2> HIDE DEF share, l
  <2>5. simulate_spectrum_mirror_farm_unbond(f, n, x) = 0
    <3>1. CASE T = 0
      BY <1>4, <2>4, <3>1
    <3>2. CASE T # 0 /\ l = 0
      <4>1. (0 - 0) * (n - 0) = 0 /\ T - 0 = T /\ 0 \div T = 0
        BY <1>1, <3>2
      <4> QED BY <1>4, <2>1, <2>4, <3>2, <4>1
    <3> QED BY <1>5, <3>1, <3>2
  <2> QED BY <1>1, <1>3, <2>1, <2>4, <2>5 DEF share
<1>6. CASE T # 0 /\ l # 0
  <2> DEFINE q == (x * T) \div l
  <2>1. calc_auto_bond_share(f, x) = q
    <3>1. f.lp # f.staked
      BY <1>1, <1>6
    <3> QED BY <1>6, <3>1 DEF calc_auto_bond_share, MultiplyRatio
  <2>2. calc_user_auto_balance(f, q) = (l * q) \div T
    BY <1>6 DEF calc_user_auto_balance, MultiplyRatio
  <2>3. share = IF (l * q) \div T < x THEN q + 1 ELSE q
    BY <2>1, <2>2 DEF UnbondedShare
  <2>4. x <= (l * n) \div T /\ LpTokens(c) = (l * n) \div T
    BY <1>2, <1>3, <1>6
  <2> HIDE DEF share, l, n, f
  <2>5. share \in 0 .. n /\ x * T <= l * share
    <3>1. LET r == (x * T) \div l
              t == IF (l * r) \div T < x THEN r + 1 ELSE r
          IN t \in 0 .. n /\ x * T <= l * t
      BY <1>1, <1>3, <1>6, <2>4, SharesSuffice
    <3> QED BY <2>3, <3>1
  <2> HIDE DEF T
  <2>6. simulate_spectrum_mirror_farm_unbond(f, n, x) \in 0 .. LpTokens(c) - x
    <3>1. CASE share = T
      BY <1>1, <1>3, <1>4, <3>1
    <3>2. CASE share # T
      <4>1. share < T /\ T - share \in Nat \ {0} /\ n - share \in Nat
        BY <1>1, <2>5, <3>2
      <4>2. x <= l /\ ((l - x) * (n - share)) \div (T - share) <= (l * n) \div T - x
        BY <1>1, <1>3, <1>6, <2>4, <2>5, <4>1, SharesRemain
      <4>3. (l - x) * (n - share) \in Nat
        BY <1>1, <1>3, <4>1, <4>2
      <4>4. ((l - x) * (n - share)) \div (T - share) \in Nat
        BY <4>1, <4>3, DivBounds
      <4>5. simulate_spectrum_mirror_farm_unbond(f, n, x) = ((l - x) * (n - share)) \div (T - share)
        BY <1>4, <4>1
      <4> QED BY <1>3, <2>4, <4>2, <4>4, <4>5
    <3> QED BY <3>1, <3>2
  <2> QED BY <2>5, <2>6 DEF share, n, f
<1> QED BY <1>5, <1>6

(* Unbonding no more than the position has does not fail.                  *)
LEMMA UnbondSucceeds ==
  ASSUME NEW c, Sound(c), NEW lp \in 0 .. LpTokens(c)
  PROVE  Unbond(c, lp) # {}
<1>1. UnbondedShare(c.spectrum, lp) \in 0 .. c.position.shares
  BY FarmShares
<1>2. ~(lp > LpTokens(c)) /\ ~(UnbondedShare(c.spectrum, lp) > c.position.shares)
  BY <1>1, FarmNumbers, SoundNumbers
<1> QED BY <1>2 DEF Unbond

(* Nor does redeeming, if it gives some of each token.                     *)
LEMMA RedeemSucceeds ==
  ASSUME NEW c, Sound(c), NEW lp \in 0 .. LpTokens(c), ~WithdrawsNothing(c, lp)
  PROVE  unstake_lp_from_spectrum_and_withdraw_liquidity(c, lp) # {}
<1>1. PICK e : e \in Unbond(c, lp)
  BY UnbondSucceeds
<1>2. lp \in Nat
  BY FarmNumbers, SoundNumbers
<1>3. e.terraswap = c.terraswap
  BY <1>1, <1>2, UnbondKeeps
<1>4. ~WithdrawsNothing(e, lp)
  BY <1>3 DEF WithdrawsNothing, AssetFor, UusdFor
<1>5. WithdrawLiquidity(e, lp) # {}
  BY <1>4 DEF WithdrawLiquidity
<1> QED BY <1>1, <1>5 DEF unstake_lp_from_spectrum_and_withdraw_liquidity, Then

(* A net long position can always withdraw enough: all of its LP tokens.   *)
LEMMA WithdrawalWhenLongExists ==
  ASSUME NEW c, Sound(c)
  PROVE  WithdrawalWhenLong(c) \in 0 .. LpTokens(c)
<1> DEFINE lp == LpTokens(c)
           s == AfterWithdrawal(c, lp)
           S == {x \in Nat : SellingAllSuffices(c, x)}
<1>1. lp \in Nat /\ lp < c.terraswap.supply /\ c.terraswap.supply \in Nat /\ Short(c) \in Nat
  BY FarmNumbers, SoundNumbers DEF Sound
<1>2. s.asset \in Nat /\ s.poolAsset \in Nat
  <2>1. lp \in 0 .. LpTokens(c)
    BY <1>1
  <2> QED BY <2>1, WithdrawnNumbers
<1>3. s.lpRatio = 0
  <2> DEFINE left == c.terraswap.supply - lp
  <2>1. simulate_spectrum_mirror_farm_unbond(c.spectrum, c.position.shares, lp) = 0
    <3>1. lp \in 0 .. LpTokens(c)
      BY <1>1
    <3>2. simulate_spectrum_mirror_farm_unbond(c.spectrum, c.position.shares, lp) \in 0 .. lp - lp
      BY <3>1, FarmShares
    <3> HIDE DEF lp
    <3> QED BY <1>1, <3>2
  <2>2. s.lpRatio = Decimal(0, left)
    BY <2>1 DEF AfterWithdrawal
  <2>3. left \in Nat \ {0}
    BY <1>1
  <2> HIDE DEF left
  <2>4. 0 * DECIMAL_FRACTIONAL = 0 /\ 0 \div left = 0
    BY <2>3, DecimalAssumption
  <2> QED BY <2>2, <2>4 DEF Decimal
<1>4. LongAfterSale(s, s.asset) = 0
  <2>1. LongAfterSale(s, s.asset) = s.asset - s.asset + Times(s.poolAsset + s.asset, s.lpRatio)
    BY DEF LongAfterSale
  <2> HIDE DEF s
  <2>2. Times(s.poolAsset + s.asset, 0) = 0
    <3>1. (s.poolAsset + s.asset) * 0 = 0 /\ 0 \div DECIMAL_FRACTIONAL = 0
      BY <1>2, DecimalAssumption
    <3> QED BY <3>1 DEF Times
  <2> QED BY <1>2, <1>3, <2>1, <2>2
<1>5. lp \in S
  BY <1>1, <1>4 DEF SellingAllSuffices
<1> HIDE DEF s, S, lp
<1>6. WithdrawalWhenLong(c) = Leftmost(S, 0, lp + 1)
  BY DEF WithdrawalWhenLong, S, lp
<1>7. /\ WithdrawalWhenLong(c) \in 0 .. lp + 1
      /\ WithdrawalWhenLong(c) > 0 => WithdrawalWhenLong(c) - 1 \notin S
  BY <1>1, <1>6, LeftmostBoundary, lp + 1 \in Nat, 0 \in Nat, 0 <= lp + 1
<1>8. WithdrawalWhenLong(c) # lp + 1
  <2>1. (lp + 1) - 1 = lp /\ lp + 1 > 0
    BY <1>1
  <2> QED BY <1>5, <1>7, <2>1
<1> QED BY <1>1, <1>7, <1>8 DEF lp

-----------------------------------------------------------------------------
(* Net long: selling what has been withdrawn.                              *)

(* While the asset is worth more than uusd, one unit of it sells for some. *)
LEMMA SwapReturnsSome ==
  ASSUME NEW o \in Nat \ {0}, NEW a \in Nat, o < a, NEW x \in Nat \ {0}
  PROVE  SwapReturn(o, a, x) >= 1
<1> DEFINE D == DECIMAL_FRACTIONAL
           l == Left(o, a, x)
           g == Gross(o, a, x)
           C == Commission
<1>1. D \in Nat \ {0} /\ C \in 0 .. D - 1 /\ l \in 0 .. a * D /\ o * a * D \in Nat /\ g \in Nat
  BY DecimalAssumption, CommissionAssumption, LeftBounds, GrossBounds
<1>2. l <= (a - 1) * D
  <2> HIDE DEF D
  <2>1. o * a <= (o + x) * (a - 1)
    <3>1. (o + x) * (a - 1) = o * a - o + x * (a - 1)
      OBVIOUS
    <3>2. x * (a - 1) >= a - 1
      OBVIOUS
    <3>3. x * (a - 1) \in Nat /\ o * a \in Nat
      OBVIOUS
    <3> QED BY <3>1, <3>2, <3>3
  <2>2. o * a * D <= (o + x) * ((a - 1) * D)
    <3>1. D * (o * a) <= D * ((o + x) * (a - 1))
      BY <1>1, <2>1, ProductMonotone
    <3>2. D * (o * a) = o * a * D /\ D * ((o + x) * (a - 1)) = (o + x) * ((a - 1) * D)
      BY <1>1
    <3> QED BY <3>1, <3>2
  <2>3. (a - 1) * D \in Nat /\ o + x \in Nat \ {0}
    BY <1>1
  <2> QED BY <1>1, <2>2, <2>3, DivAtMost DEF Left, D
<1>3. g >= 1
  <2> HIDE DEF D, l
  <2>1. (a - 1) * D = a * D - D /\ a * D \in Nat
    BY <1>1
  <2>2. a * D - l \in Nat /\ D * 1 <= a * D - l
    BY <1>1, <1>2, <2>1
  <2>3. 1 <= (a * D - l) \div D
    BY <1>1, <2>2, DivAtLeast
  <2> QED BY <1>1, <2>3 DEF Gross, D, l
<1>4. SwapReturn(o, a, x) = g - ((g * C) \div D)
  BY SwapReturnIs
<1> HIDE DEF D, C, g, l
<1>5. g * C \in Nat /\ g * C < D * g
  <2>1. g * C <= g * (D - 1) /\ g * (D - 1) = g * D - g /\ g * D = D * g /\ D * g \in Nat
    BY <1>1
  <2> QED BY <1>1, <1>3, <2>1
<1>6. (g * C) \div D < g /\ (g * C) \div D \in Nat
  BY <1>1, <1>5, DivBelow, DivBounds
<1> QED BY <1>1, <1>4, <1>6

(* So Terraswap buys whatever the position has.                            *)
LEMMA SellSucceeds ==
  ASSUME NEW e, Sound(e), Dear(e), NEW offer \in Nat \ {0}, offer <= e.position.asset
  PROVE  SellAsset(e, offer) # {}
<1>1. SwapReturn(e.terraswap.asset, e.terraswap.uusd, offer) >= 1
  BY SoundNumbers, SwapReturnsSome DEF Dear
<1>2. /\ SwapReturn(e.terraswap.asset, e.terraswap.uusd, offer) # 0
      /\ ~(offer > e.position.asset)
  BY <1>1, SoundNumbers
<1> QED BY <1>2, SimulateIs DEF SellAsset

(* LP tokens that give some of the asset then also give uusd.              *)
LEMMA RedeemsBoth ==
  ASSUME NEW c, Sound(c), Dear(c), NEW lp \in Nat, AssetFor(c, lp) > 0
  PROVE  ~WithdrawsNothing(c, lp)
<1>1. Decimal(lp, c.terraswap.supply) \in Nat
  BY DecimalNat, SoundNumbers DEF Sound
<1>2. /\ c.terraswap.asset \in Nat /\ c.terraswap.uusd \in Nat
      /\ c.terraswap.asset <= c.terraswap.uusd
  BY SoundNumbers DEF Dear
<1>3. AssetFor(c, lp) <= UusdFor(c, lp) /\ AssetFor(c, lp) \in Nat /\ UusdFor(c, lp) \in Nat
  BY <1>1, <1>2, TimesMonotone, TimesNat DEF AssetFor, UusdFor
<1> QED BY <1>3 DEF WithdrawsNothing

(* A net long position trades to neutral.                                  *)
LEMMA NeutralFromLongSucceeds ==
  ASSUME NEW c, Sound(c), Fits(c), Long(c) > Short(c), ~SoldElsewhere(c), ~WithdrawsDust(c),
         \A d \in WithdrawWhenLong(c, WithdrawalWhenLong(c)) : Dear(d)
  PROVE  NeutralFromLong(c) # {}
<1> DEFINE lp == WithdrawalWhenLong(c)
           s  == AfterWithdrawal(c, lp)
           offer == OfferWhenLong(c, s)
<1>1. lp \in 0 .. LpTokens(c) /\ lp \in Nat
  BY WithdrawalWhenLongExists, FarmNumbers, SoundNumbers
<1>2. lp > 0 => ~WithdrawsNothing(c, lp)
  <2>1. Long(c) # Short(c)
    BY FarmNumbers
  <2> QED BY <2>1 DEF WithdrawsDust
<1>3. WithdrawWhenLong(c, lp) # {}
  BY <1>1, <1>2, RedeemSucceeds DEF WithdrawWhenLong
<1>4. PICK e : e \in WithdrawWhenLong(c, lp)
  BY <1>3
<1>5. Sound(e) /\ Dear(e) /\ Agrees(e, s) /\ s.lpRatio \in Nat
  BY <1>1, <1>2, <1>4, WithdrawnWhenLong, WithdrawWhenLongKeeps DEF Keeps
<1>6. s.asset \in Nat /\ s.poolAsset \in Nat
  BY <1>1, WithdrawnNumbers
<1>7. LongAfterSale(s, s.asset) <= Short(c)
  <2>1. lp <= LpTokens(c)
    BY <1>1, FarmNumbers, SoundNumbers
  <2> QED BY <2>1, WithdrawalFound DEF SellingAllSuffices
<1>8. offer > 0 => ~OnAstroport(c, offer)
  BY DEF SoldElsewhere
<1> HIDE DEF s
<1>9. offer \in -1 .. s.asset
  BY <1>5, <1>6, <1>7, OfferWhenLongIs
<1>10. s.asset = e.position.asset
  BY <1>5 DEF Agrees
<1>11. (IF offer > 0 THEN swap_cw20_token_for_uusd(c, e, offer) ELSE {e}) # {}
  <2> HIDE DEF offer
  <2>1. CASE offer > 0
    <3>1. offer \in Nat \ {0} /\ offer <= e.position.asset
      BY <1>6, <1>9, <1>10, <2>1
    <3> QED BY <1>5, <1>8, <2>1, <3>1, SellSucceeds DEF swap_cw20_token_for_uusd
  <2> QED BY <2>1
<1> QED BY <1>4, <1>11 DEF NeutralFromLong, Then, s

(* Redeeming LP tokens makes the position no longer: of its l LP tokens in *)
(* a pool of n, which has a of the asset, it redeems x for f.              *)
LEMMA RedeemingGainsNothing ==
  ASSUME NEW a \in Nat, NEW f \in 0 .. a, NEW n \in Nat \ {0}, NEW x \in 0 .. n - 1,
         NEW l \in x .. n, NEW k \in 0 .. l - x, n * f <= x * a
  PROVE  (k * (a - f)) \div (n - x) + f <= (l * a) \div n
<1> DEFINE b == a - f
           m == n - x
           q == (k * b) \div m
           p == n - l
<1>1. /\ b \in Nat /\ m \in Nat \ {0} /\ k \in Nat /\ x \in Nat /\ l \in Nat /\ f \in Nat /\ p \in Nat
      /\ l - x \in Nat
  OBVIOUS
<1>2. q \in Nat /\ m * q <= k * b
  <2>1. k * b \in Nat
    BY <1>1
  <2> HIDE DEF b, m
  <2> QED BY <1>1, <2>1, DivBounds
<1>3. m = p + (l - x) /\ n = p + l /\ a = b + f
  OBVIOUS
<1> HIDE DEF b, m, q, p
<1>4. k * b <= (l - x) * b /\ (l - x) * b \in Nat
  BY <1>1
<1>5. m * q <= (l - x) * b /\ m * q \in Nat
  <2>1. k * b \in Nat
    BY <1>1
  <2> QED BY <1>1, <1>2, <1>4, <2>1
<1>6. n * (m * q) <= n * ((l - x) * b)
  BY <1>4, <1>5, ProductMonotone
<1>7. p * (n * f) <= p * (x * a)
  <2>1. n * f \in Nat /\ x * a \in Nat
    BY <1>1
  <2> QED BY <1>1, <2>1, ProductMonotone
<1>8. m * (n * (q + f)) <= m * (l * a)
  <2>1. m * (n * (q + f)) = n * (m * q) + m * (n * f)
    BY <1>1, <1>2
  <2>2. m * (n * f) = p * (n * f) + n * ((l - x) * f)
    <3>1. (p + (l - x)) * (n * f) = p * (n * f) + (l - x) * (n * f)
      BY <1>1
    <3>2. (l - x) * (n * f) = n * ((l - x) * f)
      BY <1>1
    <3> QED BY <1>3, <3>1, <3>2
  <2>3. n * ((l - x) * b) + n * ((l - x) * f) = n * ((l - x) * a)
    BY <1>1, <1>3
  <2>4. n * ((l - x) * a) + p * (x * a) = m * (l * a)
    <3>1. (p + l) * (l - x) + p * x = (p + (l - x)) * l
      BY <1>1
    <3>2. n * ((l - x) * a) = (n * (l - x)) * a /\ p * (x * a) = (p * x) * a /\ m * (l * a) = (m * l) * a
      BY <1>1
    <3>3. n * (l - x) + p * x = m * l
      BY <1>3, <3>1
    <3>4. (n * (l - x)) * a + (p * x) * a = (n * (l - x) + p * x) * a
      BY <1>1
    <3> QED BY <3>2, <3>3, <3>4
  <2>5. /\ n * (m * q) \in Nat /\ m * (n * f) \in Nat /\ p * (n * f) \in Nat /\ n * ((l - x) * f) \in Nat
        /\ n * ((l - x) * b) \in Nat /\ n * ((l - x) * a) \in Nat
        /\ p * (x * a) \in Nat /\ m * (l * a) \in Nat
    BY <1>1, <1>2
  <2> QED BY <1>6, <1>7, <2>1, <2>2, <2>3, <2>4, <2>5
<1>9. n * (q + f) <= l * a
  <2>1. n * (q + f) \in Int /\ l * a \in Int
    BY <1>1, <1>2
  <2>2. l * a < n * (q + f) => m * (l * a) < m * (n * (q + f))
    <3> SUFFICES ASSUME l * a < n * (q + f)
                 PROVE  m * (l * a) < m * (n * (q + f))
      OBVIOUS
    <3>1. l * a + 1 <= n * (q + f)
      BY <2>1
    <3>2. m * (l * a + 1) <= m * (n * (q + f)) /\ m * (l * a + 1) = m * (l * a) + m
      BY <1>1, <2>1, <3>1, ProductMonotone
    <3>3. m * (l * a) \in Int /\ m * (n * (q + f)) \in Int
      BY <1>1, <2>1
    <3> QED BY <1>1, <3>2, <3>3
  <2>3. m * (l * a) \in Int /\ m * (n * (q + f)) \in Int
    BY <1>1, <2>1
  <2> QED BY <1>8, <2>1, <2>2, <2>3
<1>10. q + f \in Nat /\ l * a \in Nat
  BY <1>1, <1>2
<1> QED BY <1>9, <1>10, DivAtLeast DEF q, b, m

-----------------------------------------------------------------------------
(* Net short: buying what is owed.                                         *)

(* What a net short position has of the asset before it buys any.          *)
LEMMA StaysShortWithdrawing ==
  ASSUME NEW c, Sound(c), Fits(c), Long(c) < Short(c), NEW lp \in 0 .. LpTokens(c),
         NEW s, s = AfterWithdrawal(c, lp)
  PROVE  Times(s.poolAsset, s.lpRatio) + s.asset < Short(c)
<1> DEFINE a == c.terraswap.asset
           n == c.terraswap.supply
           l == LpTokens(c)
           f == AssetFor(c, lp)
           k == IF lp = 0 THEN l
                ELSE simulate_spectrum_mirror_farm_unbond(c.spectrum, c.position.shares, lp)
           own == c.position.asset
           t == Times(a - f, Decimal(k, n - lp))
<1>1. a \in Nat /\ n \in Nat \ {0} /\ l \in Nat /\ l <= n /\ lp \in 0 .. n - 1 /\ own \in Nat
  BY FarmNumbers, SoundNumbers DEF Sound
<1>2. k \in 0 .. l - lp
  <2>1. CASE lp = 0
    BY <1>1, <2>1
  <2>2. CASE lp # 0
    BY <2>2, FarmShares
  <2> QED BY <2>1, <2>2
<1>3. Short(c) \in Nat /\ (l * a) \div n \in Nat /\ Long(c) = own + (l * a) \div n
  <2>1. l * a \in Nat
    BY <1>1
  <2> QED BY <1>1, <2>1, DivBounds, FarmNumbers DEF Long, LongFarm, MultiplyRatio
<1>4. /\ s.asset = own + f /\ s.poolAsset = a - f
      /\ s.lpRatio = Decimal(k, n - lp)
  BY DEF AfterWithdrawal
<1>5. Times(s.poolAsset, s.lpRatio) = t
  BY <1>4
<1>6. f = Times(a, Decimal(lp, n))
  BY DEF AssetFor
<1>7. a <= DECIMAL_FRACTIONAL
  BY SoundNumbers, DecimalAssumption DEF Fits, Assets
<1> HIDE DEF a, n, l, f, k, own
<1>8. f \in 0 .. a /\ n * f <= lp * a
  <2>1. lp \in Nat /\ lp < n /\ lp * a \in Nat
    BY <1>1
  <2>2. f \in Nat /\ f <= (lp * a) \div n
    BY <1>1, <1>6, <2>1, FloorOfFloor
  <2> DEFINE q == (lp * a) \div n
  <2>3. q \in Nat /\ n * q <= lp * a
    BY <1>1, <2>1, DivBounds
  <2>4. f <= q
    BY <2>2
  <2> HIDE DEF q
  <2>5. n * f <= n * q /\ n * f \in Int /\ n * q \in Int
    BY <1>1, <2>2, <2>3, <2>4, ProductMonotone
  <2>6. n * f <= lp * a
    BY <2>1, <2>3, <2>5
  <2>7. n * f <= n * a
    <3>1. a * lp <= a * n /\ a * lp = lp * a /\ a * n = n * a /\ n * a \in Nat
      BY <1>1, <2>1, ProductMonotone
    <3> QED BY <2>1, <2>5, <2>6, <3>1
  <2>8. f <= a
    <3> SUFFICES ASSUME a + 1 <= f
                 PROVE  FALSE
      BY <1>1, <2>2
    <3>1. n * (a + 1) <= n * f /\ n * (a + 1) = n * a + n /\ n * a \in Nat
      BY <1>1, <2>2, ProductMonotone
    <3> QED BY <1>1, <2>5, <2>7, <3>1
  <2> QED BY <1>1, <2>2, <2>6, <2>8
<1>9. t \in Nat /\ t <= (k * (a - f)) \div (n - lp)
  <2>1. a - f \in Nat /\ n - lp \in Nat \ {0} /\ k \in Nat
    BY <1>1, <1>2, <1>8
  <2> QED BY <2>1, FloorOfFloor
<1>10. (k * (a - f)) \div (n - lp) + f <= (l * a) \div n
  <2>1. lp <= l /\ l \in lp .. n
    BY <1>1, FarmNumbers DEF l
  <2> QED BY <1>1, <1>2, <1>8, <2>1, RedeemingGainsNothing
<1>11. (k * (a - f)) \div (n - lp) \in Nat
  <2>1. a - f \in Nat /\ n - lp \in Nat \ {0} /\ k \in Nat
    BY <1>1, <1>2, <1>8
  <2>2. k * (a - f) \in Nat
    BY <2>1
  <2> QED BY <2>1, <2>2, DivBounds
<1> HIDE DEF t
<1> QED BY <1>1, <1>3, <1>4, <1>5, <1>8, <1>9, <1>10, <1>11

(* The search for the amount to buy for finds one, if there is one.        *)
LEMMA OfferWhenShortFound ==
  ASSUME NEW c, NEW s, s.uusd \in Nat, ~StaysShort(c, s, s.uusd)
  PROVE  OfferWhenShort(c, s) \in 0 .. s.uusd /\ ~StaysShort(c, s, OfferWhenShort(c, s))
<1> DEFINE S == {offer \in Nat : ~StaysShort(c, s, offer)}
           offer == OfferWhenShort(c, s)
<1>1. offer = Leftmost(S, 0, s.uusd + 1)
  BY DEF OfferWhenShort
<1>2. s.uusd \in S /\ \A x \in S : ~StaysShort(c, s, x)
  OBVIOUS
<1>3. s.uusd + 1 \in Nat /\ 0 \in Nat /\ 0 <= s.uusd + 1 /\ (s.uusd + 1) - 1 = s.uusd /\ s.uusd + 1 > 0
  OBVIOUS
<1> HIDE DEF S, offer
<1>4. /\ offer \in 0 .. s.uusd + 1
      /\ offer < s.uusd + 1 => offer \in S
      /\ offer > 0 => offer - 1 \notin S
  BY <1>1, <1>3, LeftmostBoundary
<1>5. offer # s.uusd + 1
  BY <1>2, <1>3, <1>4
<1>6. offer \in 0 .. s.uusd /\ offer \in S
  BY <1>4, <1>5
<1> QED BY <1>2, <1>6 DEF offer

(* A net short position that has the means trades to neutral.              *)
LEMMA NeutralFromShortSucceeds ==
  ASSUME NEW c, Sound(c), Fits(c), Long(c) < Short(c), ~OutOfMeans(c), ~WithdrawsDust(c)
  PROVE  NeutralFromShort(c) # {}
<1> DEFINE lp == WithdrawalWhenShort(c)
           s  == AfterWithdrawal(c, lp)
           offer == OfferWhenShort(c, s)
<1>1. lp \in 0 .. LpTokens(c) /\ lp \in Nat
  BY WithdrawalFound, FarmNumbers, SoundNumbers DEF OutOfMeans
<1>2. lp > 0 => ~WithdrawsNothing(c, lp)
  <2>1. Long(c) # Short(c) /\ ~(Long(c) > Short(c))
    BY FarmNumbers
  <2> QED BY <2>1 DEF WithdrawsDust
<1>3. PICK e : /\ Sound(e) /\ Agrees(e, s)
               /\ IF lp = 0 THEN e = c
                  ELSE e \in unstake_lp_from_spectrum_and_withdraw_liquidity(c, lp)
  <2>1. CASE lp = 0
    <3>1. Agrees(c, AfterWithdrawal(c, 0))
      BY NothingRedeemed
    <3> QED BY <2>1, <3>1
  <2>2. CASE lp # 0
    <3>1. PICK e : e \in unstake_lp_from_spectrum_and_withdraw_liquidity(c, lp)
      BY <1>1, <1>2, <2>2, RedeemSucceeds
    <3>2. lp > 0
      BY <1>1, <2>2
    <3>3. Sound(e) /\ Agrees(e, s)
      BY <1>1, <3>1, <3>2, RedeemedAsSimulated, UnstakeKeeps DEF Keeps
    <3> QED BY <2>2, <3>1, <3>3
  <2> QED BY <2>1, <2>2
<1>4. s.uusd \in Nat /\ s.asset \in Nat /\ s.poolAsset \in Nat
  BY <1>1, WithdrawnNumbers
<1>5. ~StaysShort(c, s, s.uusd)
  <2>1. lp <= LpTokens(c)
    BY <1>1, FarmNumbers
  <2> QED BY <2>1, WithdrawalFound DEF BuyingForAllSuffices
<1>6. Times(s.poolAsset, s.lpRatio) + s.asset < Short(c)
  BY <1>1, StaysShortWithdrawing
<1> HIDE DEF s
<1>7. offer \in 0 .. s.uusd /\ ~StaysShort(c, s, offer)
  BY <1>4, <1>5, OfferWhenShortFound
<1> HIDE DEF offer
<1>8. simulate_terraswap_swap(e.terraswap.uusd, e.terraswap.asset, offer).return # 0
  <2> DEFINE r == SwapReturn(s.poolUusd, s.poolAsset, offer)
  <2> SUFFICES ASSUME r = 0
               PROVE  FALSE
    BY <1>3, SimulateIs DEF Agrees
  <2>1. LongAfterPurchase(s, offer) = Times(s.poolAsset - r, s.lpRatio) + r + s.asset
    BY SimulateIs DEF LongAfterPurchase
  <2>2. s.poolAsset - r = s.poolAsset
    BY <1>4
  <2>3. Times(s.poolAsset, s.lpRatio) \in Nat
    <3>1. e.terraswap.supply \in Nat /\ e.terraswap.supply > 0 /\ LpTokens(e) \in Nat
      BY <1>3, FarmNumbers, SoundNumbers DEF Sound
    <3>2. s.lpRatio \in Nat
      BY <1>3, <3>1, DecimalNat DEF Agrees
    <3> QED BY <1>4, <3>2, TimesNat
  <2> HIDE DEF r
  <2>4. LongAfterPurchase(s, offer) = Times(s.poolAsset, s.lpRatio) + s.asset
    BY <1>4, <2>1, <2>2, <2>3
  <2> QED BY <1>6, <1>7, <2>4 DEF StaysShort
<1>9. ~(offer > e.position.uusd)
  BY <1>3, <1>4, <1>7 DEF Agrees
<1>10. BuyAsset(e, offer) # {}
  BY <1>8, <1>9 DEF BuyAsset
<1>11. ~(lp > LpTokens(c))
  BY <1>1, FarmNumbers
<1> QED BY <1>3, <1>10, <1>11 DEF NeutralFromShort, Then, offer, s

(* Trading succeeds, and redeeming all LP tokens then gives what is owed.  *)
TradesWell(c) ==
  /\ ~SoldElsewhere(c) /\ ~WithdrawsDust(c) /\ ~TurnsShort(c)
  /\ ~NothingToSpare(c) /\ ~OutOfMeans(c) /\ StaysDear(c)

LEMMA TradingSucceeds ==
  ASSUME NEW c, Sound(c), Fits(c), TradesWell(c)
  PROVE  /\ achieve_delta_neutral_from_state(c) # {}
         /\ \A d \in achieve_delta_neutral_from_state(c) :
              /\ Sound(d) /\ Fits(d) /\ Dear(d)
              /\ Short(d) = Short(c) /\ Redeemable(d) >= Short(d)
<1>1. Long(c) \in Nat /\ Short(c) \in Nat
  BY FarmNumbers
<1>2. ASSUME NEW d \in achieve_delta_neutral_from_state(c)
      PROVE  Sound(d) /\ Fits(d) /\ Dear(d)
  <2>1. Keeps(c, d)
    BY AchieveKeeps
  <2> QED BY <2>1, KeepsFits DEF Keeps, TradesWell, StaysDear
<1>3. CASE Long(c) > Short(c)
  <2>1. achieve_delta_neutral_from_state(c) = NeutralFromLong(c)
    BY <1>1, <1>3 DEF achieve_delta_neutral_from_state
  <2>2. NeutralFromLong(c) # {}
    BY <1>3, NeutralFromLongSucceeds DEF TradesWell, StaysDear
  <2>3. ASSUME NEW d \in NeutralFromLong(c)
        PROVE  Short(d) = Short(c) /\ Redeemable(d) >= Short(d)
    <3>1. Short(d) = Short(c) /\ Redeemable(d) = Short(d)
      BY <1>3, SlightlyLongFromLong DEF TradesWell, TurnsShort
    <3> QED BY <1>1, <3>1
  <2> QED BY <1>2, <2>1, <2>2, <2>3
<1>4. CASE Long(c) < Short(c)
  <2>1. achieve_delta_neutral_from_state(c) = NeutralFromShort(c)
    BY <1>1, <1>4 DEF achieve_delta_neutral_from_state
  <2> QED BY <1>2, <1>4, <2>1, NeutralFromShortSucceeds, NotShortFromShort DEF TradesWell
<1>5. CASE Long(c) = Short(c)
  <2>1. achieve_delta_neutral_from_state(c) = {c}
    BY <1>1, <1>5 DEF achieve_delta_neutral_from_state
  <2>2. ~(AssetFor(c, LpTokens(c)) < LongFarm(c))
    BY <1>5 DEF TradesWell, NothingToSpare
  <2>3. Redeemable(c) >= Short(c)
    <3>1. AssetFor(c, LpTokens(c)) \in Nat
      <4>1. /\ c.terraswap.asset \in Nat /\ LpTokens(c) \in Nat
            /\ c.terraswap.supply \in Nat /\ c.terraswap.supply > 0
        BY FarmNumbers, SoundNumbers DEF Sound
      <4>2. Decimal(LpTokens(c), c.terraswap.supply) \in Nat
        BY <4>1, DecimalNat
      <4> QED BY <4>1, <4>2, TimesNat DEF AssetFor
    <3> QED BY <1>5, <2>2, <3>1, FarmNumbers, SoundNumbers DEF Redeemable, Long
  <2> QED BY <1>2, <2>1, <2>3
<1> QED BY <1>1, <1>3, <1>4, <1>5

-----------------------------------------------------------------------------
(* Closing: redeeming what the CDP owes, and burning it.                   *)

(* What is redeemed is an amount, and nothing for nothing.                 *)
LEMMA AssetForNat ==
  ASSUME NEW c, Sound(c), NEW lp \in Nat
  PROVE  AssetFor(c, lp) \in Nat /\ AssetFor(c, 0) = 0
<1>1. Decimal(lp, c.terraswap.supply) \in Nat
  BY DecimalNat, SoundNumbers DEF Sound
<1>2. AssetFor(c, lp) \in Nat
  BY <1>1, TimesNat, SoundNumbers DEF AssetFor
<1>3. AssetFor(c, 0) = 0
  <2>1. Decimal(0, c.terraswap.supply) = 0
    <3>1. 0 * DECIMAL_FRACTIONAL = 0 /\ 0 \div c.terraswap.supply = 0
      BY SoundNumbers, DecimalAssumption DEF Sound
    <3> QED BY <3>1 DEF Decimal
  <2>2. Times(c.terraswap.asset, 0) = 0
    <3>1. c.terraswap.asset * 0 = 0 /\ 0 \div DECIMAL_FRACTIONAL = 0
      BY SoundNumbers, DecimalAssumption
    <3> QED BY <3>1 DEF Times
  <2> QED BY <2>1, <2>2 DEF AssetFor
<1> QED BY <1>2, <1>3

(* Farmed LP tokens are counted as at least what they give when redeemed.  *)
LEMMA LongFarmCovers ==
  ASSUME NEW c, Sound(c)
  PROVE  AssetFor(c, LpTokens(c)) <= LongFarm(c)
<1>1. /\ c.terraswap.asset \in Nat /\ LpTokens(c) \in Nat
      /\ c.terraswap.supply \in Nat \ {0}
  BY FarmNumbers, SoundNumbers DEF Sound
<1> QED BY <1>1, FloorOfFloor DEF AssetFor, LongFarm, MultiplyRatio

(* What can be redeemed is redeemed, be there ever so many roundings.      *)
LEMMA IncreaseSucceeds ==
  ASSUME NEW c, Sound(c), Dear(c), NEW target \in Nat, target <= Redeemable(c)
  PROVE  /\ increase_mirror_asset_balance_from_long_farm(c, target) # {}
         /\ \A e \in increase_mirror_asset_balance_from_long_farm(c, target) :
              Sound(e) /\ target <= e.position.asset /\ Short(e) = Short(c)
<1> DEFINE own == c.position.asset
           l == LpTokens(c)
           wanted == target - own
           W == WithdrawalsFor(c, wanted)
<1>1. own \in Nat /\ l \in Nat /\ LongFarm(c) \in Nat /\ Short(c) \in Nat /\ AssetFor(c, l) \in Nat
  BY FarmNumbers, SoundNumbers, AssetForNat
<1>2. CASE target <= own
  <2>1. increase_mirror_asset_balance_from_long_farm(c, target) = {c}
    BY <1>2 DEF increase_mirror_asset_balance_from_long_farm
  <2> QED BY <1>2, <2>1
<1>3. CASE ~(target <= own)
  <2>1. wanted \in Nat \ {0} /\ wanted <= AssetFor(c, l)
    BY <1>1, <1>3 DEF Redeemable
  <2>2. wanted <= LongFarm(c) /\ LongFarm(c) # 0
    BY <1>1, <2>1, LongFarmCovers
  <2> HIDE DEF wanted
  <2>3. WithdrawalEstimate(c, wanted) \in 0 .. l
    <3>1. l * wanted \in Nat /\ l * wanted <= l * LongFarm(c) /\ l * LongFarm(c) = LongFarm(c) * l
      BY <1>1, <2>1, <2>2, ProductMonotone
    <3>2. (l * wanted) \div LongFarm(c) \in Nat /\ (l * wanted) \div LongFarm(c) <= l
      BY <1>1, <2>2, <3>1, DivBounds, DivAtMost
    <3> QED BY <1>1, <3>2 DEF WithdrawalEstimate, MultiplyRatio
  <2>4. l \in W /\ W \in SUBSET Nat
    BY <1>1, <2>1, <2>3 DEF WithdrawalsFor
  <2> DEFINE lp == Min(W)
  <2>5. lp \in W
    BY <2>4, MinIn
  <2>6. lp \in 0 .. l /\ lp \in Nat /\ AssetFor(c, lp) >= wanted
    BY <1>1, <2>3, <2>5 DEF WithdrawalsFor
  <2>7. W # {}
    BY <2>4
  <2> HIDE DEF W
  <2>8. increase_mirror_asset_balance_from_long_farm(c, target)
          = unstake_lp_from_spectrum_and_withdraw_liquidity(c, lp)
    BY <1>3, <2>2, <2>7 DEF increase_mirror_asset_balance_from_long_farm, wanted, W
  <2> HIDE DEF lp
  <2>9. AssetFor(c, lp) \in Nat /\ AssetFor(c, lp) > 0 /\ lp > 0
    <3>1. AssetFor(c, lp) \in Nat /\ AssetFor(c, 0) = 0
      BY <2>6, AssetForNat
    <3> QED BY <2>1, <2>6, <3>1
  <2>10. unstake_lp_from_spectrum_and_withdraw_liquidity(c, lp) # {}
    BY <2>6, <2>9, RedeemsBoth, RedeemSucceeds
  <2>11. ASSUME NEW e \in unstake_lp_from_spectrum_and_withdraw_liquidity(c, lp)
         PROVE  Sound(e) /\ target <= e.position.asset /\ Short(e) = Short(c)
    <3>1. Sound(e) /\ Short(e) = Short(c) /\ Agrees(e, AfterWithdrawal(c, lp))
      BY <2>6, <2>9, UnstakeKeeps, RedeemedAsSimulated DEF Keeps
    <3>2. e.position.asset = own + AssetFor(c, lp)
      BY <3>1 DEF Agrees, AfterWithdrawal
    <3>3. target <= e.position.asset
      BY <1>1, <2>6, <2>9, <3>2 DEF wanted
    <3> QED BY <3>1, <3>3
  <2> QED BY <2>8, <2>10, <2>11
<1> QED BY <1>2, <1>3

(* So closing burns all of the debt.                                       *)
LEMMA ClosingSucceeds ==
  ASSUME NEW d, Sound(d), Dear(d), Redeemable(d) >= Short(d)
  PROVE  close_cdp_and_collect_fees(d) # {}
<1> DEFINE Pay(e) == Burn(e, Short(e))
           Redeem(e) == {[e EXCEPT !.position.uusd = @ + e.position.collateral,
                                   !.position.collateral = 0]}
           I == increase_mirror_asset_balance_from_long_farm(d, Short(d))
<1>1. CASE Short(d) = 0
  BY <1>1 DEF close_cdp_and_collect_fees
<1>2. CASE Short(d) # 0
  <2>1. Short(d) \in Nat /\ Short(d) > 0 /\ Redeemable(d) \in Int
    <3>1. LpTokens(d) \in Nat
      BY FarmNumbers, SoundNumbers
    <3> QED BY <1>2, <3>1, FarmNumbers, SoundNumbers, AssetForNat DEF Redeemable
  <2>2. I # {} /\ \A e \in I : Sound(e) /\ Short(d) <= e.position.asset /\ Short(e) = Short(d)
    BY <2>1, IncreaseSucceeds
  <2> HIDE DEF I
  <2>3. PICK e \in I : Sound(e) /\ Short(d) <= e.position.asset /\ Short(e) = Short(d)
    BY <2>2
  <2>4. ~(Short(e) <= 0) /\ ~(Short(e) > e.position.asset) /\ ~(Short(e) > Short(e))
    BY <2>1, <2>3, SoundNumbers
  <2>5. Pay(e) # {}
    BY <2>4 DEF Burn
  <2>6. Then(I, Pay) # {}
    BY <2>3, <2>5 DEF Then
  <2>7. PICK paid \in Then(I, Pay) : TRUE
    BY <2>6
  <2>8. Redeem(paid) # {}
    OBVIOUS
  <2> HIDE DEF Pay, Redeem
  <2>9. Then(Then(I, Pay), Redeem) # {}
    BY <2>7, <2>8 DEF Then
  <2> QED BY <1>2, <2>9 DEF close_cdp_and_collect_fees, I, Pay, Redeem
<1> QED BY <1>1, <1>2

-----------------------------------------------------------------------------
(* The range of the collateral ratio.                                      *)

(* A ratio below the range, of which the midpoint is a rounding away.      *)
LEMMA BelowMinimum ==
  ASSUME NEW D \in Nat \ {0}, NEW col \in Nat, NEW owed \in Nat \ {0}, NEW worth \in Nat,
         NEW min \in Nat, NEW p \in Nat, NEW q \in Nat, NEW r \in Nat,
         col * D < worth * min, D * worth <= owed * p, min * p < D * q, q * r <= D * D
  PROVE  col * r < D * owed
<1>1. CASE r = 0
  <2>1. col * r = 0 /\ D * owed > 0
    BY <1>1
  <2> QED BY <2>1
<1>2. CASE r # 0
  <2>1. col * D < owed * q
    <3>1. D * (col * D) < D * (worth * min)
      OBVIOUS
    <3>2. D * (worth * min) = min * (D * worth)
      OBVIOUS
    <3>3. min * (D * worth) <= min * (owed * p)
      BY ProductMonotone
    <3>4. min * (owed * p) = owed * (min * p)
      OBVIOUS
    <3>5. owed * (min * p) <= owed * (D * q)
      BY ProductMonotone
    <3>6. owed * (D * q) = D * (owed * q)
      OBVIOUS
    <3>7. D * (col * D) < D * (owed * q)
      BY <3>1, <3>2, <3>3, <3>4, <3>5, <3>6
    <3>8. col * D \in Int /\ owed * q \in Int
      OBVIOUS
    <3> QED BY <3>7, <3>8, Cancel
  <2>2. D * (col * r) < D * (owed * D)
    <3>1. D * (col * r) = r * (col * D)
      OBVIOUS
    <3>2. r * (col * D) < r * (owed * q)
      BY <1>2, <2>1
    <3>3. r * (owed * q) = owed * (q * r)
      OBVIOUS
    <3>4. owed * (q * r) <= owed * (D * D)
      BY ProductMonotone
    <3>5. owed * (D * D) = D * (owed * D)
      OBVIOUS
    <3> QED BY <3>1, <3>2, <3>3, <3>4, <3>5
  <2>3. col * r \in Int /\ owed * D \in Int /\ owed * D = D * owed
    OBVIOUS
  <2> QED BY <2>2, <2>3, Cancel
<1> QED BY <1>1, <1>2

(* What the CDP owes is worth something to the oracle.                     *)
LEMMA OwedWorth ==
  ASSUME NEW c, Sound(c), price \in Prices, price >= DECIMAL_FRACTIONAL, Short(c) > 0
  PROVE  /\ Times(Short(c), price) \in Nat \ {0}
         /\ DECIMAL_FRACTIONAL * Times(Short(c), price) <= Short(c) * price
<1> DEFINE D == DECIMAL_FRACTIONAL
           s == Short(c)
<1>1. s \in Nat /\ price \in Nat /\ D \in Nat \ {0} /\ price >= D
  BY FarmNumbers, PricesAssumption, DecimalAssumption
<1>2. s > 0
  OBVIOUS
<1> HIDE DEF s, D
<1>3. s * price \in Nat /\ s * D <= s * price /\ s * D = D * s
  BY <1>1, ProductMonotone
<1>4. (s * price) \div D \in Nat /\ D * ((s * price) \div D) <= s * price
  BY <1>1, <1>3, DivBounds
<1>5. s <= (s * price) \div D
  BY <1>1, <1>3, DivAtLeast
<1> QED BY <1>1, <1>2, <1>4, <1>5 DEF Times, s, D

(* The amount to burn is positive, and no more than what is owed.          *)
LEMMA BurnToTargetSucceeds ==
  ASSUME NEW c, Sound(c), Dear(c), Redeemable(c) >= Short(c),
         price \in Prices, price >= DECIMAL_FRACTIONAL, Short(c) > 0,
         Decimal(c.position.collateral, Times(Short(c), price)) < CollateralRatioRange.min
  PROVE  BurnToTarget(c) # {}
<1> DEFINE D == DECIMAL_FRACTIONAL
           r == reverse_decimal(decimal_multiplication(midpoint, price))
           target == Times(c.position.collateral, r)
           burn == Short(c) - target
           I == increase_mirror_asset_balance_from_long_farm(c, burn)
           Pay(d) == Burn(d, burn)
           worth == Times(Short(c), price)
           min == CollateralRatioRange.min
           q == Times(min, price) + 1
<1>1. r \in Nat
  <2>1. decimal_multiplication(midpoint, price) \in Nat
    BY MidpointNat, PricesAssumption, MultiplicationNat
  <2> QED BY <2>1, PricesAssumption, ReverseNat
<1>2. q * r <= D * D
  BY PricesAssumption
<1> HIDE DEF r
<1>3. /\ D \in Nat \ {0} /\ min \in Nat /\ price \in Nat /\ Short(c) \in Nat \ {0}
      /\ c.position.collateral \in Nat
  BY DecimalAssumption, RatioAssumption, PricesAssumption, FarmNumbers, SoundNumbers
<1>4. worth \in Nat \ {0} /\ D * worth <= Short(c) * price
  BY OwedWorth
<1>5. (c.position.collateral * D) \div worth < min
  BY DEF Decimal
<1>6. q \in Nat /\ min * price < D * q
  <2>1. min * price \in Nat
    BY <1>3
  <2>2. (min * price) \div D \in Nat /\ min * price < D * ((min * price) \div D) + D
    BY <1>3, <2>1, DivBounds
  <2> HIDE DEF D, min
  <2>3. D * ((min * price) \div D) + D = D * ((min * price) \div D + 1)
    BY <1>3, <2>2
  <2> QED BY <2>2, <2>3 DEF Times, D
<1> HIDE DEF q, worth, D, min
<1>7. c.position.collateral * D < worth * min
  <2>1. c.position.collateral * D \in Nat
    BY <1>3
  <2> DEFINE y == (c.position.collateral * D) \div worth
  <2>2. y \in Nat /\ c.position.collateral * D < worth * y + worth
    BY <1>4, <2>1, DivBounds
  <2>3. y < min
    BY <1>5
  <2> HIDE DEF y
  <2>4. y + 1 <= min
    BY <1>3, <2>2, <2>3
  <2>5. worth * (y + 1) <= worth * min /\ worth * (y + 1) = worth * y + worth
    BY <1>3, <1>4, <2>2, <2>4, ProductMonotone
  <2> QED BY <1>3, <1>4, <2>1, <2>2, <2>5
<1>8. c.position.collateral * r < D * Short(c)
  BY <1>1, <1>2, <1>3, <1>4, <1>6, <1>7, BelowMinimum
<1>9. target \in Nat /\ target < Short(c)
  <2>1. c.position.collateral * r \in Nat
    BY <1>1, <1>3
  <2>2. target = (c.position.collateral * r) \div D
    BY DEF Times, D
  <2> QED BY <1>3, <1>8, <2>1, <2>2, DivBelow, DivBounds
<1> HIDE DEF target
<1>10. burn \in Nat \ {0} /\ burn <= Short(c)
  BY <1>3, <1>9
<1>11. burn <= Redeemable(c)
  <2>1. Redeemable(c) \in Nat
    BY FarmNumbers, SoundNumbers, AssetForNat DEF Redeemable
  <2> QED BY <1>3, <1>10, <2>1
<1> HIDE DEF burn
<1>12. /\ I # {}
       /\ \A e \in I : Sound(e) /\ burn <= e.position.asset /\ Short(e) = Short(c)
  BY <1>10, <1>11, IncreaseSucceeds
<1> HIDE DEF I
<1>13. PICK e \in I : Sound(e) /\ burn <= e.position.asset /\ Short(e) = Short(c)
  BY <1>12
<1>14. ~(burn <= 0) /\ ~(burn > e.position.asset) /\ ~(burn > Short(e))
  BY <1>3, <1>10, <1>13, SoundNumbers
<1>15. Pay(e) # {}
  BY <1>14 DEF Burn
<1>16. BurnToTarget(c) = Then(I, Pay)
  BY DEF BurnToTarget, I, burn, target, r
<1> HIDE DEF Pay
<1> QED BY <1>13, <1>15, <1>16 DEF Then

(* The midpoint as the contract rounds it is not above the maximum.        *)
LEMMA MidpointWithin ==
  LET k == decimal_division(midpoint, DECIMAL_FRACTIONAL)
  IN k \in Nat /\ k <= CollateralRatioRange.max
<1> DEFINE D == DECIMAL_FRACTIONAL
           F == MIRROR_FRACTIONAL
           m == midpoint
           x == (F * m) \div D
           k == decimal_division(m, D)
<1>1. D \in Nat \ {0} /\ F \in Nat \ {0} /\ k \in Nat /\ m \in Nat
  BY DecimalAssumption, MidpointNat
<1>2. m <= CollateralRatioRange.max
  BY RatioAssumption DEF midpoint
<1>3. Times(F, D) = F
  <2>1. (F * D) \div D = F
    BY <1>1
  <2> QED BY <2>1 DEF Times
<1> HIDE DEF m
<1>4. k = (x * D) \div F
  BY <1>3 DEF decimal_division, Decimal, Times
<1> HIDE DEF D, F, k
<1>5. F * m \in Nat
  BY <1>1
<1>6. x \in Nat /\ D * x <= F * m
  BY <1>1, <1>5, DivBounds
<1> HIDE DEF x
<1>7. x * D \in Nat /\ x * D <= F * m
  BY <1>1, <1>6
<1>8. k <= m
  BY <1>1, <1>4, <1>7, DivAtMost
<1>9. k <= CollateralRatioRange.max
  BY <1>1, <1>2, <1>8, RatioAssumption
<1> QED BY <1>1, <1>9 DEF k, m, D

(* There is collateral to withdraw above the maximum.                      *)
LEMMA WithdrawToTargetSucceeds ==
  ASSUME NEW c, Sound(c),
         price \in Prices, price >= DECIMAL_FRACTIONAL, Short(c) > 0,
         Decimal(c.position.collateral, Times(Short(c), price)) > CollateralRatioRange.max
  PROVE  WithdrawToTarget(c) # {}
<1> DEFINE D == DECIMAL_FRACTIONAL
           k == decimal_division(midpoint, D)
           worth == Times(Short(c), price)
           col == c.position.collateral
           y == (col * D) \div worth
           max == CollateralRatioRange.max
<1>1. D \in Nat \ {0} /\ col \in Nat /\ k \in Nat /\ k <= max /\ max \in Nat
  BY DecimalAssumption, SoundNumbers, MidpointWithin, RatioAssumption
<1>2. worth \in Nat \ {0}
  BY OwedWorth
<1>3. y > max
  BY DEF Decimal
<1> HIDE DEF D, k, worth, col, max
<1>4. col * D \in Nat
  BY <1>1
<1>5. y \in Nat /\ worth * y <= col * D
  BY <1>2, <1>4, DivBounds
<1> HIDE DEF y
<1>6. k + 1 <= y
  BY <1>1, <1>3, <1>5
<1>7. worth * (k + 1) <= worth * y /\ worth * (k + 1) = worth * k + worth
  BY <1>1, <1>2, <1>5, <1>6, ProductMonotone
<1>8. worth * k \in Nat /\ worth * k < D * col
  BY <1>1, <1>2, <1>5, <1>7
<1>9. (worth * k) \div D \in Nat /\ (worth * k) \div D < col
  BY <1>1, <1>8, DivBelow, DivBounds
<1>10. ~(col - Times(worth, k) <= 0)
  BY <1>1, <1>9 DEF Times, D
<1> QED BY <1>10 DEF WithdrawToTarget, col, worth, k, D

(* So bringing the collateral back into the range succeeds.                *)
LEMMA SafeRatiosSucceed ==
  ASSUME NEW c, Sound(c), Dear(c), Redeemable(c) >= Short(c),
         price \in Prices, price >= DECIMAL_FRACTIONAL, Short(c) > 0
  PROVE  achieve_safe_collateral_ratios(c) # {}
<1>1. Times(Short(c), price) # 0
  BY OwedWorth
<1>2. Decimal(c.position.collateral, Times(Short(c), price)) < CollateralRatioRange.min
        => BurnToTarget(c) # {}
  BY BurnToTargetSucceeds
<1>3. Decimal(c.position.collateral, Times(Short(c), price)) > CollateralRatioRange.max
        => WithdrawToTarget(c) # {}
  BY WithdrawToTargetSucceeds
<1> QED BY <1>1, <1>2, <1>3 DEF achieve_safe_collateral_ratios

-----------------------------------------------------------------------------
(* Reinvesting, and the transactions.                                      *)

(* Providing liquidity does not fail: it is left out if it would.          *)
LEMMA PairSucceeds ==
  ASSUME NEW c
  PROVE  pair_uusd_with_mirror_asset_to_provide_liquidity_and_stake(c) # {}
BY DEF pair_uusd_with_mirror_asset_to_provide_liquidity_and_stake, Bond

(* Without collateral nothing is minted.                                   *)
LEMMA NothingMinted ==
  ASSUME price \in Prices
  PROVE  MintAmount(0) = 0
<1>1. ASSUME NEW y \in Nat PROVE Times(0, y) = 0
  <2>1. 0 * y = 0 /\ 0 \div DECIMAL_FRACTIONAL = 0
    BY DecimalAssumption
  <2> QED BY <2>1 DEF Times
<1>2. decimal_division(DECIMAL_FRACTIONAL, price) \in Nat
  BY DecimalAssumption, PricesAssumption, DivisionNat
<1>3. Times(0, decimal_division(DECIMAL_FRACTIONAL, price)) = 0
  BY <1>1, <1>2
<1> QED BY <1>1, <1>3, MidpointNat DEF MintAmount

(* Minting for the collateral that was found, and buying back what is sold.*)
LEMMA InvestSucceeds ==
  ASSUME NEW g, Sound(g), MintFits(g), Dear(g), price \in Prices,
         NEW found, found = CollateralSearch(g, g.position.uusd),
         ~found.overflow, MintAmount(found.collateral) # 0
  PROVE  delta_neutral_invest(g, g.position.uusd) # {}
<1> DEFINE budget == g.position.uusd
           col == found.collateral
           mint == MintAmount(col)
           offer == LongSwap(g, mint)
           t == g.terraswap
           r == SwapReturn(t.asset, t.uusd, mint)
           sim == simulate_terraswap_swap(t.asset, t.uusd, mint)
           e == [g EXCEPT !.terraswap.asset = sim.offerPool, !.terraswap.uusd = sim.askPool,
                          !.position.uusd = @ - col,
                          !.position.collateral = @ + col,
                          !.position.short = @ + mint,
                          !.position.locked = @ + sim.return]
           Buy(d) == BuyAsset(d, offer)
<1>1. budget \in Nat /\ t.asset \in Nat \ {0} /\ t.uusd \in Nat \ {0}
  BY SoundNumbers
<1>2. col \in 0 .. budget /\ (col > 0 => Feasible(g, budget, col))
  BY <1>1, CollateralBoundary
<1>3. mint \in Nat \ {0}
  <2>1. col \in Nat
    BY <1>1, <1>2
  <2> QED BY <2>1, MintAtNat, MintAmountIs
<1>4. col > 0
  <2>1. col # 0
    BY NothingMinted
  <2> QED BY <1>1, <1>2, <2>1
<1>5. offer \in Nat /\ col + offer <= budget
  <2>1. offer \in Nat
    BY LongSwapNat
  <2>2. Feasible(g, budget, col)
    BY <1>2, <1>4
  <2> QED BY <2>1, <2>2 DEF Feasible
<1>6. r >= 1
  BY <1>1, <1>3, SwapReturnsSome DEF Dear
<1>7. sim.offerPool = t.asset + mint /\ sim.askPool = t.uusd - r /\ sim.return = r
  BY SimulateIs
<1>8. sim.return # 0 /\ mint # 0
  BY <1>3, <1>6, <1>7
<1>9. MintAndSellShort(g, col, mint) = {e}
  BY <1>8 DEF MintAndSellShort, AfterShortSale
<1>10. Sound(e)
  BY <1>2, <1>9, MintAndSellSound
<1>11. /\ e.terraswap.asset = sim.offerPool /\ e.terraswap.uusd = sim.askPool
       /\ e.position.uusd = budget - col
  <2> HIDE DEF sim, mint, col
  <2> QED BY DEF Sound, Chains, TerraswapPools, Positions
<1>12. offer = compute_terraswap_offer_amount(e.terraswap.asset, e.terraswap.uusd, mint)
  BY <1>11 DEF LongSwap, AfterShortSale
<1> HIDE DEF e, sim, r, mint, col
<1>13. SwapReturn(e.terraswap.uusd, e.terraswap.asset, offer) >= mint
  <2>1. e.terraswap.asset \in Nat /\ e.terraswap.uusd \in Nat \ {0}
    BY <1>10, SoundNumbers
  <2>2. budget <= DECIMAL_FRACTIONAL
    <3>1. budget <= Uusd(g) /\ Uusd(g) \in Nat
      BY SoundNumbers DEF Uusd
    <3> QED BY <1>1, <3>1, DecimalAssumption DEF MintFits
  <2>3. offer \in 0 .. Uint128Max - 1
    BY <1>1, <1>2, <1>4, <1>5, <2>2, BoundsAssumption, DecimalAssumption
  <2> DEFINE a == e.terraswap.asset
             o == e.terraswap.uusd
             least == compute_terraswap_offer_amount(a, o, mint)
  <2>4. offer = least
    BY <1>12
  <2>5. a \in Nat /\ o \in Nat \ {0} /\ mint \in Nat
    BY <1>3, <2>1
  <2> HIDE DEF offer, a, o
  <2>6. \A x \in 0 .. Uint128Max - 1 : SwapReturn(o, a, x) >= mint <=> least <= x
    BY <2>5, OfferLeast
  <2> HIDE DEF least
  <2>7. least <= offer
    BY <1>5, <2>4
  <2> QED BY <2>3, <2>6, <2>7 DEF a, o
<1>14. simulate_terraswap_swap(e.terraswap.uusd, e.terraswap.asset, offer).return # 0
  <2>1. SwapReturn(e.terraswap.uusd, e.terraswap.asset, offer) # 0
    <3> HIDE DEF offer
    <3>1. e.terraswap.asset \in Nat /\ e.terraswap.uusd \in Nat \ {0} /\ offer \in Nat
      BY <1>5, <1>10, SoundNumbers
    <3>2. SwapReturn(e.terraswap.uusd, e.terraswap.asset, offer) \in 0 .. e.terraswap.asset
      BY <3>1, SwapReturnBounds
    <3> QED BY <1>3, <1>13, <3>1, <3>2
  <2> QED BY <2>1, SimulateIs
<1>15. ~(offer > e.position.uusd)
  BY <1>1, <1>2, <1>5, <1>11
<1>16. Buy(e) # {}
  <2> HIDE DEF offer
  <2> QED BY <1>14, <1>15 DEF BuyAsset
<1>17. delta_neutral_invest(g, budget) = Then({e}, Buy)
  BY <1>9 DEF delta_neutral_invest, offer, mint, col
<1> HIDE DEF Buy
<1> QED BY <1>16, <1>17 DEF Then

(* What a claim leaves as it was.                                          *)
LEMMA ClaimedShort ==
  ASSUME Sound(chain), NEW rewards
  PROVE  Short(claim_and_increase_uusd_balance(chain, rewards)) = Short(chain)
BY DEF claim_and_increase_uusd_balance, Short, Sound, Chains, Positions

(* The holder can close the position.                                      *)
LEMMA CloseSucceeds ==
  ASSUME NEW rewards,
         NEW c, c = claim_and_increase_uusd_balance(chain, rewards),
         Sound(c), Fits(c), TradesWell(c)
  PROVE  CloseOutcomes(chain, rewards) # {}
<1>1. CloseOutcomes(chain, rewards)
        = Then(achieve_delta_neutral_from_state(c), close_cdp_and_collect_fees)
  BY DEF CloseOutcomes, achieve_delta_neutral
<1>2. PICK d \in achieve_delta_neutral_from_state(c) :
        Sound(d) /\ Dear(d) /\ Redeemable(d) >= Short(d)
  BY TradingSucceeds
<1>3. close_cdp_and_collect_fees(d) # {}
  BY <1>2, ClosingSucceeds
<1> QED BY <1>1, <1>2, <1>3 DEF Then

(* The controller can rebalance it.                                        *)
LEMMA RebalanceSucceeds ==
  ASSUME NEW rewards, price \in Prices,
         NEW c, c = claim_and_increase_uusd_balance(chain, rewards),
         Sound(c), MintFits(c), Fits(c), TradesWell(c), Short(c) > 0,
         Locked(chain) \/ ~CannotReinvest(c)
  PROVE  RebalanceOutcomes(chain, rewards) # {}
<1> DEFINE A == achieve_delta_neutral_from_state(c)
           S == Then(A, achieve_safe_collateral_ratios)
           B == Then(S, pair_uusd_with_mirror_asset_to_provide_liquidity_and_stake)
<1>1. RebalanceOutcomes(chain, rewards) = get_reinvest_internal_messages(chain, S)
  BY DEF RebalanceOutcomes, achieve_delta_neutral
<1>2. B = BeforeReinvesting(c)
  BY DEF BeforeReinvesting
<1>3. PICK d \in A : Sound(d) /\ Dear(d) /\ Short(d) = Short(c) /\ Redeemable(d) >= Short(d)
  BY TradingSucceeds
<1>4. Keeps(c, d)
  BY <1>3, AchieveKeeps
<1>5. achieve_safe_collateral_ratios(d) # {}
  BY <1>3, SafeRatiosSucceed DEF TradesWell, StaysDear
<1>6. PICK e \in achieve_safe_collateral_ratios(d) : TRUE
  BY <1>5
<1>7. e \in S
  BY <1>3, <1>6 DEF Then
<1>8. Keeps(c, e)
  <2>1. Keeps(d, e)
    BY <1>3, <1>6, SafeRatiosKeep
  <2> QED BY <1>4, <2>1, KeepsTransitive
<1>9. PICK g \in pair_uusd_with_mirror_asset_to_provide_liquidity_and_stake(e) : TRUE
  BY PairSucceeds
<1>10. Keeps(c, g)
  <2>1. Keeps(e, g)
    BY <1>8, <1>9, PairKeeps DEF Keeps
  <2> QED BY <1>8, <2>1, KeepsTransitive
<1>11. g \in B
  BY <1>7, <1>9 DEF Then
<1>12. Sound(g) /\ MintFits(g) /\ Dear(g)
  BY <1>2, <1>10, <1>11, KeepsMintFits DEF Keeps, TradesWell, StaysDear
<1>13. CASE Locked(chain)
  BY <1>1, <1>7, <1>13 DEF get_reinvest_internal_messages
<1>14. CASE ~Locked(chain)
  <2>1. DeltaNeutralReinvest(g) # {}
    <3>1. CASE g.position.uusd >= min_reinvest_uusd_amount
      <4> DEFINE found == CollateralSearch(g, g.position.uusd)
      <4>1. ~found.overflow /\ MintAmount(found.collateral) # 0
        BY <1>2, <1>11, <1>14, <3>1 DEF CannotReinvest
      <4> QED BY <1>12, <3>1, <4>1, InvestSucceeds DEF DeltaNeutralReinvest
    <3>2. CASE ~(g.position.uusd >= min_reinvest_uusd_amount)
      BY <3>2 DEF DeltaNeutralReinvest
    <3> QED BY <3>1, <3>2
  <2>2. Then(B, DeltaNeutralReinvest) # {}
    BY <1>11, <2>1 DEF Then
  <2>3. get_reinvest_internal_messages(chain, S) = Then(B, DeltaNeutralReinvest)
    BY <1>14 DEF get_reinvest_internal_messages
  <2> QED BY <1>1, <2>2, <2>3
<1> QED BY <1>13, <1>14

(* None of the many messages of a transaction fails, whatever trades and   *)
(* auctions have made of the pools, the farm and the CDP, but in the cases *)
(* that the property names.                                                *)
THEOREM TransactionsAlwaysSucceed == Spec /\ []FitsDecimal => []TransactionsSucceed
<1>1. TypeOK /\ FitsDecimal => TransactionsSucceed
  <2> SUFFICES ASSUME TypeOK, FitsDecimal, NEW rewards \in Rewards,
                      NEW c, c = claim_and_increase_uusd_balance(chain, rewards),
                      TradesWell(c)
               PROVE  /\ CloseOutcomes(chain, rewards) # {}
                      /\ \/ Short(chain) = 0
                         \/ ~Locked(chain) /\ CannotReinvest(c)
                         \/ RebalanceOutcomes(chain, rewards) # {}
    BY DEF TransactionsSucceed, TradesWell
  <2>1. Sound(c) /\ MintFits(c) /\ Fits(c)
    BY ClaimedFits
  <2>2. Sound(chain) /\ price \in Prices
    BY TypeIsSound
  <2>3. CloseOutcomes(chain, rewards) # {}
    BY <2>1, CloseSucceeds
  <2>4. Short(c) = Short(chain) /\ Short(c) \in Nat
    BY <2>1, <2>2, ClaimedShort, FarmNumbers
  <2>5. ASSUME Short(chain) # 0, Locked(chain) \/ ~CannotReinvest(c)
        PROVE  RebalanceOutcomes(chain, rewards) # {}
    <3>1. Short(c) > 0
      BY <2>4, <2>5
    <3> QED BY <2>1, <2>2, <2>5, <3>1, RebalanceSucceeds
  <2> QED BY <2>3, <2>5
<1> QED BY <1>1, TypeCorrect, PTL

=============================================================================
