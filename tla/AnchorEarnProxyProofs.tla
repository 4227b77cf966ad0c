----------------------- MODULE AnchorEarnProxyProofs -----------------------
(***************************************************************************)
(* Proofs about AnchorEarnProxy for every rate, amount and proportion:     *)
(* what the rounding of the contract's arithmetic may and may not do.      *)
(***************************************************************************)
EXTENDS AnchorEarnProxy, SumTheorems

-----------------------------------------------------------------------------
(* Integer division.                                                       *)

(* The quotient of a division that rounds down.                            *)
LEMMA DivBounds ==
  ASSUME NEW x \in Nat, NEW u \in Nat \ {0}
  PROVE  /\ x \div u \in Nat
         /\ u * (x \div u) <= x
         /\ x < u * (x \div u) + u
OBVIOUS

(* A factor can be cancelled in a strict inequality.                       *)
LEMMA Cancel ==
  ASSUME NEW u \in Nat \ {0}, NEW a \in Int, NEW b \in Int, u * a < u * b
  PROVE  a < b
OBVIOUS

(* Rounding two parts separately loses at most one.                        *)
LEMMA DivSum ==
  ASSUME NEW x \in Nat, NEW y \in Nat, NEW u \in Nat \ {0}
  PROVE  /\ (x \div u) + (y \div u) <= (x + y) \div u
         /\ (x + y) \div u <= (x \div u) + (y \div u) + 1
<1> DEFINE a == x \div u  b == y \div u  c == (x + y) \div u
<1>1. a \in Nat /\ u * a <= x /\ x < u * a + u
  BY DivBounds
<1>2. b \in Nat /\ u * b <= y /\ y < u * b + u
  BY DivBounds
<1>3. c \in Nat /\ u * c <= x + y /\ x + y < u * c + u
  BY DivBounds
<1> HIDE DEF a, b, c
<1>4. /\ u * (a + b) = u * a + u * b
      /\ u * (c + 1) = u * c + u
      /\ u * (a + b + 2) = u * a + u * b + 2 * u
  BY <1>1, <1>2, <1>3
<1>5. u * (a + b) < u * (c + 1) /\ u * c < u * (a + b + 2)
  BY <1>1, <1>2, <1>3, <1>4
<1>6. a + b < c + 1 /\ c < a + b + 2
  BY <1>1, <1>2, <1>3, <1>5, Cancel
<1> QED BY <1>1, <1>2, <1>3, <1>6 DEF a, b, c

(* What a deposit of d, converted at rate r and added to s, is worth.      *)
LEMMA DepositWorth ==
  ASSUME NEW s \in Nat, NEW d \in Nat, NEW r \in Nat \ {0}, NEW u \in Nat \ {0}
  PROVE  LET m == (d * u) \div r
             before == (s * r) \div u
             after  == ((s + m) * r) \div u
         IN /\ m \in Nat /\ before \in Nat /\ after \in Nat
            /\ m * r <= d * u
            /\ after <= before + d
            /\ (before + d - after - 1) * u <= r
<1> DEFINE m == (d * u) \div r
           before == (s * r) \div u
           after  == ((s + m) * r) \div u
<1>1. d * u \in Nat /\ s * r \in Nat
  OBVIOUS
<1>2. m \in Nat /\ r * m <= d * u /\ d * u < r * m + r
  BY <1>1, DivBounds
<1>3. before \in Nat /\ u * before <= s * r /\ s * r < u * before + u
  BY <1>1, DivBounds
<1> HIDE DEF m
<1>4. (s + m) * r \in Nat
  BY <1>2
<1>5. after \in Nat /\ u * after <= (s + m) * r /\ (s + m) * r < u * after + u
  BY <1>4, DivBounds
<1>6. (s + m) * r = s * r + r * m
  BY <1>2
<1> HIDE DEF before, after
<1>7. /\ u * (before + d + 1) = u * before + d * u + u
      /\ u * (before + d - after - 1) = u * before + d * u - u * after - u
  BY <1>3, <1>5
<1>8. u * after < u * (before + d + 1)
  BY <1>1, <1>2, <1>3, <1>4, <1>5, <1>6, <1>7
<1>9. after < before + d + 1
  BY <1>3, <1>5, <1>8, Cancel
<1>10. u * (before + d - after - 1) <= r
  BY <1>1, <1>2, <1>3, <1>4, <1>5, <1>6, <1>7
<1>11. m * r = r * m /\ (before + d - after - 1) * u = u * (before + d - after - 1)
  BY <1>2, <1>3, <1>5
<1> QED BY <1>2, <1>3, <1>5, <1>9, <1>10, <1>11 DEF m, before, after

-----------------------------------------------------------------------------
(* Type correctness.                                                       *)

(* The part a decrease redeems is a number.                                *)
LEMMA RedeemType ==
  ASSUME TypeOK, NEW p \in DOMAIN austAmount, NEW r \in Proportions
  PROVE  /\ redeem_anchor_ust_amount(p, r) \in Nat
         /\ r[1] \in Nat /\ r[2] \in Nat \ {0} /\ austAmount[p] \in Nat
<1>1. r[1] \in Nat /\ r[2] \in Nat \ {0} /\ austAmount[p] \in Nat
  BY AmountsAssumption DEF TypeOK
<1>2. austAmount[p] * r[1] \in Nat
  BY <1>1
<1> QED BY <1>1, <1>2, DivBounds DEF redeem_anchor_ust_amount

(* Conversions give numbers.                                               *)
LEMMA ConversionType ==
  ASSUME TypeOK, NEW n \in Nat
  PROVE  /\ rate \in Nat \ {0}
         /\ ToAust(n) \in Nat /\ ToUusd(n) \in Nat
<1>1. rate \in Nat \ {0}
  BY RatesAssumption DEF TypeOK
<1>2. n * RateUnit \in Nat /\ n * rate \in Nat
  BY <1>1, RatesAssumption
<1> QED BY <1>1, <1>2, DivBounds, RatesAssumption DEF ToAust, ToUusd

(* What a position has is a number, recorded or not.                       *)
LEMMA StoredType ==
  ASSUME TypeOK, NEW p
  PROVE  Stored(p) \in Nat
BY DEF TypeOK, Stored

(* Recording one position's amount leaves the others'.                     *)
LEMMA SaveAustEffect ==
  ASSUME TypeOK, NEW p \in Positions, NEW amount \in Nat, SaveAust(p, amount)
  PROVE  /\ DOMAIN austAmount' \subseteq Positions /\ IsFiniteSet(DOMAIN austAmount')
         /\ austAmount' \in [DOMAIN austAmount' -> Nat]
         /\ Stored(p)' = amount
         /\ \A q \in Positions \ {p} : Stored(q)' = Stored(q)
<1>1. DOMAIN austAmount' = DOMAIN austAmount \cup {p}
  BY DEF SaveAust
<1>2. IsFiniteSet(DOMAIN austAmount')
  BY <1>1, FS_AddElement DEF TypeOK
<1> QED BY <1>2 DEF TypeOK, SaveAust, Stored

(* ... and changes the sum of all by as much as this one's.                *)
LEMMA SaveAustSum ==
  ASSUME TypeOK, NEW p \in Positions, NEW amount \in Nat, SaveAust(p, amount)
  PROVE  /\ SumFunction(austAmount) \in Nat
         /\ Stored(p) <= SumFunction(austAmount)
         /\ SumFunction(austAmount)' = SumFunction(austAmount) - Stored(p) + amount
<1> DEFINE D == DOMAIN austAmount
           new == [q \in D \cup {p} |-> IF q = p THEN amount ELSE austAmount[q]]
<1>1. IsFiniteSet(D) /\ \A q \in D : austAmount[q] \in Nat
  BY DEF TypeOK
<1>2. SumFunctionOnSet(austAmount, D) \in Nat
  BY <1>1, SumNat
<1>3. /\ SumFunction(austAmount) = SumFunctionOnSet(austAmount, D)
      /\ SumFunction(austAmount)' = SumFunctionOnSet(new, D \cup {p})
  BY DEF SumFunction, SaveAust
<1>4. \A q \in D \cup {p} : new[q] \in Int
  BY <1>1
<1>5. CASE p \in D
  <2>1. D \cup {p} = D /\ Stored(p) = austAmount[p] /\ new[p] = amount
    BY <1>5 DEF Stored
  <2>2. \A q \in D \ {p} : new[q] = austAmount[q]
    OBVIOUS
  <2>3. \A q \in D : austAmount[q] \in Int
    BY <1>1
  <2>4. SumFunctionOnSet(new, D) = SumFunctionOnSet(austAmount, D) - austAmount[p] + amount
    <3> HIDE DEF new
    <3> QED BY <1>1, <1>5, <2>1, <2>2, <2>3, SumUpdate
  <2>5. austAmount[p] <= SumFunctionOnSet(austAmount, D)
    BY <1>1, <1>5, SumBoundsElement
  <2> QED BY <1>2, <1>3, <2>1, <2>4, <2>5
<1>6. CASE p \notin D
  <2>1. Stored(p) = 0 /\ new[p] = amount
    BY <1>6 DEF Stored
  <2>2. \A q \in D : austAmount[q] = new[q]
    BY <1>6
  <2>3. SumFunctionOnSet(austAmount, D) = SumFunctionOnSet(new, D)
    <3> HIDE DEF new
    <3> QED BY <1>1, <2>2, SumSame
  <2>4. SumFunctionOnSet(new, D \cup {p}) = new[p] + SumFunctionOnSet(new, D)
    <3> HIDE DEF new
    <3> QED BY <1>1, <1>4, <1>6, SumAdd
  <2> QED BY <1>2, <1>3, <2>1, <2>3, <2>4
<1> QED BY <1>5, <1>6

(* A deposit: what it does to the contract's books.                        *)
LEMMA DepositEffect ==
  ASSUME TypeOK, NEW sender, NEW p \in Positions, NEW uusd \in Amounts,
         deposit(sender, p, uusd)
  PROVE  /\ uusd \in Nat /\ ToAust(uusd) \in Nat
         /\ DOMAIN austAmount' \subseteq Positions /\ IsFiniteSet(DOMAIN austAmount')
         /\ austAmount' \in [DOMAIN austAmount' -> Nat]
         /\ Stored(p)' = Stored(p) + ToAust(uusd)
         /\ SumFunction(austAmount) \in Nat
         /\ SumFunction(austAmount)' = SumFunction(austAmount) + ToAust(uusd)
         /\ austBalance' = austBalance + ToAust(uusd)
         /\ deposited'[p] = deposited[p] + uusd
         /\ \A q \in Positions \ {p} : Stored(q)' = Stored(q) /\ deposited'[q] = deposited[q]
         /\ deposited' \in [Positions -> Nat] /\ austBalance' \in Nat
         /\ UNCHANGED <<config, idle, paidOut, rate>>
<1>1. uusd \in Nat /\ ToAust(uusd) \in Nat /\ Stored(p) \in Nat
  BY ConversionType, StoredType, AmountsAssumption
<1>2. SaveAust(p, Stored(p) + ToAust(uusd))
  BY DEF deposit, mint_anchor_ust_amount, ToAust
<1>3. Stored(p) + ToAust(uusd) \in Nat
  BY <1>1
<1>4. /\ DOMAIN austAmount' \subseteq Positions /\ IsFiniteSet(DOMAIN austAmount')
      /\ austAmount' \in [DOMAIN austAmount' -> Nat]
      /\ Stored(p)' = Stored(p) + ToAust(uusd)
      /\ \A q \in Positions \ {p} : Stored(q)' = Stored(q)
  BY <1>2, <1>3, SaveAustEffect
<1>4a. /\ SumFunction(austAmount) \in Nat
       /\ SumFunction(austAmount)' = SumFunction(austAmount) + ToAust(uusd)
  BY <1>1, <1>2, <1>3, SaveAustSum
<1>5. deposited' = [deposited EXCEPT ![p] = @ + uusd] /\ deposited \in [Positions -> Nat]
  BY DEF deposit, TypeOK
<1>6. deposited' \in [Positions -> Nat]
  BY <1>1, <1>5
<1>7. /\ austBalance' \in Nat /\ austBalance' = austBalance + ToAust(uusd)
      /\ UNCHANGED <<config, idle, paidOut, rate>>
  BY <1>1 DEF deposit, TypeOK
<1>8. /\ deposited'[p] = deposited[p] + uusd
      /\ \A q \in Positions \ {p} : deposited'[q] = deposited[q]
  BY <1>5
<1> QED BY <1>1, <1>4, <1>4a, <1>6, <1>7, <1>8

(* A withdrawal: what it does to the contract's books.                     *)
LEMMA WithdrawEffect ==
  ASSUME TypeOK, NEW sender, NEW p \in Positions, NEW r \in Proportions,
         NEW attached \in Amounts \cup {0}, withdraw(sender, p, r, attached)
  PROVE  \E q \in Nat :
         /\ q <= Stored(p) /\ Stored(p) \in Nat /\ ToUusd(q) \in Nat
         /\ DOMAIN austAmount' \subseteq Positions /\ IsFiniteSet(DOMAIN austAmount')
         /\ austAmount' \in [DOMAIN austAmount' -> Nat]
         /\ Stored(p)' = Stored(p) - q
         /\ SumFunction(austAmount) \in Nat
         /\ SumFunction(austAmount)' = SumFunction(austAmount) - q
         /\ austBalance' = austBalance - q
         /\ austBalance' \in Nat /\ idle' \in Nat
         /\ paidOut' \in [Positions -> Nat]
         /\ paidOut'[p] = paidOut[p] + ToUusd(q)
         /\ \A o \in Positions \ {p} : Stored(o)' = Stored(o) /\ paidOut'[o] = paidOut[o]
         /\ UNCHANGED <<config, deposited, rate>>
<1>1. PICK q : q = redeem_anchor_ust_amount(p, r)
  OBVIOUS
<1>2. p \in DOMAIN austAmount /\ Stored(p) = austAmount[p]
  BY DEF withdraw, Stored
<1>3. q \in Nat /\ Stored(p) \in Nat /\ ToUusd(q) \in Nat
  BY <1>1, <1>2, RedeemType, ConversionType
<1>4. /\ q <= Stored(p)
      /\ SaveAust(p, Stored(p) - q)
      /\ austBalance >= q /\ austBalance' = austBalance - q
      /\ paidOut' = [paidOut EXCEPT ![p] = @ + ToUusd(q)]
      /\ idle' = idle + attached + ToUusd(q) - ToUusd(q)
      /\ UNCHANGED <<config, deposited, rate>>
  BY <1>1, <1>2 DEF withdraw, withdrawal_uusd_amount, ToUusd
<1>5. Stored(p) - q \in Nat
  BY <1>3, <1>4
<1>6. /\ DOMAIN austAmount' \subseteq Positions /\ IsFiniteSet(DOMAIN austAmount')
      /\ austAmount' \in [DOMAIN austAmount' -> Nat]
      /\ Stored(p)' = Stored(p) - q
      /\ \A o \in Positions \ {p} : Stored(o)' = Stored(o)
  BY <1>4, <1>5, SaveAustEffect
<1>6a. /\ SumFunction(austAmount) \in Nat
       /\ SumFunction(austAmount)' = SumFunction(austAmount) - q
  BY <1>3, <1>4, <1>5, SaveAustSum
<1>7. idle' \in Nat /\ austBalance' \in Nat
  BY <1>3, <1>4, AmountsAssumption DEF TypeOK
<1>8. paidOut' \in [Positions -> Nat]
  BY <1>3, <1>4 DEF TypeOK
<1>9. /\ paidOut'[p] = paidOut[p] + ToUusd(q)
      /\ \A o \in Positions \ {p} : paidOut'[o] = paidOut[o]
  BY <1>4 DEF TypeOK
<1> QED BY <1>3, <1>4, <1>6, <1>6a, <1>7, <1>8, <1>9

(* The environment and the administrator leave the books alone.            *)
LEMMA Others ==
  ASSUME TypeOK, [Next]_vars
  PROVE  \/ \E sender \in Managers, p \in Positions, uusd \in Amounts :
              deposit(sender, p, uusd)
         \/ \E sender \in Managers, p \in Positions, r \in Proportions,
               attached \in Amounts \cup {0} : withdraw(sender, p, r, attached)
         \/ /\ UNCHANGED <<austAmount, idle, deposited, paidOut>>
            /\ austBalance' >= austBalance
            /\ rate' = rate \/ (rate' \in Rates /\ rate' > rate)
            /\ \A p : Stored(p)' = Stored(p)
<1>1. ASSUME UNCHANGED austAmount
      PROVE  \A p : Stored(p)' = Stored(p)
  BY <1>1 DEF Stored
<1> QED BY <1>1, AmountsAssumption
        DEF TypeOK, Next, vars, funds, update_admin_config, AccrueInterest, ReceiveAust

(* Types are kept by every step.                                           *)
LEMMA TypeStep == TypeOK /\ [Next]_vars => TypeOK'
<1> SUFFICES ASSUME TypeOK, [Next]_vars PROVE TypeOK'
  OBVIOUS
<1>1. ASSUME NEW sender \in Managers, NEW p \in Positions, NEW uusd \in Amounts,
             deposit(sender, p, uusd)
      PROVE  TypeOK'
  BY <1>1, DepositEffect DEF TypeOK, config
<1>2. ASSUME NEW sender \in Managers, NEW p \in Positions, NEW r \in Proportions,
             NEW attached \in Amounts \cup {0}, withdraw(sender, p, r, attached)
      PROVE  TypeOK'
  <2>1. /\ DOMAIN austAmount' \subseteq Positions /\ IsFiniteSet(DOMAIN austAmount')
        /\ austAmount' \in [DOMAIN austAmount' -> Nat]
        /\ austBalance' \in Nat /\ idle' \in Nat
        /\ paidOut' \in [Positions -> Nat]
        /\ UNCHANGED <<config, deposited, rate>>
    BY <1>2, WithdrawEffect
  <2> QED BY <2>1 DEF TypeOK, config
<1>3. ASSUME NEW sender \in Accounts, NEW a \in Accounts, NEW m \in Managers,
             update_admin_config(sender, a, m)
      PROVE  TypeOK'
  BY <1>3 DEF update_admin_config, funds, TypeOK
<1>4. CASE AccrueInterest
  BY <1>4, RatesAssumption DEF AccrueInterest, config, funds, TypeOK
<1>5. ASSUME NEW amount \in Amounts, ReceiveAust(amount)
      PROVE  TypeOK'
  BY <1>5, AmountsAssumption DEF ReceiveAust, config, TypeOK
<1>6. CASE UNCHANGED vars
  BY <1>6 DEF vars, config, funds, TypeOK
<1> QED BY <1>1, <1>2, <1>3, <1>4, <1>5, <1>6 DEF Next

(* The storage, the balances and the rate always have their types: no      *)
(* balance goes below zero, however requests are mixed.                    *)
THEOREM TypeCorrect == Spec => []TypeOK
<1>1. Init => TypeOK
  BY RatesAssumption, FS_EmptySet DEF Init, TypeOK
<1> QED BY <1>1, TypeStep, PTL DEF Spec

-----------------------------------------------------------------------------
(* The shares' backing.                                                    *)

(* With its types SharesBacked is inductive: the contract books what the   *)
(* market does, for every amount and rate.                                 *)
LEMMA BackingStep == TypeOK /\ SharesBacked /\ [Next]_vars => SharesBacked'
<1> SUFFICES ASSUME TypeOK, SharesBacked, [Next]_vars
             PROVE  austBalance' >= SumFunction(austAmount)'
  BY DEF SharesBacked
<1>1. austBalance \in Nat /\ austBalance >= SumFunction(austAmount)
  BY DEF TypeOK, SharesBacked
<1>2. ASSUME NEW sender, NEW p \in Positions, NEW uusd \in Amounts,
             deposit(sender, p, uusd)
      PROVE  austBalance' >= SumFunction(austAmount)'
  <2>1. /\ ToAust(uusd) \in Nat /\ SumFunction(austAmount) \in Nat
        /\ SumFunction(austAmount)' = SumFunction(austAmount) + ToAust(uusd)
        /\ austBalance' = austBalance + ToAust(uusd)
    BY <1>2, DepositEffect
  <2> QED BY <1>1, <2>1
<1>3. ASSUME NEW sender, NEW p \in Positions, NEW r \in Proportions,
             NEW attached \in Amounts \cup {0}, withdraw(sender, p, r, attached)
      PROVE  austBalance' >= SumFunction(austAmount)'
  <2>1. PICK q \in Nat :
          /\ SumFunction(austAmount) \in Nat
          /\ SumFunction(austAmount)' = SumFunction(austAmount) - q
          /\ austBalance' = austBalance - q
    BY <1>3, WithdrawEffect
  <2> QED BY <1>1, <2>1
<1>4. ASSUME UNCHANGED austAmount, austBalance' >= austBalance
      PROVE  austBalance' >= SumFunction(austAmount)'
  <2>1. austBalance' \in Nat
    BY TypeStep DEF TypeOK
  <2>2. SumFunction(austAmount) \in Nat
    <3>1. SumFunctionOnSet(austAmount, DOMAIN austAmount) \in Nat
      BY SumNat DEF TypeOK
    <3> QED BY <3>1 DEF SumFunction
  <2>3. SumFunction(austAmount)' = SumFunction(austAmount)
    BY <1>4
  <2> QED BY <1>1, <1>4, <2>1, <2>2, <2>3
<1> QED BY <1>2, <1>3, <1>4, Others

(* The contract always holds the aUST of all positions together, for any   *)
(* number of positions, all rates, amounts and proportions.                *)
THEOREM AllSharesBacked == Spec => []SharesBacked
<1>1. Init => TypeOK /\ SharesBacked
  <2>1. ASSUME Init PROVE SumFunction(austAmount) = 0
    <3>1. DOMAIN austAmount = {}
      BY <2>1 DEF Init
    <3> QED BY <3>1, SumEmpty DEF SumFunction
  <2> QED BY <2>1, RatesAssumption, FS_EmptySet DEF Init, TypeOK, SharesBacked
<1>2. TypeOK /\ SharesBacked /\ [Next]_vars => (TypeOK /\ SharesBacked)'
  BY TypeStep, BackingStep
<1> QED BY <1>1, <1>2, PTL DEF Spec

-----------------------------------------------------------------------------
(* No more than interest.                                                  *)

(* Multiplying an inequality by a number.                                  *)
LEMMA Scale ==
  ASSUME NEW a \in Int, NEW b \in Int, NEW c \in Nat, a <= b
  PROVE  c * a <= c * b
OBVIOUS

(* The bound of InterestOnly, for a position with these books.             *)
Bound(r, paid, a, dep) ==
  InitialRate * (RateUnit * paid + a * r) <= RateUnit * dep * r

(* A deposit that the market rounds down keeps the bound.                  *)
LEMMA BoundDeposit ==
  ASSUME NEW r \in Nat, NEW paid \in Nat, NEW a \in Nat, NEW dep \in Nat,
         NEW d \in Nat, NEW m \in Nat, InitialRate <= r, m * r <= d * RateUnit,
         Bound(r, paid, a, dep)
  PROVE  Bound(r, paid, a + m, dep + d)
<1>1. InitialRate * (m * r) <= InitialRate * (d * RateUnit)
  BY Scale, RatesAssumption
<1>2. InitialRate * (d * RateUnit) <= r * (d * RateUnit)
  <2>1. (d * RateUnit) * InitialRate <= (d * RateUnit) * r
    BY Scale, RatesAssumption
  <2> QED BY <2>1, RatesAssumption
<1>3. InitialRate * (RateUnit * paid + (a + m) * r)
        = InitialRate * (RateUnit * paid + a * r) + InitialRate * (m * r)
  BY RatesAssumption
<1>4. RateUnit * (dep + d) * r = RateUnit * dep * r + r * (d * RateUnit)
  BY RatesAssumption
<1>5. /\ InitialRate * (RateUnit * paid + a * r) \in Int
      /\ InitialRate * (m * r) \in Int /\ r * (d * RateUnit) \in Int
      /\ RateUnit * dep * r \in Int /\ InitialRate * (d * RateUnit) \in Int
  BY RatesAssumption
<1> QED BY <1>1, <1>2, <1>3, <1>4, <1>5 DEF Bound

(* So does a redemption that the market rounds down.                       *)
LEMMA BoundWithdraw ==
  ASSUME NEW r \in Nat, NEW paid \in Nat, NEW a \in Nat, NEW dep \in Nat,
         NEW q \in Nat, NEW w \in Nat, RateUnit * w <= q * r,
         Bound(r, paid, a, dep)
  PROVE  Bound(r, paid + w, a - q, dep)
<1>1. InitialRate * (RateUnit * w) <= InitialRate * (q * r)
  BY Scale, RatesAssumption
<1>2. InitialRate * (RateUnit * (paid + w) + (a - q) * r)
        = InitialRate * (RateUnit * paid + a * r)
          + InitialRate * (RateUnit * w) - InitialRate * (q * r)
  BY RatesAssumption
<1>3. /\ InitialRate * (RateUnit * paid + a * r) \in Int
      /\ InitialRate * (RateUnit * w) \in Int /\ InitialRate * (q * r) \in Int
      /\ RateUnit * dep * r \in Int
  BY RatesAssumption
<1> QED BY <1>1, <1>2, <1>3 DEF Bound

(* So does a growing rate.                                                 *)
LEMMA BoundInterest ==
  ASSUME NEW r \in Nat \ {0}, NEW s \in Nat, NEW paid \in Nat, NEW a \in Nat,
         NEW dep \in Nat, r <= s, Bound(r, paid, a, dep)
  PROVE  Bound(s, paid, a, dep)
<1> DEFINE K == RateUnit * dep - InitialRate * a
           P == InitialRate * (RateUnit * paid)
<1>1. K \in Int /\ P \in Nat
  BY RatesAssumption
<1>2. \A x \in Nat : /\ InitialRate * (RateUnit * paid + a * x) = P + (InitialRate * a) * x
                    /\ RateUnit * dep * x = K * x + (InitialRate * a) * x
                    /\ (InitialRate * a) * x \in Int /\ K * x \in Int
  BY RatesAssumption
<1>3. \A x \in Nat : Bound(x, paid, a, dep) <=> P <= K * x
  <2> SUFFICES ASSUME NEW x \in Nat PROVE Bound(x, paid, a, dep) <=> P <= K * x
    OBVIOUS
  <2>1. /\ InitialRate * (RateUnit * paid + a * x) = P + (InitialRate * a) * x
        /\ RateUnit * dep * x = K * x + (InitialRate * a) * x
        /\ (InitialRate * a) * x \in Int /\ K * x \in Int
    BY <1>2
  <2> HIDE DEF K, P
  <2> QED BY <1>1, <2>1 DEF Bound
<1> HIDE DEF K, P
<1>4. P <= K * r
  BY <1>3
<1>5. K \in Nat
  BY <1>1, <1>4
<1>6. K * r <= K * s
  BY <1>5, Scale
<1>7. P <= K * s
  BY <1>1, <1>4, <1>5, <1>6
<1> QED BY <1>3, <1>7

(* InterestOnly is inductive as it stands.                                 *)
LEMMA InterestStep == TypeOK /\ InterestOnly /\ [Next]_vars => InterestOnly'
<1> SUFFICES ASSUME TypeOK, InterestOnly, [Next]_vars, NEW o \in Positions
             PROVE  Bound(rate, paidOut[o], Stored(o), deposited[o])'
  BY DEF InterestOnly, Bound
<1>1. /\ paidOut[o] \in Nat /\ deposited[o] \in Nat /\ Stored(o) \in Nat
      /\ rate \in Nat \ {0} /\ InitialRate <= rate
      /\ Bound(rate, paidOut[o], Stored(o), deposited[o])
  BY StoredType, RatesAssumption DEF TypeOK, InterestOnly, Bound
<1>2. ASSUME NEW sender, NEW p \in Positions, NEW uusd \in Amounts,
             deposit(sender, p, uusd)
      PROVE  Bound(rate, paidOut[o], Stored(o), deposited[o])'
  <2>1. CASE o = p
    <3>1. /\ uusd \in Nat /\ ToAust(uusd) \in Nat
          /\ Stored(o)' = Stored(o) + ToAust(uusd)
          /\ deposited'[o] = deposited[o] + uusd
          /\ paidOut' = paidOut /\ rate' = rate
      BY <1>2, <2>1, DepositEffect
    <3>2. ToAust(uusd) * rate <= uusd * RateUnit
      BY <1>1, <3>1, DepositWorth, RatesAssumption DEF ToAust
    <3>3. Bound(rate, paidOut[o], Stored(o) + ToAust(uusd), deposited[o] + uusd)
      BY <1>1, <3>1, <3>2, BoundDeposit
    <3> QED BY <3>1, <3>3 DEF Bound
  <2>2. CASE o # p
    BY <1>1, <1>2, <2>2, DepositEffect DEF Bound
  <2> QED BY <2>1, <2>2
<1>3. ASSUME NEW sender, NEW p \in Positions, NEW r \in Proportions,
             NEW attached \in Amounts \cup {0}, withdraw(sender, p, r, attached)
      PROVE  Bound(rate, paidOut[o], Stored(o), deposited[o])'
  <2>1. CASE o = p
    <3>1. PICK q \in Nat :
            /\ ToUusd(q) \in Nat /\ Stored(o)' = Stored(o) - q
            /\ paidOut'[o] = paidOut[o] + ToUusd(q)
            /\ deposited' = deposited /\ rate' = rate
      BY <1>3, <2>1, WithdrawEffect
    <3>2. RateUnit * ToUusd(q) <= q * rate
      <4>1. q * rate \in Nat
        BY <1>1
      <4> QED BY <4>1, DivBounds, RatesAssumption DEF ToUusd
    <3>3. Bound(rate, paidOut[o] + ToUusd(q), Stored(o) - q, deposited[o])
      BY <1>1, <3>1, <3>2, BoundWithdraw
    <3> QED BY <3>1, <3>3 DEF Bound
  <2>2. CASE o # p
    BY <1>1, <1>3, <2>2, WithdrawEffect DEF Bound
  <2> QED BY <2>1, <2>2
<1>4. ASSUME UNCHANGED <<deposited, paidOut>>, Stored(o)' = Stored(o),
             rate' = rate \/ (rate' \in Rates /\ rate' > rate)
      PROVE  Bound(rate, paidOut[o], Stored(o), deposited[o])'
  <2>1. rate' \in Nat /\ rate <= rate'
    <3>1. rate' \in Nat
      BY <1>1, <1>4, RatesAssumption
    <3> QED BY <1>1, <1>4, <3>1
  <2>2. Bound(rate', paidOut[o], Stored(o), deposited[o])
    BY <1>1, <2>1, BoundInterest
  <2> QED BY <1>4, <2>2 DEF Bound
<1> QED BY <1>2, <1>3, <1>4, Others

(* No position ever gets back more than its deposits with Anchor's         *)
(* interest, for all rates and proportions and any number of requests.     *)
THEOREM NoMoreThanInterest == Spec => []InterestOnly
<1>1. Init => TypeOK /\ InterestOnly
  BY RatesAssumption, FS_EmptySet DEF Init, TypeOK, InterestOnly, Stored
<1>2. TypeOK /\ InterestOnly /\ [Next]_vars => (TypeOK /\ InterestOnly)'
  BY TypeStep, InterestStep
<1> QED BY <1>1, <1>2, PTL DEF Spec

-----------------------------------------------------------------------------
(* Rounding.                                                               *)

(* A request of its own changes a position's gain by rounding only.        *)
LEMMA RoundingNext == TypeOK /\ [Next]_vars => RoundingStep
<1> SUFFICES ASSUME TypeOK, [Next]_vars, rate' = rate, NEW o \in Positions
             PROVE  /\ Gain(o)' <= Gain(o)
                    /\ (Gain(o) - Gain(o)' - 1) * RateUnit <= rate
  BY DEF RoundingStep
<1>1. /\ paidOut[o] \in Nat /\ deposited[o] \in Nat /\ Stored(o) \in Nat
      /\ rate \in Nat \ {0} /\ ToUusd(Stored(o)) \in Nat
      /\ Gain(o) = ToUusd(Stored(o)) + paidOut[o] - deposited[o]
      /\ Gain(o)' = ToUusd(Stored(o))' + paidOut'[o] - deposited'[o]
      /\ ToUusd(Stored(o))' = (Stored(o)' * rate) \div RateUnit
  BY StoredType, ConversionType DEF TypeOK, Gain, ToUusd
<1>2. ASSUME UNCHANGED <<deposited[o], paidOut[o], Stored(o)>>
      PROVE  /\ Gain(o)' <= Gain(o)
             /\ (Gain(o) - Gain(o)' - 1) * RateUnit <= rate
  <2>1. Gain(o)' = Gain(o) /\ Gain(o) \in Int
    BY <1>1, <1>2 DEF ToUusd
  <2> QED BY <1>1, <2>1, RatesAssumption
<1>3. ASSUME NEW sender, NEW p \in Positions, NEW uusd \in Amounts,
             deposit(sender, p, uusd)
      PROVE  /\ Gain(o)' <= Gain(o)
             /\ (Gain(o) - Gain(o)' - 1) * RateUnit <= rate
  <2>1. CASE o = p
    <3>1. /\ uusd \in Nat
          /\ Stored(o)' = Stored(o) + ToAust(uusd)
          /\ deposited'[o] = deposited[o] + uusd
          /\ paidOut' = paidOut
      BY <1>3, <2>1, DepositEffect
    <3>2. PICK after \in Nat :
            /\ after = ToUusd(Stored(o))'
            /\ after <= ToUusd(Stored(o)) + uusd
            /\ (ToUusd(Stored(o)) + uusd - after - 1) * RateUnit <= rate
      BY <1>1, <3>1, DepositWorth, RatesAssumption DEF ToUusd, ToAust
    <3>3. /\ Gain(o) - Gain(o)' = ToUusd(Stored(o)) + uusd - after
      BY <1>1, <3>1, <3>2
    <3> QED BY <1>1, <3>1, <3>2, <3>3
  <2>2. CASE o # p
    BY <1>2, <1>3, <2>2, DepositEffect
  <2> QED BY <2>1, <2>2
<1>4. ASSUME NEW sender, NEW p \in Positions, NEW r \in Proportions,
             NEW attached \in Amounts \cup {0}, withdraw(sender, p, r, attached)
      PROVE  /\ Gain(o)' <= Gain(o)
             /\ (Gain(o) - Gain(o)' - 1) * RateUnit <= rate
  <2>1. CASE o = p
    <3>1. PICK q \in Nat :
            /\ q <= Stored(o) /\ ToUusd(q) \in Nat /\ Stored(o)' = Stored(o) - q
            /\ paidOut'[o] = paidOut[o] + ToUusd(q)
            /\ deposited' = deposited
      BY <1>4, <2>1, WithdrawEffect
    <3>2. PICK k : k = Stored(o) - q
      OBVIOUS
    <3>3. /\ k \in Nat /\ k * rate \in Nat /\ q * rate \in Nat
          /\ Stored(o) * rate = k * rate + q * rate
      BY <1>1, <3>1, <3>2
    <3>4. /\ ToUusd(k) + ToUusd(q) <= ToUusd(Stored(o))
          /\ ToUusd(Stored(o)) <= ToUusd(k) + ToUusd(q) + 1
      BY <3>3, DivSum, RatesAssumption DEF ToUusd
    <3>5. ToUusd(Stored(o))' = ToUusd(k) /\ ToUusd(k) \in Nat
      BY <1>1, <3>1, <3>2, <3>3, ConversionType DEF ToUusd
    <3>6. /\ Gain(o)' <= Gain(o) /\ Gain(o) \in Int /\ Gain(o)' \in Int
          /\ Gain(o) - Gain(o)' - 1 <= 0
      BY <1>1, <3>1, <3>4, <3>5
    <3> QED BY <1>1, <3>6, RatesAssumption
  <2>2. CASE o # p
    BY <1>2, <1>4, <2>2, WithdrawEffect
  <2> QED BY <2>1, <2>2
<1>5. ASSUME UNCHANGED <<deposited, paidOut>>, Stored(o)' = Stored(o)
      PROVE  /\ Gain(o)' <= Gain(o)
             /\ (Gain(o) - Gain(o)' - 1) * RateUnit <= rate
  BY <1>2, <1>5
<1> QED BY <1>3, <1>4, <1>5, Others

(* Between changes of the rate, no request adds to a position's value, and *)
(* none costs it more than the rounding of one deposit or withdrawal.      *)
THEOREM RoundingCosts == Spec => RoundingBounded
<1> QED BY RoundingNext, TypeCorrect, PTL DEF Spec, RoundingBounded
=============================================================================
