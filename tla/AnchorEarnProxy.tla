-------------------------- MODULE AnchorEarnProxy --------------------------
(***************************************************************************)
(* The strategy contract anchor_earn_proxy: it deposits the uusd of a      *)
(* position in Anchor Earn, keeps the aUST of all positions in one balance *)
(* and each position's part of it in POSITION_TO_ANCHOR_UST_AMOUNT.        *)
(*                                                                         *)
(* The contract computes by itself what the Anchor market, called after    *)
(* the computation, will mint and pay; the market is modelled by its rate, *)
(* uusd per aUST, which only grows.  A transaction is one action.          *)
(***************************************************************************)
EXTENDS Integers, FiniteSets, Functions

CONSTANTS
  Accounts,       \* accounts that may be the administrator
  Managers,       \* contracts that may be the Terra manager
  Positions,      \* position keys
  Amounts,        \* uusd amounts of a request
  Proportions,    \* proportions of a decrease: pairs <<numerator, denominator>>
  InitialRate,    \* Anchor's rate at the start, in units of 1 / RateUnit
  RateUnit,       \* (Decimal256 has the unit 10^18)
  Rates           \* rates that Anchor may reach

(* Bounds that make the state space finite.                                *)
CONSTANTS MaxDeposited,   \* uusd deposited for one position
          MaxIdle,        \* uusd left in the contract
          MaxDonated      \* aUST given to the contract by others

ASSUME RatesAssumption ==
  /\ RateUnit \in Nat \ {0} /\ InitialRate \in Nat \ {0}
  /\ Rates \subseteq Nat
ASSUME AmountsAssumption ==
  /\ Amounts \subseteq Nat \ {0}
  /\ Proportions \subseteq {r \in Nat \X (Nat \ {0}) : r[1] <= r[2]}
  /\ {MaxDeposited, MaxIdle, MaxDonated} \subseteq Nat

VARIABLES
  admin, terra_manager,   \* ADMIN_CONFIG
  austAmount,             \* POSITION_TO_ANCHOR_UST_AMOUNT
  austBalance,            \* aUST balance of the contract
  idle,                   \* uusd balance of the contract
  rate                    \* Anchor's exchange rate

(* What each position has put in and got back.                             *)
VARIABLES deposited, paidOut

config == <<admin, terra_manager>>
funds  == <<austAmount, austBalance, idle, deposited, paidOut>>
vars   == <<config, funds, rate>>

Init ==
  /\ admin \in Accounts /\ terra_manager \in Managers
  /\ austAmount = [p \in {} |-> 0] /\ austBalance = 0 /\ idle = 0
  /\ rate = InitialRate
  /\ deposited = [p \in Positions |-> 0] /\ paidOut = [p \in Positions |-> 0]

-----------------------------------------------------------------------------
(* Conversions of the Anchor market, which round down.                     *)

ToAust(uusd) == (uusd * RateUnit) \div rate
ToUusd(aust) == (aust * rate) \div RateUnit

(* Mutant: the amount to mint is rounded up.                               *)
mint_anchor_ust_rounded_up(uusd) == (uusd * RateUnit + rate - 1) \div rate

(* The contract's prediction of what the market will mint for a deposit.   *)
mint_anchor_ust_amount(uusd) == (uusd * RateUnit) \div rate

(* Mutants: the redemption value is rounded up; the rate loses its decimals.*)
withdrawal_uusd_rounded_up(aust) == (aust * rate + RateUnit - 1) \div RateUnit
withdrawal_uusd_integer_rate(aust) == aust * (rate \div RateUnit)

(* The contract's prediction of what the market will pay for aUST.         *)
withdrawal_uusd_amount(aust) == (aust * rate) \div RateUnit

(* may_load with a default of zero.                                        *)
Stored(p) == IF p \in DOMAIN austAmount THEN austAmount[p] ELSE 0

SaveAust(p, amount) ==
  austAmount' = [q \in DOMAIN austAmount \cup {p} |->
                   IF q = p THEN amount ELSE austAmount[q]]

(* deposit, for an opening or an increase with exactly one uusd asset.     *)
deposit(sender, p, uusd) ==
  /\ sender = terra_manager
  /\ deposited[p] + uusd <= MaxDeposited
  /\ SaveAust(p, Stored(p) + mint_anchor_ust_amount(uusd))
  /\ austBalance' = austBalance + ToAust(uusd)
  /\ deposited' = [deposited EXCEPT ![p] = @ + uusd]
  /\ UNCHANGED <<config, idle, paidOut, rate>>

(* The part of a position's aUST that a decrease or a close redeems.       *)
redeem_anchor_ust_amount(p, proportion) ==
  (austAmount[p] * proportion[1]) \div proportion[2]

(* withdraw, for a decrease or (proportion 1) a close.  Assets attached to *)
(* the request are not looked at: the contract keeps them.                 *)
withdraw(sender, p, proportion, attached) ==
  /\ sender = terra_manager
  /\ proportion[1] # 0
  /\ p \in DOMAIN austAmount
  /\ idle + attached <= MaxIdle
  /\ LET redeemed == redeem_anchor_ust_amount(p, proportion)
         paid     == withdrawal_uusd_amount(redeemed)
     IN /\ redeemed # 0 /\ redeemed <= austAmount[p]
        /\ austBalance >= redeemed
        /\ SaveAust(p, austAmount[p] - redeemed)
        /\ austBalance' = austBalance - redeemed
        /\ idle + attached + ToUusd(redeemed) >= paid
        /\ idle' = idle + attached + ToUusd(redeemed) - paid
        /\ paidOut' = [paidOut EXCEPT ![p] = @ + paid]
  /\ UNCHANGED <<config, deposited, rate>>

(* Mutant: the two addresses swapped.                                      *)
update_admin_config_swapped(sender, newAdmin, newManager) ==
  /\ sender = admin
  /\ admin' = newManager /\ terra_manager' = newAdmin
  /\ UNCHANGED <<funds, rate>>

(* update_admin_config: each address may be replaced or left alone.        *)
update_admin_config(sender, newAdmin, newManager) ==
  /\ sender = admin
  /\ admin' = newAdmin /\ terra_manager' = newManager
  /\ UNCHANGED <<funds, rate>>

-----------------------------------------------------------------------------
(* The environment.                                                        *)

AccrueInterest ==
  /\ rate' \in Rates /\ rate' > rate
  /\ UNCHANGED <<config, funds>>

(* Anybody may send aUST to the contract.                                  *)
ReceiveAust(amount) ==
  /\ austBalance + amount <= MaxDonated
  /\ austBalance' = austBalance + amount
  /\ UNCHANGED <<config, austAmount, idle, deposited, paidOut, rate>>

Next ==
  \/ \E sender \in Managers, p \in Positions, uusd \in Amounts :
       deposit(sender, p, uusd)
  \/ \E sender \in Managers, p \in Positions, r \in Proportions,
        attached \in Amounts \cup {0} :
       withdraw(sender, p, r, attached)
  \/ \E sender \in Accounts, a \in Accounts, m \in Managers :
       update_admin_config(sender, a, m)
  \/ AccrueInterest
  \/ \E amount \in Amounts : ReceiveAust(amount)

Spec == Init /\ [][Next]_vars

-----------------------------------------------------------------------------
(* Properties.                                                             *)

(* Type invariant of the storage, the balances and the rate.               *)
TypeOK ==
  /\ admin \in Accounts /\ terra_manager \in Managers
  /\ DOMAIN austAmount \subseteq Positions /\ IsFiniteSet(DOMAIN austAmount)
  /\ austAmount \in [DOMAIN austAmount -> Nat]
  /\ austBalance \in Nat /\ idle \in Nat
  /\ rate \in Nat /\ rate >= InitialRate
  /\ deposited \in [Positions -> Nat] /\ paidOut \in [Positions -> Nat]

(* The contract holds the aUST of every position at once, although it      *)
(* never asks the market or the token what it really received: so all      *)
(* positions can be closed, in any order (deposit's and withdraw's         *)
(* predictions agree with the market for every rate and amount).           *)
SharesBacked ==
  austBalance >= SumFunction(austAmount)

(* A position never gets back more than its deposits with the interest     *)
(* Anchor paid since the start: what it got, at the current rate, and what *)
(* it still has never exceed its deposits grown by rate / InitialRate, in  *)
(* whatever pieces it was deposited and withdrawn.                         *)
InterestOnly ==
  \A p \in Positions :
    InitialRate * (RateUnit * paidOut[p] + Stored(p) * rate)
      <= RateUnit * deposited[p] * rate

(* What a position owns and has got, less what it has put in.              *)
Gain(p) == ToUusd(Stored(p)) + paidOut[p] - deposited[p]

(* Rounding: a request never adds to the value of a position, and costs it *)
(* less than the price of one aUST, rounded up, plus one uusd.             *)
RoundingStep ==
  rate' = rate =>
    \A p \in Positions :
      /\ Gain(p)' <= Gain(p)
      /\ (Gain(p) - Gain(p)' - 1) * RateUnit <= rate

RoundingBounded == [][RoundingStep]_vars

=============================================================================
