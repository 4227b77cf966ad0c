------------------------ MODULE DeltaNeutralPosition ------------------------
(***************************************************************************)
(* The delta-neutral strategy: delta_neutral_position_manager instantiates *)
(* one contract delta_neutral_position for each position.  The contract    *)
(* shorts a Mirror asset through a CDP of Mirror, holds the same amount of *)
(* the asset itself or in a liquidity farm, and leaves the CDP for Anchor  *)
(* Earn when the CDP is liquidated or has to be given up.                  *)
(*                                                                         *)
(* What the contract holds is the set of the tokens of which it has some;  *)
(* whether its long amount matches the short amount of its CDP is its      *)
(* exposure.  Amounts, prices and the swaps that compute them are left     *)
(* out.  A transaction, with all internal messages it sends, is an action, *)
(* taken by the caller that the code authorises.                           *)
(***************************************************************************)
EXTENDS Integers, Functions

CONSTANTS
  Positions,      \* position keys
  MirrorAssets,   \* Mirror assets, each with a Terraswap pool
  Refunds         \* may Mirror return aUST when it liquidates a whole CDP?

(* Bound that makes the state space finite.                                *)
CONSTANT MaxCdps  \* CDPs opened at Mirror, by anybody

ASSUME RefundsAssumption == Refunds \subseteq BOOLEAN
ASSUME MaxCdpsAssumption == MaxCdps \in Nat

VARIABLES
  openAllowed,    \* POSITION_OPEN_ALLOWED_MIRROR_ASSETS
  preemptClose,   \* SHOULD_PREEMPTIVELY_CLOSE_CDP_MIRROR_ASSETS
  contracts       \* POSITION_TO_CONTRACT_ADDR with each contract's state

(* Mirror.                                                                 *)
VARIABLES
  cdps,           \* the CDPs that exist: index -> owner, asset and lock
  nextPositionIdx,
  fresh,          \* the assets whose oracle price is recent
  delisted        \* the assets that Mirror has delisted

manager == <<openAllowed, preemptClose>>
mirror  == <<cdps, nextPositionIdx, fresh, delisted>>
vars    == <<manager, contracts, mirror>>

Tokens == {"uusd", "aUST", "mAsset", "farm"}
Long   == {"mAsset", "farm"}

NoCdp  == 0          \* CDP_IDX has not been stored
Others == "others"   \* owners of CDPs that are no position contracts

ASSUME OthersAssumption == Others \notin Positions

(* The lock of the uusd that a short sale earned: none, just locked,       *)
(* locked for a while, or ready to be claimed.                             *)
Locks == {"none", "new", "pending", "expired"}

(* How the long amount compares with the short amount.                     *)
Exposures == {"neutral", "long", "short"}

Contract == [mAsset : MirrorAssets, cdpIdx : Nat, closed : BOOLEAN,
             preemptivelyClosed : BOOLEAN, holds : SUBSET Tokens,
             exposure : Exposures, feesCharged : Nat]

Cdp == [owner : Positions \cup {Others}, mAsset : MirrorAssets, lock : Locks]

Without(f, x) == Restrict(f, DOMAIN f \ {x})
With(f, x, y) == [z \in DOMAIN f \cup {x} |-> IF z = x THEN y ELSE f[z]]

Init ==
  /\ openAllowed = {} /\ preemptClose = {}
  /\ contracts = [p \in {} |-> {}]
  /\ cdps = [i \in {} |-> {}] /\ nextPositionIdx = 1
  /\ fresh \in SUBSET MirrorAssets /\ delisted = {}

-----------------------------------------------------------------------------
(* What the contract reads of Mirror and of its manager.                   *)

(* get_mirror_cdp_response succeeds.                                       *)
HasCdp(c) == c.cdpIdx \in DOMAIN cdps

Lock(c) == IF HasCdp(c) THEN cdps[c.cdpIdx].lock ELSE "none"

should_close_cdp(a) == a \in preemptClose \/ a \in delisted

(* Mutant: the pre-emptive closure is not looked at.                       *)
NeverHadCdp(c) == c.cdpIdx = NoCdp

(* All funds are invested in Anchor Earn (close_position).                 *)
CdpInactive(c) == c.cdpIdx = NoCdp \/ c.preemptivelyClosed

(* Mirror lets a CDP be changed only at a recent price, or at the final    *)
(* one of a delisted asset.                                                *)
CdpModifiable(a) == a \in fresh \/ a \in delisted

-----------------------------------------------------------------------------
(* The steps that handlers share.  They take what the contract holds and   *)
(* give what it holds afterwards.                                          *)

(* Mutant: the SPEC tokens claimed are not swapped for uusd.               *)
claim_without_swap(c, rewards) ==
  IF rewards \/ Lock(c) = "expired" THEN c.holds \cup {"SPEC"} ELSE c.holds

(* Rewards, if there are any, and unlocked short sale proceeds.            *)
claim_and_increase_uusd_balance(c, rewards) ==
  IF rewards \/ Lock(c) = "expired" THEN c.holds \cup {"uusd"} ELSE c.holds

(* What trading to neutral can leave of H.  A long position sells the      *)
(* asset, out of the farm too if necessary, unless it is long by less than *)
(* a sale can correct; if the CDP is gone it sells all, but for LP tokens  *)
(* whose share of the pool is no whole mAsset.  A short one buys some,     *)
(* with the uusd of the farm too.                                          *)
achieve_delta_neutral_from_state(c, H) ==
  IF ~HasCdp(c)
  THEN {(H \ Long) \cup {"uusd"} \cup dust : dust \in SUBSET (H \cap {"farm"})}
  ELSE IF c.exposure = "neutral" THEN {H}
  ELSE {K \in SUBSET (H \cup {"uusd", "mAsset"}) :
          IF c.exposure = "long"
          THEN (K = H /\ "farm" \in H) \/ ("uusd" \in K /\ K \cap Long # {})
          ELSE "mAsset" \in K /\ H \cap {"uusd", "farm"} # {}}

achieve_delta_neutral(c) ==
  UNION {achieve_delta_neutral_from_state(c, claim_and_increase_uusd_balance(c, rewards)) :
           rewards \in BOOLEAN}

(* The searches end at "either the neutral state or a slightly net long    *)
(* state" (rebalance.rs:223): a sale gives exactly the former if nothing   *)
(* is left in the farm, a purchase need not.                               *)
SoldExactly(c, K) == c.exposure # "short" /\ "farm" \notin K

TradedExposures(c, K) ==
  IF c.exposure = "neutral" \/ SoldExactly(c, K) THEN {"neutral"}
  ELSE {"neutral", "long"}

(* What closing the CDP can leave of K, if there is one.  The contract     *)
(* burns exactly the short amount, with what it has to take out of the     *)
(* farm for it, and redeems the collateral: the asset and the LP tokens by *)
(* which the position is net long after trading, or by which the farm gave *)
(* too much, stay.                                                         *)
Surplus(c, K) ==
  IF SoldExactly(c, K) THEN {}
  ELSE {"mAsset"} \cup (K \cap {"farm"})

CloseCdpHoldings(c, K) ==
  IF HasCdp(c)
  THEN {(K \ Long) \cup {"uusd"} \cup left : left \in SUBSET Surplus(c, K)}
  ELSE {K}

(* Mutant: the CDP keeps its collateral.                                   *)
keep_cdp(c) == cdps' = cdps

CloseCdp(c) ==
  /\ HasCdp(c) => CdpModifiable(c.mAsset)
  /\ cdps' = Without(cdps, c.cdpIdx)

(* Mutant: the message is not sent.                                        *)
no_deposit(K) == K

(* It fails if there is nothing to deposit.                                *)
deposit_uusd_balance_to_anchor_earn(K) == (K \ {"uusd"}) \cup {"aUST"}

(* The performance fee is charged if the position has gained in value.     *)
FeeCharged(c, gain) == IF gain THEN c.feesCharged + 1 ELSE c.feesCharged

UpdateContract(p, c) == contracts' = [contracts EXCEPT ![p] = c]

-----------------------------------------------------------------------------
(* The manager's handlers.                                                 *)

update_position_open_mirror_asset_list(a, allowed) ==
  /\ openAllowed' = IF allowed THEN openAllowed \cup {a} ELSE openAllowed \ {a}
  /\ UNCHANGED <<preemptClose, contracts, mirror>>

add_should_preemptively_close_cdp_mirror_asset_list(a) ==
  /\ preemptClose' = preemptClose \cup {a}
  /\ UNCHANGED <<openAllowed, contracts, mirror>>

(* The sanity check loads CDP_IDX, which fails if it has not been stored.  *)
open_position_sanity_check(cdpIdx) == cdpIdx # NoCdp

(* Mirror opens a CDP, with its next index and the short sale's proceeds   *)
(* locked, and gives the minted asset, which the contract then buys back.  *)
OpenCdp(owner, a) ==
  /\ nextPositionIdx <= MaxCdps
  /\ cdps' = With(cdps, nextPositionIdx, [owner |-> owner, mAsset |-> a, lock |-> "new"])
  /\ nextPositionIdx' = nextPositionIdx + 1

NewContract(a, cdpIdx, holds) ==
  [mAsset |-> a, cdpIdx |-> cdpIdx, closed |-> FALSE, preemptivelyClosed |-> FALSE,
   holds |-> holds, exposure |-> "neutral", feesCharged |-> 0]

(* open_position at a fresh price: delta_neutral_invest uses all uusd but  *)
(* for a remainder.                                                        *)
OpenOnMarket(p, a, remainder) ==
  /\ a \in fresh /\ a \notin delisted
  /\ open_position_sanity_check(nextPositionIdx)
  /\ contracts' = With(contracts, p, NewContract(a, nextPositionIdx, {"mAsset"} \cup remainder))
  /\ OpenCdp(p, a)
  /\ UNCHANGED <<fresh, delisted>>

(* open_position at a stale price, with allow_off_market_position_open.    *)
OpenOffMarket(p, a) ==
  /\ a \notin fresh
  /\ contracts' = With(contracts, p, NewContract(a, NoCdp, {"aUST"}))
  /\ UNCHANGED mirror

(* The Terra manager opens a position only once, with enough uusd.         *)
open_position(p, a) ==
  /\ p \notin DOMAIN contracts
  /\ a \in openAllowed
  /\ \/ \E remainder \in {{}, {"uusd"}} : OpenOnMarket(p, a, remainder)
     \/ OpenOffMarket(p, a)
  /\ UNCHANGED manager

-----------------------------------------------------------------------------
(* rebalance_and_reinvest, which the controller calls.                     *)

(* Neither closed nor left for Anchor Earn.                                *)
Rebalances(p) ==
  /\ p \in DOMAIN contracts
  /\ ~contracts[p].closed /\ ~contracts[p].preemptivelyClosed

(* What close_cdp_and_deposit_to_anchor_earn makes of the contract, with K *)
(* after trading to neutral.                                               *)
close_cdp_and_deposit_to_anchor_earn(p, K, gain) ==
  LET c == contracts[p] IN
  \E H \in CloseCdpHoldings(c, K) :
    contracts' = [contracts EXCEPT ![p] =
      [c EXCEPT !.preemptivelyClosed = TRUE,
                !.feesCharged = FeeCharged(c, gain),
                !.exposure = "neutral",
                !.holds = deposit_uusd_balance_to_anchor_earn(H)]]

(* Mutant: the price is looked at before the CDP.                          *)
rebalance_liquidated_when_fresh(p, K, gain) ==
  /\ contracts[p].cdpIdx # NoCdp /\ ~HasCdp(contracts[p])
  /\ contracts[p].mAsset \in fresh
  /\ close_cdp_and_deposit_to_anchor_earn(p, K, gain)
  /\ UNCHANGED mirror

(* The CDP is gone: it has been liquidated.                                *)
RebalanceLiquidated(p, K, gain) ==
  /\ contracts[p].cdpIdx # NoCdp /\ ~HasCdp(contracts[p])
  /\ close_cdp_and_deposit_to_anchor_earn(p, K, gain)
  /\ UNCHANGED mirror

(* At a stale price the position is only brought back to neutral; unlocked *)
(* proceeds have been claimed.                                             *)
ClaimedLock(c) ==
  IF Lock(c) = "expired" THEN [cdps EXCEPT ![c.cdpIdx].lock = "none"] ELSE cdps

RebalanceStale(p, K) ==
  /\ HasCdp(contracts[p]) /\ contracts[p].mAsset \notin fresh
  /\ \E e \in TradedExposures(contracts[p], K) :
       contracts' = [contracts EXCEPT ![p].holds = K, ![p].exposure = e]
  /\ cdps' = ClaimedLock(contracts[p])
  /\ UNCHANGED <<nextPositionIdx, fresh, delisted>>

RebalancePreemptiveClosure(p, K, gain) ==
  /\ HasCdp(contracts[p]) /\ contracts[p].mAsset \in fresh
  /\ should_close_cdp(contracts[p].mAsset)
  /\ close_cdp_and_deposit_to_anchor_earn(p, K, gain)
  /\ CloseCdp(contracts[p])
  /\ UNCHANGED <<nextPositionIdx, fresh, delisted>>

(* Mutant: the lock is not looked at.                                      *)
reinvest_whenever_fresh(c) == HasCdp(c)

(* get_reinvest_internal_messages: not while proceeds are locked.          *)
MayReinvest(c) == Lock(c) \in {"none", "expired"}

(* After achieve_safe_collateral_ratios, which burns some of the asset or  *)
(* withdraws collateral, and the pairing of uusd with the asset.           *)
SafeHoldings(c, K) ==
  {H \in SUBSET (K \cup {"uusd", "mAsset", "farm"}) :
     /\ H \cap Long # {}
     /\ "farm" \in H => "farm" \in K \/ MayReinvest(c)}

(* Investing more uusd sells short again, which locks the proceeds anew;   *)
(* what goes into the farm may come out as less.                           *)
RebalanceReinvest(p, K, invests) ==
  LET c == contracts[p] IN
  /\ HasCdp(c) /\ c.mAsset \in fresh
  /\ ~should_close_cdp(c.mAsset)
  /\ invests => MayReinvest(c)
  /\ \E H \in SafeHoldings(c, K), e \in Exposures :
       /\ e = "short" => "farm" \in H
       /\ contracts' = [contracts EXCEPT ![p].holds = H, ![p].exposure = e]
  /\ cdps' = IF invests
             THEN [ClaimedLock(c) EXCEPT ![c.cdpIdx].lock = "new"]
             ELSE ClaimedLock(c)
  /\ UNCHANGED <<nextPositionIdx, fresh, delisted>>

(* Mutant: it is not asked whether the asset should be closed.             *)
rebalance_off_market_unchecked(p, remainder) ==
  LET c == contracts[p] IN
  /\ c.cdpIdx = NoCdp /\ c.mAsset \in fresh
  /\ open_position_sanity_check(c.cdpIdx)
  /\ contracts' = [contracts EXCEPT ![p].holds = {"mAsset"} \cup remainder]
  /\ OpenCdp(p, c.mAsset)
  /\ UNCHANGED <<fresh, delisted>>

(* The position was opened off market.  If its asset should not be closed, *)
(* all aUST is redeemed and invested in a new CDP, whose index this branch *)
(* does not store before it sends OpenPositionSanityCheck.                 *)
RebalanceOffMarket(p, remainder) ==
  LET c     == contracts[p]
      setUp == ~should_close_cdp(c.mAsset)
  IN
  /\ c.cdpIdx = NoCdp /\ c.mAsset \in fresh
  /\ setUp => open_position_sanity_check(c.cdpIdx)
  /\ contracts' = [contracts EXCEPT ![p] =
       IF setUp THEN [c EXCEPT !.holds = {"mAsset"} \cup remainder]
       ELSE [c EXCEPT !.preemptivelyClosed = TRUE]]
  /\ IF setUp THEN OpenCdp(p, c.mAsset) ELSE UNCHANGED <<cdps, nextPositionIdx>>
  /\ UNCHANGED <<fresh, delisted>>

rebalance_and_reinvest(p) ==
  /\ Rebalances(p)
  /\ \/ \E K \in achieve_delta_neutral(contracts[p]), gain \in BOOLEAN :
          \/ RebalanceLiquidated(p, K, gain)
          \/ RebalancePreemptiveClosure(p, K, gain)
     \/ \E K \in achieve_delta_neutral(contracts[p]) :
          \/ RebalanceStale(p, K)
          \/ \E invests \in BOOLEAN : RebalanceReinvest(p, K, invests)
     \/ \E remainder \in {{}, {"uusd"}} : RebalanceOffMarket(p, remainder)
  /\ UNCHANGED manager

-----------------------------------------------------------------------------
(* close_position.                                                         *)

(* All uusd is sent to the recipient.                                      *)
send_uusd_to_recipient(H) == H \ {"uusd"}

(* All aUST is redeemed, which fails if there is none.                     *)
CloseInactive(p) ==
  /\ CdpInactive(contracts[p])
  /\ "aUST" \in contracts[p].holds
  /\ contracts' = [contracts EXCEPT ![p].closed = TRUE,
       ![p].holds = send_uusd_to_recipient((@ \ {"aUST"}) \cup {"uusd"})]
  /\ UNCHANGED mirror

CloseActive(p, K, gain) ==
  LET c == contracts[p] IN
  /\ ~CdpInactive(c)
  /\ \E H \in CloseCdpHoldings(c, K) :
       contracts' = [contracts EXCEPT ![p] =
         [c EXCEPT !.closed = TRUE, !.exposure = "neutral",
                   !.feesCharged = FeeCharged(c, gain),
                   !.holds = send_uusd_to_recipient(H)]]
  /\ CloseCdp(c)
  /\ UNCHANGED <<nextPositionIdx, fresh, delisted>>

close_position(p) ==
  /\ p \in DOMAIN contracts
  /\ ~contracts[p].closed
  /\ \/ CloseInactive(p)
     \/ \E K \in achieve_delta_neutral(contracts[p]), gain \in BOOLEAN :
          CloseActive(p, K, gain)
  /\ UNCHANGED manager

-----------------------------------------------------------------------------
(* The environment: Mirror, its oracle and its liquidators, and the pools. *)

OracleChanges(a) ==
  /\ fresh' = IF a \in fresh THEN fresh \ {a} ELSE fresh \cup {a}
  /\ UNCHANGED <<manager, contracts, cdps, nextPositionIdx, delisted>>

Delist(a) ==
  /\ delisted' = delisted \cup {a}
  /\ UNCHANGED <<manager, contracts, cdps, nextPositionIdx, fresh>>

OthersOpenCdp(a) ==
  /\ OpenCdp(Others, a)
  /\ UNCHANGED <<manager, contracts, fresh, delisted>>

(* Time passes: proceeds come closer to the end of their lock.             *)
LockAges(i) ==
  /\ cdps[i].lock \in {"new", "pending"}
  /\ cdps' = [cdps EXCEPT ![i].lock = IF @ = "new" THEN "pending" ELSE "expired"]
  /\ UNCHANGED <<manager, contracts, nextPositionIdx, fresh, delisted>>

(* A part of the CDP of p is liquidated: there is less short than long.    *)
LiquidatePart(p) ==
  /\ HasCdp(contracts[p])
  /\ contracts' = [contracts EXCEPT ![p].exposure = "long"]
  /\ UNCHANGED <<manager, mirror>>

(* All of it is: Mirror removes the CDP, releases the proceeds to its      *)
(* owner and may return collateral that was not needed.                    *)
LiquidateAll(p, refund) ==
  /\ HasCdp(contracts[p])
  /\ contracts' = [contracts EXCEPT ![p].exposure = "long",
       ![p].holds = @ \cup (IF Lock(contracts[p]) = "none" THEN {} ELSE {"uusd"})
                      \cup (IF refund THEN {"aUST"} ELSE {})]
  /\ cdps' = Without(cdps, contracts[p].cdpIdx)
  /\ UNCHANGED <<manager, nextPositionIdx, fresh, delisted>>

(* Trades of others change the asset in the farm.                          *)
PoolDrifts(p, exposure) ==
  /\ HasCdp(contracts[p]) /\ "farm" \in contracts[p].holds
  /\ contracts' = [contracts EXCEPT ![p].exposure = exposure]
  /\ UNCHANGED <<manager, mirror>>

Environment ==
  \/ \E a \in MirrorAssets : OracleChanges(a) \/ Delist(a) \/ OthersOpenCdp(a)
  \/ \E i \in DOMAIN cdps : LockAges(i)
  \/ \E p \in DOMAIN contracts :
       \/ LiquidatePart(p)
       \/ \E refund \in Refunds : LiquidateAll(p, refund)
       \/ \E exposure \in {"long", "short"} : PoolDrifts(p, exposure)

Next ==
  \/ \E a \in MirrorAssets :
       \/ \E allowed \in BOOLEAN : update_position_open_mirror_asset_list(a, allowed)
       \/ add_should_preemptively_close_cdp_mirror_asset_list(a)
  \/ \E p \in Positions, a \in MirrorAssets : open_position(p, a)
  \/ \E p \in Positions : rebalance_and_reinvest(p)
  \/ \E p \in Positions : close_position(p)
  \/ Environment

Spec == Init /\ [][Next]_vars

(* Position p is asked to rebalance, again and again.                      *)
Asked(p) == WF_vars(rebalance_and_reinvest(p))

(* All are.  This is more than controller.js does: it skips positions at a *)
(* stale price (633), loses a whole batch to one member that fails (345),  *)
(* and ends early if the state of a position is null (680).  It serves to  *)
(* show what does not happen even if every position is asked.              *)
FairSpec == Spec /\ \A p \in Positions : Asked(p)

-----------------------------------------------------------------------------
(* Properties.                                                             *)

(* Type invariant.                                                         *)
TypeOK ==
  /\ openAllowed \subseteq MirrorAssets /\ preemptClose \subseteq MirrorAssets
  /\ DOMAIN contracts \subseteq Positions
  /\ \A p \in DOMAIN contracts : contracts[p] \in Contract
  /\ DOMAIN cdps \subseteq 1 .. MaxCdps
  /\ \A i \in DOMAIN cdps : cdps[i] \in Cdp
  /\ nextPositionIdx \in 1 .. MaxCdps + 1
  /\ fresh \subseteq MirrorAssets /\ delisted \subseteq MirrorAssets

(* Mirror never owes a CDP to a contract that does not act on it: every    *)
(* CDP of a position contract is the one whose index it has stored, and    *)
(* the position is neither closed nor left for Anchor Earn, so rebalancing *)
(* and closing reach its collateral.                                       *)
OwnedCdpsActive ==
  \A i \in DOMAIN cdps :
    LET p == cdps[i].owner IN
    p # Others =>
      /\ p \in DOMAIN contracts
      /\ contracts[p].cdpIdx = i
      /\ ~contracts[p].closed /\ ~contracts[p].preemptivelyClosed

(* close_position of a position whose CDP is not active redeems aUST and   *)
(* looks for nothing else: however the position got there, it has aUST,    *)
(* so that it can be closed, and no uusd that has not been invested.  One  *)
(* whose CDP has not been set up has nothing but aUST.                     *)
InactiveRedeemable ==
  \A p \in DOMAIN contracts :
    LET c == contracts[p] IN
    CdpInactive(c) /\ ~c.closed =>
      /\ "aUST" \in c.holds /\ "uusd" \notin c.holds
      /\ c.cdpIdx = NoCdp => c.holds = {"aUST"}

(* Mirror has liquidated the CDP, and no rebalance has seen that yet.      *)
LiquidatedUnseen(c) == c.cdpIdx # NoCdp /\ ~HasCdp(c) /\ ~c.preemptivelyClosed

(* Whatever happened to a position before, closing it leaves no uusd in    *)
(* the contract and no aUST, but for what Mirror returned of a CDP that it *)
(* has liquidated since the last rebalance.  What can remain besides is    *)
(* the asset by which the position was net long.                           *)
CloseStep ==
  \A p \in DOMAIN contracts :
    ~contracts[p].closed /\ contracts'[p].closed =>
      contracts'[p].holds \subseteq
        Long \cup (IF LiquidatedUnseen(contracts[p]) THEN {"aUST"} ELSE {})

CloseDisburses == [][CloseStep]_vars

(* The performance fee is charged at most once in the life of a position,  *)
(* although both leaving the CDP and closing charge it.                    *)
PerformanceFeeOnce ==
  \A p \in DOMAIN contracts : contracts[p].feesCharged <= 1

(* "If there is still short proceeds pending unlock, we don't reinvest as  *)
(* this could reset the locking period" (contract.rs:175): a lock that has *)
(* begun never starts again before the proceeds have been claimed.         *)
LockStep ==
  \A i \in DOMAIN cdps :
    cdps[i].lock = "pending" /\ i \in DOMAIN cdps' => cdps'[i].lock # "new"

LockNotReset == [][LockStep]_vars

(* A position whose CDP has been liquidated moves to Anchor Earn or is     *)
(* closed, if only it is asked to rebalance again and again, whatever the  *)
(* oracle does: the contract needs no fresh price for that.                *)
LiquidatedMovesToAnchorEarn ==
  \A p \in Positions :
    Asked(p) =>
      ((p \in DOMAIN contracts /\ Rebalances(p)
          /\ contracts[p].cdpIdx # NoCdp /\ ~HasCdp(contracts[p]))
         ~> ~Rebalances(p))

(* If the price of an asset that should be closed stays fresh, a position  *)
(* on it that is asked to rebalance again and again, set up or not, leaves *)
(* the CDP for good or is closed (contract.rs:233 and 255).                *)
ShouldCloseHonoured ==
  \A p \in Positions :
    /\ Asked(p)
    /\ <>[](p \in DOMAIN contracts
            /\ contracts[p].mAsset \in fresh /\ should_close_cdp(contracts[p].mAsset))
    => <>(p \in DOMAIN contracts /\ ~Rebalances(p))

(* "Position was opened when oracle price was stale.  Now that oracle      *)
(* price is fresh, we set up the DN position." (contract.rs:260)           *)
CanSetUp(p) ==
  /\ Rebalances(p) /\ contracts[p].cdpIdx = NoCdp
  /\ contracts[p].mAsset \in fresh /\ ~should_close_cdp(contracts[p].mAsset)
  /\ nextPositionIdx <= MaxCdps

OffMarketSetUp == \A p \in Positions : CanSetUp(p) ~> ~CanSetUp(p)

=============================================================================
