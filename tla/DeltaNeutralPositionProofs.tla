--------------------- MODULE DeltaNeutralPositionProofs ---------------------
(***************************************************************************)
(* Proofs about DeltaNeutralPosition.  The properties of one contract are  *)
(* collected in SoundContract; IndicesLinked relates the contracts to      *)
(* Mirror's CDPs, which the properties need to be inductive: liquidating a *)
(* CDP changes what its owner holds, so the owner has to be the contract   *)
(* that has stored its index.                                              *)
(***************************************************************************)
EXTENDS DeltaNeutralPosition, TLAPS

SoundContract(c) ==
  /\ c \in Contract
  /\ CdpInactive(c) /\ ~c.closed => "aUST" \in c.holds /\ "uusd" \notin c.holds
  /\ c.cdpIdx = NoCdp /\ ~c.closed => c.holds = {"aUST"}
  /\ c.feesCharged <= 1
  /\ ~c.closed /\ ~c.preemptivelyClosed => c.feesCharged = 0

ContractsSound == \A p \in DOMAIN contracts : SoundContract(contracts[p])

(* Indices are used once, and a contract's index is of its own CDP or of a *)
(* former one.                                                             *)
IndicesLinked ==
  /\ \A i \in DOMAIN cdps : i < nextPositionIdx
  /\ \A p \in DOMAIN contracts :
       /\ contracts[p].cdpIdx < nextPositionIdx
       /\ HasCdp(contracts[p]) => cdps[contracts[p].cdpIdx].owner = p

(* As long as the CDP is there, all aUST is in it: what the contract gets  *)
(* of it is redeemed at once.                                              *)
AustInCdps ==
  \A p \in DOMAIN contracts :
    HasCdp(contracts[p]) => "aUST" \notin contracts[p].holds

IInv == TypeOK /\ OwnedCdpsActive /\ ContractsSound /\ IndicesLinked /\ AustInCdps

-----------------------------------------------------------------------------
(* What the steps shared by the handlers make of the holdings.             *)

(* Trading to neutral leaves tokens of the known kinds and gives no aUST.  *)
LEMMA NeutralHoldings ==
  ASSUME NEW c, SoundContract(c), NEW K \in achieve_delta_neutral(c)
  PROVE  /\ K \subseteq Tokens
         /\ "aUST" \in K => "aUST" \in c.holds
<1>1. c.holds \subseteq Tokens
  BY DEF SoundContract, Contract
<1>2. PICK r \in BOOLEAN :
        K \in achieve_delta_neutral_from_state(c, claim_and_increase_uusd_balance(c, r))
  BY DEF achieve_delta_neutral
<1>3. PICK H : H = claim_and_increase_uusd_balance(c, r)
  OBVIOUS
<1>4. H \subseteq Tokens /\ ("aUST" \in H => "aUST" \in c.holds)
  BY <1>1, <1>3 DEF claim_and_increase_uusd_balance, Tokens
<1>5. K \in achieve_delta_neutral_from_state(c, H)
  BY <1>2, <1>3
<1>6. CASE ~HasCdp(c)
  BY <1>4, <1>5, <1>6 DEF achieve_delta_neutral_from_state, Tokens
<1>7. CASE HasCdp(c)
  BY <1>4, <1>5, <1>7 DEF achieve_delta_neutral_from_state, Tokens
<1> QED
  BY <1>6, <1>7

(* Nor does closing the CDP.                                               *)
LEMMA ClosedHoldings ==
  ASSUME NEW c, SoundContract(c), NEW K \in achieve_delta_neutral(c),
         NEW H \in CloseCdpHoldings(c, K)
  PROVE  /\ H \subseteq Tokens
         /\ "aUST" \in H => "aUST" \in c.holds
<1>1. K \subseteq Tokens /\ ("aUST" \in K => "aUST" \in c.holds)
  BY NeutralHoldings
<1>2. \A left \in SUBSET Surplus(c, K) : left \subseteq {"mAsset", "farm"}
  BY DEF Surplus
<1>3. CASE HasCdp(c)
  <2>1. PICK left \in SUBSET Surplus(c, K) : H = (K \ Long) \cup {"uusd"} \cup left
    BY <1>3 DEF CloseCdpHoldings
  <2> QED
    BY <1>1, <1>2, <2>1 DEF Tokens
<1>4. CASE ~HasCdp(c)
  BY <1>1, <1>4 DEF CloseCdpHoldings
<1> QED
  BY <1>3, <1>4

(* A contract with a CDP is active.                                        *)
LEMMA WithCdpActive ==
  ASSUME IInv, NEW p \in DOMAIN contracts, HasCdp(contracts[p])
  PROVE  /\ ~contracts[p].closed /\ ~contracts[p].preemptivelyClosed
         /\ contracts[p].cdpIdx # NoCdp
         /\ p \in Positions /\ cdps[contracts[p].cdpIdx].owner = p
<1>1. p \in Positions /\ contracts[p].cdpIdx \in DOMAIN cdps
  BY DEF IInv, TypeOK, HasCdp
<1>2. cdps[contracts[p].cdpIdx].owner = p
  BY DEF IInv, IndicesLinked
<1>3. contracts[p].cdpIdx \in 1 .. MaxCdps
  BY <1>1 DEF IInv, TypeOK
<1>4. contracts[p].cdpIdx # NoCdp
  BY <1>3, MaxCdpsAssumption DEF NoCdp
<1>5. p # Others
  BY <1>1, OthersAssumption
<1> QED
  BY <1>1, <1>2, <1>4, <1>5 DEF IInv, OwnedCdpsActive

-----------------------------------------------------------------------------
(* The shape of every step on one contract: it leaves the contract sound   *)
(* and its index alone, and takes CDPs away or changes their locks; if the *)
(* contract becomes inactive, its CDP is gone.                             *)

ContractStep(p) ==
  /\ DOMAIN contracts' = DOMAIN contracts
  /\ \A q \in DOMAIN contracts : q # p => contracts'[q] = contracts[q]
  /\ SoundContract(contracts'[p])
  /\ contracts'[p].cdpIdx = contracts[p].cdpIdx

CdpsKept ==
  /\ DOMAIN cdps' \subseteq DOMAIN cdps
  /\ \A i \in DOMAIN cdps' : cdps'[i] \in Cdp /\ cdps'[i].owner = cdps[i].owner

ConfigTyped ==
  /\ openAllowed' \subseteq MirrorAssets /\ preemptClose' \subseteq MirrorAssets
  /\ fresh' \subseteq MirrorAssets /\ delisted' \subseteq MirrorAssets

(* Such a step preserves the invariant.                                    *)
LEMMA ContractStepPreserves ==
  ASSUME IInv, NEW p \in DOMAIN contracts, ContractStep(p), CdpsKept, ConfigTyped,
         nextPositionIdx' = nextPositionIdx,
         contracts[p].cdpIdx \in DOMAIN cdps'
           => /\ ~contracts'[p].closed /\ ~contracts'[p].preemptivelyClosed
              /\ "aUST" \notin contracts'[p].holds
  PROVE  IInv'
<1>1. ContractsSound'
  BY DEF ContractStep, IInv, ContractsSound
<1>2. \A q \in DOMAIN contracts : contracts'[q].cdpIdx = contracts[q].cdpIdx
  BY DEF ContractStep
<1>3. IndicesLinked'
  BY <1>2 DEF ContractStep, CdpsKept, IInv, IndicesLinked, HasCdp
<1>4. OwnedCdpsActive'
  <2> SUFFICES ASSUME NEW i \in DOMAIN cdps', cdps'[i].owner # Others
               PROVE  /\ cdps'[i].owner \in DOMAIN contracts'
                      /\ contracts'[cdps'[i].owner].cdpIdx = i
                      /\ ~contracts'[cdps'[i].owner].closed
                      /\ ~contracts'[cdps'[i].owner].preemptivelyClosed
    BY DEF OwnedCdpsActive
  <2>1. PICK q : q = cdps[i].owner
    OBVIOUS
  <2>2. i \in DOMAIN cdps /\ cdps'[i].owner = q
    BY <2>1 DEF CdpsKept
  <2>3. /\ q \in DOMAIN contracts /\ contracts[q].cdpIdx = i
        /\ ~contracts[q].closed /\ ~contracts[q].preemptivelyClosed
    BY <2>1, <2>2 DEF IInv, OwnedCdpsActive
  <2>4. ~contracts'[q].closed /\ ~contracts'[q].preemptivelyClosed
    <3>1. CASE q = p
      BY <3>1, <2>3
    <3>2. CASE q # p
      BY <3>2, <2>3 DEF ContractStep
    <3> QED
      BY <3>1, <3>2
  <2> QED
    BY <1>2, <2>2, <2>3, <2>4 DEF ContractStep
<1>5. TypeOK'
  <2>1. \A q \in DOMAIN contracts' : contracts'[q] \in Contract
    BY <1>1 DEF ContractsSound, SoundContract
  <2> QED
    BY <2>1 DEF ContractStep, CdpsKept, ConfigTyped, IInv, TypeOK
<1>6. AustInCdps'
  <2> SUFFICES ASSUME NEW q \in DOMAIN contracts', HasCdp(contracts[q])'
               PROVE  "aUST" \notin contracts'[q].holds
    BY DEF AustInCdps
  <2>1. q \in DOMAIN contracts /\ contracts[q].cdpIdx \in DOMAIN cdps'
    BY <1>2 DEF ContractStep, HasCdp
  <2>2. CASE q = p
    BY <2>1, <2>2
  <2>3. CASE q # p
    BY <2>1, <2>3 DEF ContractStep, CdpsKept, IInv, AustInCdps, HasCdp
  <2> QED
    BY <2>2, <2>3
<1> QED
  BY <1>1, <1>3, <1>4, <1>5, <1>6 DEF IInv

(* Closing a CDP takes away the contract's own, if there is one.           *)
LEMMA CloseCdpEffect ==
  ASSUME IInv, NEW p \in DOMAIN contracts, CloseCdp(contracts[p])
  PROVE  CdpsKept /\ contracts[p].cdpIdx \notin DOMAIN cdps'
<1>1. cdps' = [i \in DOMAIN cdps \ {contracts[p].cdpIdx} |-> cdps[i]]
  BY DEF CloseCdp, Without, Restrict
<1> QED
  BY <1>1 DEF CdpsKept, IInv, TypeOK

(* Claiming unlocked proceeds, and locking new ones.                       *)
LEMMA LockEffect ==
  ASSUME IInv, NEW p \in DOMAIN contracts,
         NEW invests \in BOOLEAN,
         cdps' = (IF invests
                  THEN [ClaimedLock(contracts[p]) EXCEPT ![contracts[p].cdpIdx].lock = "new"]
                  ELSE ClaimedLock(contracts[p]))
  PROVE  CdpsKept
<1>1. PICK f : f = ClaimedLock(contracts[p])
  OBVIOUS
<1>2. PICK k : k = contracts[p].cdpIdx
  OBVIOUS
<1>3. /\ DOMAIN f = DOMAIN cdps
      /\ \A i \in DOMAIN cdps : f[i] \in Cdp /\ f[i].owner = cdps[i].owner
  <2>1. f = cdps \/ f = [cdps EXCEPT ![k].lock = "none"]
    BY <1>1, <1>2 DEF ClaimedLock
  <2> QED
    BY <2>1 DEF IInv, TypeOK, Cdp, Locks
<1>4. PICK g : g = [f EXCEPT ![k].lock = "new"]
  OBVIOUS
<1>5. /\ DOMAIN g = DOMAIN cdps
      /\ \A i \in DOMAIN cdps : g[i] \in Cdp /\ g[i].owner = cdps[i].owner
  BY <1>3, <1>4 DEF Cdp, Locks
<1>6. cdps' = f \/ cdps' = g
  BY <1>1, <1>2, <1>4
<1> QED
  BY <1>3, <1>5, <1>6 DEF CdpsKept

-----------------------------------------------------------------------------
(* One lemma for each action.                                              *)

(* What is used of an active contract in the cases of rebalancing.         *)
LEMMA RebalancesActive ==
  ASSUME IInv, NEW p, Rebalances(p)
  PROVE  /\ p \in DOMAIN contracts /\ p \in Positions
         /\ SoundContract(contracts[p])
         /\ ~contracts[p].closed /\ ~contracts[p].preemptivelyClosed
         /\ contracts[p].feesCharged = 0
  BY DEF IInv, Rebalances, ContractsSound, SoundContract, TypeOK

(* Leaving the CDP for Anchor Earn keeps the contract sound.               *)
LEMMA DepositedSound ==
  ASSUME IInv, NEW p, Rebalances(p), contracts[p].cdpIdx # NoCdp,
         NEW K \in achieve_delta_neutral(contracts[p]), NEW gain \in BOOLEAN,
         close_cdp_and_deposit_to_anchor_earn(p, K, gain)
  PROVE  ContractStep(p)
<1>1. PICK c : c = contracts[p]
  OBVIOUS
<1>2. /\ p \in DOMAIN contracts /\ SoundContract(c) /\ c \in Contract
      /\ ~c.closed /\ ~CdpInactive(c) /\ c.feesCharged = 0
  BY <1>1, RebalancesActive DEF CdpInactive, SoundContract
<1>3. PICK H \in CloseCdpHoldings(c, K) :
        contracts' = [contracts EXCEPT ![p] =
          [c EXCEPT !.preemptivelyClosed = TRUE,
                    !.feesCharged = FeeCharged(c, gain),
                    !.exposure = "neutral",
                    !.holds = deposit_uusd_balance_to_anchor_earn(H)]]
  BY <1>1 DEF close_cdp_and_deposit_to_anchor_earn
<1>4. PICK n : n = FeeCharged(c, gain)
  OBVIOUS
<1>5. n \in Nat /\ n <= 1
  BY <1>2, <1>4 DEF FeeCharged
<1>6. PICK D : D = deposit_uusd_balance_to_anchor_earn(H)
  OBVIOUS
<1>7. D \in SUBSET Tokens /\ "aUST" \in D /\ "uusd" \notin D
  <2>1. H \subseteq Tokens
    BY <1>1, <1>2, ClosedHoldings
  <2> QED
    BY <1>6, <2>1 DEF deposit_uusd_balance_to_anchor_earn, Tokens
<1>8. PICK d : d = [c EXCEPT !.preemptivelyClosed = TRUE, !.feesCharged = n,
                             !.exposure = "neutral", !.holds = D]
  OBVIOUS
<1>9. SoundContract(d) /\ d.cdpIdx = c.cdpIdx
  BY <1>1, <1>2, <1>5, <1>7, <1>8
  DEF SoundContract, Contract, Exposures, CdpInactive
<1>10. contracts' = [contracts EXCEPT ![p] = d]
  BY <1>3, <1>4, <1>6, <1>8
<1> QED
  BY <1>1, <1>2, <1>9, <1>10 DEF ContractStep

(* A liquidated position moves to Anchor Earn.                             *)
LEMMA RebalanceLiquidatedPreserves ==
  ASSUME IInv, NEW p, Rebalances(p), NEW K \in achieve_delta_neutral(contracts[p]),
         NEW gain \in BOOLEAN, RebalanceLiquidated(p, K, gain), UNCHANGED manager
  PROVE  IInv'
<1>1. ContractStep(p)
  BY DepositedSound DEF RebalanceLiquidated
<1>2. contracts[p].cdpIdx \notin DOMAIN cdps' /\ UNCHANGED mirror
  BY DEF RebalanceLiquidated, HasCdp, mirror
<1>3. CdpsKept
  BY <1>2 DEF CdpsKept, mirror, IInv, TypeOK
<1>4. ConfigTyped
  BY <1>2 DEF ConfigTyped, mirror, manager, IInv, TypeOK
<1> QED
  BY <1>1, <1>2, <1>3, <1>4, RebalancesActive, ContractStepPreserves DEF mirror

(* So does one whose CDP is closed pre-emptively.                          *)
LEMMA RebalancePreemptiveClosurePreserves ==
  ASSUME IInv, NEW p, Rebalances(p), NEW K \in achieve_delta_neutral(contracts[p]),
         NEW gain \in BOOLEAN, RebalancePreemptiveClosure(p, K, gain), UNCHANGED manager
  PROVE  IInv'
<1>1. p \in DOMAIN contracts
  BY RebalancesActive
<1>2. contracts[p].cdpIdx # NoCdp
  BY <1>1, WithCdpActive DEF RebalancePreemptiveClosure
<1>3. ContractStep(p)
  BY <1>2, DepositedSound DEF RebalancePreemptiveClosure
<1>4. CdpsKept /\ contracts[p].cdpIdx \notin DOMAIN cdps'
  BY <1>1, CloseCdpEffect DEF RebalancePreemptiveClosure
<1>5. ConfigTyped /\ nextPositionIdx' = nextPositionIdx
  BY DEF RebalancePreemptiveClosure, ConfigTyped, manager, IInv, TypeOK
<1> QED
  BY <1>1, <1>3, <1>4, <1>5, ContractStepPreserves

(* A contract that remains active stays sound, whatever it holds.          *)
LEMMA HoldsSound ==
  ASSUME NEW c, SoundContract(c), ~c.closed, ~CdpInactive(c),
         NEW H \in SUBSET Tokens, NEW e \in Exposures
  PROVE  LET d == [c EXCEPT !.holds = H, !.exposure = e]
         IN  SoundContract(d) /\ d.cdpIdx = c.cdpIdx
                /\ ~d.closed /\ ~d.preemptivelyClosed
  BY DEF SoundContract, Contract, CdpInactive

(* Rebalancing at a stale price.                                           *)
LEMMA RebalanceStalePreserves ==
  ASSUME IInv, NEW p, Rebalances(p), NEW K \in achieve_delta_neutral(contracts[p]),
         RebalanceStale(p, K), UNCHANGED manager
  PROVE  IInv'
<1>1. PICK c : c = contracts[p]
  OBVIOUS
<1>2. /\ p \in DOMAIN contracts /\ SoundContract(c) /\ HasCdp(c)
      /\ ~c.closed /\ ~CdpInactive(c)
  BY <1>1, RebalancesActive, WithCdpActive DEF RebalanceStale, CdpInactive
<1>3. K \in SUBSET Tokens /\ "aUST" \notin K
  BY <1>1, <1>2, NeutralHoldings DEF IInv, AustInCdps
<1>4. PICK e \in TradedExposures(c, K) :
        contracts' = [contracts EXCEPT ![p].holds = K, ![p].exposure = e]
  BY <1>1 DEF RebalanceStale
<1>5. PICK d : d = [c EXCEPT !.holds = K, !.exposure = e]
  OBVIOUS
<1>6. e \in Exposures
  BY DEF TradedExposures, Exposures
<1>7. /\ SoundContract(d) /\ d.cdpIdx = c.cdpIdx /\ ~d.closed /\ ~d.preemptivelyClosed
      /\ d.holds = K
  <2>1. c \in Contract
    BY <1>2 DEF SoundContract
  <2>2. d.holds = K
    BY <1>5, <2>1 DEF Contract
  <2> QED
    BY <1>2, <1>3, <1>5, <1>6, <2>2, HoldsSound
<1>8. contracts' = [contracts EXCEPT ![p] = d]
  BY <1>1, <1>2, <1>4, <1>5
<1>9. /\ ContractStep(p) /\ ~contracts'[p].closed /\ ~contracts'[p].preemptivelyClosed
       /\ "aUST" \notin contracts'[p].holds
  BY <1>1, <1>2, <1>3, <1>7, <1>8 DEF ContractStep
<1>10. CdpsKept
  <2>1. cdps' = ClaimedLock(contracts[p])
    BY DEF RebalanceStale
  <2>2. cdps' = (IF FALSE
                 THEN [ClaimedLock(contracts[p]) EXCEPT ![contracts[p].cdpIdx].lock = "new"]
                 ELSE ClaimedLock(contracts[p]))
    BY <2>1
  <2> QED
    BY <1>2, <2>2, LockEffect
<1>11. ConfigTyped /\ nextPositionIdx' = nextPositionIdx
  BY DEF RebalanceStale, ConfigTyped, manager, IInv, TypeOK
<1> QED
  BY <1>2, <1>10, <1>11, <1>9, ContractStepPreserves

(* Rebalancing and reinvesting at a fresh price.                           *)
LEMMA RebalanceReinvestPreserves ==
  ASSUME IInv, NEW p, Rebalances(p), NEW K \in achieve_delta_neutral(contracts[p]),
         NEW invests \in BOOLEAN, RebalanceReinvest(p, K, invests), UNCHANGED manager
  PROVE  IInv'
<1>1. PICK c : c = contracts[p]
  OBVIOUS
<1>2. /\ p \in DOMAIN contracts /\ SoundContract(c) /\ HasCdp(c)
      /\ ~c.closed /\ ~CdpInactive(c)
  BY <1>1, RebalancesActive, WithCdpActive DEF RebalanceReinvest, CdpInactive
<1>3. K \subseteq Tokens /\ "aUST" \notin K
  BY <1>1, <1>2, NeutralHoldings DEF IInv, AustInCdps
<1>4. PICK H \in SafeHoldings(c, K), e \in Exposures :
        contracts' = [contracts EXCEPT ![p].holds = H, ![p].exposure = e]
  BY <1>1 DEF RebalanceReinvest
<1>5. H \in SUBSET Tokens /\ "aUST" \notin H
  BY <1>3 DEF SafeHoldings, Tokens
<1>6. PICK d : d = [c EXCEPT !.holds = H, !.exposure = e]
  OBVIOUS
<1>7. /\ SoundContract(d) /\ d.cdpIdx = c.cdpIdx /\ ~d.closed /\ ~d.preemptivelyClosed
      /\ d.holds = H
  <2>1. c \in Contract
    BY <1>2 DEF SoundContract
  <2>2. d.holds = H
    BY <1>6, <2>1 DEF Contract
  <2> QED
    BY <1>2, <1>5, <1>6, <2>2, HoldsSound
<1>8. contracts' = [contracts EXCEPT ![p] = d]
  BY <1>1, <1>2, <1>4, <1>6
<1>9. /\ ContractStep(p) /\ ~contracts'[p].closed /\ ~contracts'[p].preemptivelyClosed
      /\ "aUST" \notin contracts'[p].holds
  BY <1>1, <1>2, <1>5, <1>7, <1>8 DEF ContractStep
<1>10. CdpsKept
  BY <1>2, LockEffect DEF RebalanceReinvest
<1>11. ConfigTyped /\ nextPositionIdx' = nextPositionIdx
  BY DEF RebalanceReinvest, ConfigTyped, manager, IInv, TypeOK
<1> QED
  BY <1>2, <1>9, <1>10, <1>11, ContractStepPreserves

(* Rebalancing a position opened off market: the sanity check fails unless *)
(* the position is only marked as left for Anchor Earn.                    *)
LEMMA RebalanceOffMarketPreserves ==
  ASSUME IInv, NEW p, Rebalances(p), NEW remainder \in {{}, {"uusd"}},
         RebalanceOffMarket(p, remainder), UNCHANGED manager
  PROVE  IInv'
<1>1. PICK c : c = contracts[p]
  OBVIOUS
<1>2. /\ p \in DOMAIN contracts /\ SoundContract(c) /\ c.feesCharged = 0
      /\ ~c.closed /\ c.cdpIdx = NoCdp
  BY <1>1, RebalancesActive DEF RebalanceOffMarket
<1>3. should_close_cdp(c.mAsset)
  BY <1>1, <1>2 DEF RebalanceOffMarket, open_position_sanity_check
<1>4. PICK d : d = [c EXCEPT !.preemptivelyClosed = TRUE]
  OBVIOUS
<1>5. contracts' = [contracts EXCEPT ![p] = d] /\ UNCHANGED mirror
  BY <1>1, <1>3, <1>4 DEF RebalanceOffMarket, mirror
<1>6. SoundContract(d) /\ d.cdpIdx = NoCdp
  BY <1>2, <1>4 DEF SoundContract, Contract, CdpInactive
<1>7. ContractStep(p)
  BY <1>1, <1>2, <1>5, <1>6 DEF ContractStep
<1>8. contracts[p].cdpIdx \notin DOMAIN cdps'
  BY <1>1, <1>2, <1>5, MaxCdpsAssumption DEF mirror, NoCdp, IInv, TypeOK
<1>9. CdpsKept /\ ConfigTyped
  BY <1>5 DEF CdpsKept, ConfigTyped, manager, mirror, IInv, TypeOK
<1> QED
  BY <1>2, <1>5, <1>7, <1>8, <1>9, ContractStepPreserves DEF mirror

(* Opening a position: the new CDP has an index that nothing refers to.    *)
LEMMA OpenPreserves ==
  ASSUME IInv, NEW p \in Positions, NEW a \in MirrorAssets, open_position(p, a)
  PROVE  IInv'
<1>1. p \notin DOMAIN contracts /\ UNCHANGED manager /\ UNCHANGED <<fresh, delisted>>
  BY DEF open_position, OpenOnMarket, OpenOffMarket, mirror
<1>2. ASSUME NEW idx \in Nat, NEW H \in SUBSET Tokens,
             idx = NoCdp => H = {"aUST"},
             contracts' = With(contracts, p, NewContract(a, idx, H))
      PROVE  /\ DOMAIN contracts' = DOMAIN contracts \cup {p}
             /\ \A q \in DOMAIN contracts : contracts'[q] = contracts[q]
             /\ SoundContract(contracts'[p]) /\ contracts'[p].cdpIdx = idx
             /\ contracts'[p].holds = H
             /\ ~contracts'[p].closed /\ ~contracts'[p].preemptivelyClosed
             /\ ContractsSound' /\ DOMAIN contracts' \subseteq Positions
             /\ \A q \in DOMAIN contracts' : contracts'[q] \in Contract
  <2>1. PICK c : c = NewContract(a, idx, H)
    OBVIOUS
  <2>2. /\ SoundContract(c) /\ c.cdpIdx = idx /\ ~c.closed /\ ~c.preemptivelyClosed
        /\ c.holds = H
    BY <1>2, <2>1
    DEF NewContract, SoundContract, Contract, Exposures, CdpInactive, NoCdp
  <2>3. contracts' = [q \in DOMAIN contracts \cup {p} |-> IF q = p THEN c ELSE contracts[q]]
    BY <1>2, <2>1 DEF With
  <2>4. /\ DOMAIN contracts' = DOMAIN contracts \cup {p} /\ contracts'[p] = c
        /\ \A q \in DOMAIN contracts : contracts'[q] = contracts[q]
    BY <1>1, <2>3
  <2>5. ContractsSound'
    BY <2>2, <2>4 DEF IInv, ContractsSound
  <2> QED
    BY <2>2, <2>4, <2>5 DEF IInv, TypeOK, ContractsSound, SoundContract
<1>3. CASE OpenOffMarket(p, a)
  <2>1. contracts' = With(contracts, p, NewContract(a, NoCdp, {"aUST"})) /\ UNCHANGED mirror
    BY <1>3 DEF OpenOffMarket
  <2>2. /\ DOMAIN contracts' = DOMAIN contracts \cup {p}
        /\ \A q \in DOMAIN contracts : contracts'[q] = contracts[q]
        /\ contracts'[p].cdpIdx = NoCdp
        /\ ContractsSound' /\ DOMAIN contracts' \subseteq Positions
        /\ \A q \in DOMAIN contracts' : contracts'[q] \in Contract
    BY <1>2, <2>1 DEF NoCdp, Tokens
  <2>3. TypeOK'
    BY <1>1, <2>1, <2>2 DEF IInv, TypeOK, manager, mirror
  <2>4. OwnedCdpsActive'
    BY <2>1, <2>2 DEF IInv, OwnedCdpsActive, mirror
  <2>5. IndicesLinked' /\ AustInCdps'
    <3>1. NoCdp \notin DOMAIN cdps /\ NoCdp < nextPositionIdx
      BY MaxCdpsAssumption DEF IInv, TypeOK, NoCdp
    <3> QED
      BY <3>1, <2>1, <2>2 DEF IInv, IndicesLinked, AustInCdps, HasCdp, mirror
  <2> QED
    BY <2>2, <2>3, <2>4, <2>5 DEF IInv
<1>4. ASSUME NEW remainder \in {{}, {"uusd"}}, OpenOnMarket(p, a, remainder)
      PROVE  IInv'
  <2>1. PICK n : n = nextPositionIdx
    OBVIOUS
  <2>2. n \in Nat /\ n # NoCdp /\ n \notin DOMAIN cdps /\ n \in 1 .. MaxCdps
    BY <2>1, <1>4, MaxCdpsAssumption
    DEF OpenOnMarket, OpenCdp, IInv, TypeOK, IndicesLinked, NoCdp
  <2>3. PICK r : r = [owner |-> p, mAsset |-> a, lock |-> "new"]
    OBVIOUS
  <2>4. r \in Cdp /\ r.owner = p
    BY <2>3 DEF Cdp, Locks
  <2>5. /\ cdps' = [i \in DOMAIN cdps \cup {n} |-> IF i = n THEN r ELSE cdps[i]]
        /\ nextPositionIdx' = n + 1
    BY <1>4, <2>1, <2>3 DEF OpenOnMarket, OpenCdp, With
  <2>6. /\ DOMAIN cdps' = DOMAIN cdps \cup {n} /\ cdps'[n] = r
        /\ \A i \in DOMAIN cdps : cdps'[i] = cdps[i]
    BY <2>2, <2>5
  <2>7. /\ DOMAIN contracts' = DOMAIN contracts \cup {p}
        /\ \A q \in DOMAIN contracts : contracts'[q] = contracts[q]
        /\ contracts'[p].cdpIdx = n
        /\ ~contracts'[p].closed /\ ~contracts'[p].preemptivelyClosed
        /\ "aUST" \notin contracts'[p].holds
        /\ ContractsSound' /\ DOMAIN contracts' \subseteq Positions
        /\ \A q \in DOMAIN contracts' : contracts'[q] \in Contract
    <3>1. PICK H : H = {"mAsset"} \cup remainder
      OBVIOUS
    <3>2. contracts' = With(contracts, p, NewContract(a, n, H))
      BY <1>4, <2>1, <3>1 DEF OpenOnMarket
    <3>3. H \in SUBSET Tokens /\ "aUST" \notin H
      BY <1>4, <3>1 DEF Tokens
    <3> QED
      BY <1>2, <2>2, <3>2, <3>3
  <2>8. TypeOK'
    BY <1>1, <2>2, <2>4, <2>5, <2>6, <2>7, MaxCdpsAssumption DEF IInv, TypeOK, manager
  <2>9. OwnedCdpsActive'
    BY <1>1, <2>4, <2>6, <2>7 DEF IInv, OwnedCdpsActive
  <2>10. IndicesLinked'
    <3>1. \A i \in DOMAIN cdps' : i < n + 1
      BY <2>1, <2>2, <2>6, MaxCdpsAssumption DEF IInv, TypeOK, IndicesLinked
    <3>2. ASSUME NEW q \in DOMAIN contracts'
          PROVE  /\ contracts'[q].cdpIdx < n + 1
                 /\ contracts'[q].cdpIdx \in DOMAIN cdps'
                      => cdps'[contracts'[q].cdpIdx].owner = q
      <4>1. CASE q = p
        BY <4>1, <2>2, <2>4, <2>6, <2>7
      <4>2. CASE q # p
        <5>1. q \in DOMAIN contracts /\ contracts'[q] = contracts[q]
          BY <4>2, <2>7
        <5>2. contracts[q].cdpIdx < n /\ contracts[q].cdpIdx \in Nat
          BY <5>1, <2>1 DEF IInv, IndicesLinked, TypeOK, Contract
        <5>3. contracts[q].cdpIdx \in DOMAIN cdps => cdps[contracts[q].cdpIdx].owner = q
          BY <5>1 DEF IInv, IndicesLinked, HasCdp
        <5> QED
          BY <5>1, <5>2, <5>3, <2>2, <2>6
      <4> QED
        BY <4>1, <4>2
    <3> QED
      BY <3>1, <3>2, <2>5 DEF IndicesLinked, HasCdp
  <2>11. AustInCdps'
    <3>1. ASSUME NEW q \in DOMAIN contracts
          PROVE  contracts[q].cdpIdx \in DOMAIN cdps'
                   => "aUST" \notin contracts[q].holds
      <4>1. contracts[q].cdpIdx < n /\ contracts[q].cdpIdx \in Nat
        BY <2>1 DEF IInv, IndicesLinked, TypeOK, Contract
      <4> QED
        BY <4>1, <2>2, <2>6 DEF IInv, AustInCdps, HasCdp
    <3> QED
      BY <3>1, <2>7 DEF AustInCdps, HasCdp
  <2> QED
    BY <2>7, <2>8, <2>9, <2>10, <2>11 DEF IInv
<1> QED
  BY <1>3, <1>4 DEF open_position

(* Closing a position.                                                     *)
LEMMA ClosePreserves ==
  ASSUME IInv, NEW p \in Positions, close_position(p)
  PROVE  IInv'
<1>1. PICK c : c = contracts[p]
  OBVIOUS
<1>2. /\ p \in DOMAIN contracts /\ SoundContract(c) /\ c \in Contract
      /\ ~c.closed /\ UNCHANGED manager
  BY <1>1 DEF close_position, IInv, ContractsSound, SoundContract
<1>3. CASE CloseInactive(p)
  <2>1. CdpInactive(c) /\ UNCHANGED mirror
    BY <1>1, <1>3 DEF CloseInactive
  <2>2. PICK H : H = send_uusd_to_recipient((c.holds \ {"aUST"}) \cup {"uusd"})
    OBVIOUS
  <2>3. PICK d : d = [c EXCEPT !.closed = TRUE, !.holds = H]
    OBVIOUS
  <2>4. SoundContract(d) /\ d.cdpIdx = c.cdpIdx
    <3>1. H \in SUBSET Tokens
      BY <1>2, <2>2 DEF send_uusd_to_recipient, Contract
    <3> QED
      BY <1>2, <2>3, <3>1 DEF SoundContract, Contract
  <2>5. contracts' = [contracts EXCEPT ![p] = d]
    BY <1>1, <1>2, <1>3, <2>2, <2>3 DEF CloseInactive
  <2>6. ContractStep(p)
    BY <1>1, <1>2, <2>4, <2>5 DEF ContractStep
  <2>7. c.cdpIdx \notin DOMAIN cdps
    <3>1. CASE c.cdpIdx = NoCdp
      BY <3>1, MaxCdpsAssumption DEF NoCdp, IInv, TypeOK
    <3>2. CASE c.preemptivelyClosed
      BY <1>1, <1>2, <3>2, WithCdpActive DEF HasCdp
    <3> QED
      BY <2>1, <3>1, <3>2 DEF CdpInactive
  <2>8. CdpsKept /\ ConfigTyped
    BY <1>2, <2>1 DEF CdpsKept, ConfigTyped, manager, mirror, IInv, TypeOK
  <2> QED
    BY <1>1, <1>2, <2>1, <2>6, <2>7, <2>8, ContractStepPreserves DEF mirror
<1>4. ASSUME NEW K \in achieve_delta_neutral(c), NEW gain \in BOOLEAN,
             CloseActive(p, K, gain)
      PROVE  IInv'
  <2>1. ~CdpInactive(c) /\ c.feesCharged = 0
    BY <1>1, <1>2, <1>4 DEF CloseActive, SoundContract, CdpInactive
  <2>2. PICK G \in CloseCdpHoldings(c, K) :
          contracts' = [contracts EXCEPT ![p] =
            [c EXCEPT !.closed = TRUE, !.exposure = "neutral",
                      !.feesCharged = FeeCharged(c, gain),
                      !.holds = send_uusd_to_recipient(G)]]
    BY <1>1, <1>4 DEF CloseActive
  <2>3. PICK H : H = send_uusd_to_recipient(G)
    OBVIOUS
  <2>4. H \in SUBSET Tokens
    BY <1>2, <2>3, ClosedHoldings DEF send_uusd_to_recipient
  <2>5. PICK n : n = FeeCharged(c, gain)
    OBVIOUS
  <2>6. n \in Nat /\ n <= 1
    BY <2>1, <2>5 DEF FeeCharged
  <2>7. PICK d : d = [c EXCEPT !.closed = TRUE, !.exposure = "neutral",
                               !.feesCharged = n, !.holds = H]
    OBVIOUS
  <2>8. contracts' = [contracts EXCEPT ![p] = d]
    BY <2>2, <2>5, <2>7, <2>3
  <2>9. SoundContract(d) /\ d.cdpIdx = c.cdpIdx
    BY <1>2, <2>4, <2>6, <2>7 DEF SoundContract, Contract, Exposures
  <2>10. ContractStep(p)
    BY <1>1, <1>2, <2>8, <2>9 DEF ContractStep
  <2>11. CdpsKept /\ contracts[p].cdpIdx \notin DOMAIN cdps'
    BY <1>1, <1>2, <1>4, CloseCdpEffect DEF CloseActive
  <2>12. ConfigTyped /\ nextPositionIdx' = nextPositionIdx
    BY <1>2, <1>4 DEF CloseActive, ConfigTyped, manager, IInv, TypeOK
  <2> QED
    BY <1>2, <2>10, <2>11, <2>12, ContractStepPreserves
<1> QED
  BY <1>1, <1>3, <1>4 DEF close_position

(* A step that leaves contracts and CDPs alone.                            *)
LEMMA ConfigPreserves ==
  ASSUME IInv, ConfigTyped, UNCHANGED <<contracts, cdps, nextPositionIdx>>
  PROVE  IInv'
<1>1. ContractsSound' /\ IndicesLinked' /\ OwnedCdpsActive' /\ AustInCdps'
  BY DEF IInv, ContractsSound, IndicesLinked, OwnedCdpsActive, AustInCdps, HasCdp
<1>2. TypeOK'
  BY DEF ConfigTyped, IInv, TypeOK
<1> QED
  BY <1>1, <1>2 DEF IInv

(* The controller's request, in all cases.                                 *)
LEMMA RebalancePreserves ==
  ASSUME IInv, NEW p \in Positions, rebalance_and_reinvest(p)
  PROVE  IInv'
<1>1. Rebalances(p) /\ UNCHANGED manager
  BY DEF rebalance_and_reinvest
<1>2. ASSUME NEW K \in achieve_delta_neutral(contracts[p]), NEW gain \in BOOLEAN,
             RebalanceLiquidated(p, K, gain) \/ RebalancePreemptiveClosure(p, K, gain)
      PROVE  IInv'
  BY <1>1, <1>2, RebalanceLiquidatedPreserves, RebalancePreemptiveClosurePreserves
<1>3. ASSUME NEW K \in achieve_delta_neutral(contracts[p]), RebalanceStale(p, K)
      PROVE  IInv'
  BY <1>1, <1>3, RebalanceStalePreserves
<1>4. ASSUME NEW K \in achieve_delta_neutral(contracts[p]), NEW invests \in BOOLEAN,
             RebalanceReinvest(p, K, invests)
      PROVE  IInv'
  BY <1>1, <1>4, RebalanceReinvestPreserves
<1>5. ASSUME NEW remainder \in {{}, {"uusd"}}, RebalanceOffMarket(p, remainder)
      PROVE  IInv'
  BY <1>1, <1>5, RebalanceOffMarketPreserves
<1> QED
  BY <1>2, <1>3, <1>4, <1>5 DEF rebalance_and_reinvest

(* A contract whose CDP is disturbed from outside.                         *)
LEMMA DisturbedPreserves ==
  ASSUME IInv, NEW p \in DOMAIN contracts, HasCdp(contracts[p]),
         NEW H \in SUBSET Tokens, NEW e \in Exposures,
         contracts[p].cdpIdx \in DOMAIN cdps' => "aUST" \notin H,
         contracts' = [contracts EXCEPT ![p] = [contracts[p] EXCEPT !.holds = H, !.exposure = e]],
         CdpsKept, ConfigTyped, nextPositionIdx' = nextPositionIdx
  PROVE  IInv'
<1>1. PICK c : c = contracts[p]
  OBVIOUS
<1>2. SoundContract(c) /\ ~c.closed /\ ~c.preemptivelyClosed /\ c.cdpIdx # NoCdp
  BY <1>1, WithCdpActive DEF IInv, ContractsSound
<1>3. ~CdpInactive(c) /\ c \in Contract
  BY <1>2 DEF CdpInactive, SoundContract
<1>4. PICK d : d = [c EXCEPT !.holds = H, !.exposure = e]
  OBVIOUS
<1>5. /\ SoundContract(d) /\ d.cdpIdx = c.cdpIdx /\ ~d.closed /\ ~d.preemptivelyClosed
      /\ d.holds = H
  <2>1. d.holds = H
    BY <1>3, <1>4 DEF Contract
  <2> QED
    BY <1>2, <1>3, <1>4, <2>1, HoldsSound
<1>6. contracts' = [contracts EXCEPT ![p] = d]
  BY <1>1, <1>4
<1>7. /\ ContractStep(p) /\ ~contracts'[p].closed /\ ~contracts'[p].preemptivelyClosed
      /\ contracts'[p].holds = H
  BY <1>1, <1>5, <1>6 DEF ContractStep
<1> QED
  BY <1>7, ContractStepPreserves

(* What Mirror, its oracle, its liquidators and the pools do.              *)
LEMMA EnvironmentPreserves ==
  ASSUME IInv, Environment
  PROVE  IInv'
<1>1. ASSUME NEW a \in MirrorAssets, OracleChanges(a) \/ Delist(a)
      PROVE  IInv'
  <2>1. ConfigTyped /\ UNCHANGED <<contracts, cdps, nextPositionIdx>>
    BY <1>1 DEF OracleChanges, Delist, ConfigTyped, manager, IInv, TypeOK
  <2> QED
    BY <2>1, ConfigPreserves
<1>2. ASSUME NEW a \in MirrorAssets, OthersOpenCdp(a)
      PROVE  IInv'
  <2>1. PICK n : n = nextPositionIdx
    OBVIOUS
  <2>2. n \in Nat /\ n \notin DOMAIN cdps /\ n \in 1 .. MaxCdps
    BY <2>1, <1>2, MaxCdpsAssumption
    DEF OthersOpenCdp, OpenCdp, IInv, TypeOK, IndicesLinked
  <2>3. PICK r : r = [owner |-> Others, mAsset |-> a, lock |-> "new"]
    OBVIOUS
  <2>4. r \in Cdp /\ r.owner = Others
    BY <2>3 DEF Cdp, Locks
  <2>5. /\ cdps' = [i \in DOMAIN cdps \cup {n} |-> IF i = n THEN r ELSE cdps[i]]
        /\ nextPositionIdx' = n + 1 /\ UNCHANGED <<manager, contracts, fresh, delisted>>
    BY <1>2, <2>1, <2>3 DEF OthersOpenCdp, OpenCdp, With
  <2>6. /\ DOMAIN cdps' = DOMAIN cdps \cup {n} /\ cdps'[n] = r
        /\ \A i \in DOMAIN cdps : cdps'[i] = cdps[i]
    BY <2>2, <2>5
  <2>7. TypeOK'
    BY <2>2, <2>4, <2>5, <2>6, MaxCdpsAssumption DEF IInv, TypeOK, manager
  <2>8. OwnedCdpsActive'
    BY <2>4, <2>5, <2>6 DEF IInv, OwnedCdpsActive
  <2>9. IndicesLinked'
    <3>1. \A i \in DOMAIN cdps' : i < n + 1
      BY <2>1, <2>2, <2>6, MaxCdpsAssumption DEF IInv, TypeOK, IndicesLinked
    <3>2. ASSUME NEW q \in DOMAIN contracts
          PROVE  /\ contracts[q].cdpIdx < n + 1
                 /\ contracts[q].cdpIdx \in DOMAIN cdps'
                      => cdps'[contracts[q].cdpIdx].owner = q
      <4>1. contracts[q].cdpIdx < n /\ contracts[q].cdpIdx \in Nat
        BY <2>1 DEF IInv, IndicesLinked, TypeOK, Contract
      <4>2. contracts[q].cdpIdx \in DOMAIN cdps => cdps[contracts[q].cdpIdx].owner = q
        BY DEF IInv, IndicesLinked, HasCdp
      <4> QED
        BY <4>1, <4>2, <2>2, <2>6
    <3> QED
      BY <3>1, <3>2, <2>5 DEF IndicesLinked, HasCdp
  <2>10. ContractsSound'
    BY <2>5 DEF IInv, ContractsSound
  <2>11. AustInCdps'
    <3>1. ASSUME NEW q \in DOMAIN contracts
          PROVE  contracts[q].cdpIdx \in DOMAIN cdps'
                   => "aUST" \notin contracts[q].holds
      <4>1. contracts[q].cdpIdx < n /\ contracts[q].cdpIdx \in Nat
        BY <2>1 DEF IInv, IndicesLinked, TypeOK, Contract
      <4> QED
        BY <4>1, <2>2, <2>6 DEF IInv, AustInCdps, HasCdp
    <3> QED
      BY <3>1, <2>5 DEF AustInCdps, HasCdp
  <2> QED
    BY <2>7, <2>8, <2>9, <2>10, <2>11 DEF IInv
<1>3. ASSUME NEW i \in DOMAIN cdps, LockAges(i)
      PROVE  IInv'
  <2>1. UNCHANGED <<manager, contracts, nextPositionIdx, fresh, delisted>>
    BY <1>3 DEF LockAges
  <2>2. CdpsKept /\ DOMAIN cdps' = DOMAIN cdps
    BY <1>3 DEF LockAges, CdpsKept, IInv, TypeOK, Cdp, Locks
  <2>3. TypeOK'
    BY <2>1, <2>2 DEF CdpsKept, IInv, TypeOK, manager
  <2>4. OwnedCdpsActive'
    BY <2>1, <2>2 DEF CdpsKept, IInv, OwnedCdpsActive
  <2>5. IndicesLinked' /\ ContractsSound' /\ AustInCdps'
    BY <2>1, <2>2 DEF CdpsKept, IInv, IndicesLinked, ContractsSound, AustInCdps, HasCdp
  <2> QED
    BY <2>3, <2>4, <2>5 DEF IInv
<1>4. ASSUME NEW p \in DOMAIN contracts, NEW e \in {"long", "short"},
             LiquidatePart(p) \/ PoolDrifts(p, e)
      PROVE  IInv'
  <2>1. PICK f \in {"long", "short"} : contracts' = [contracts EXCEPT ![p].exposure = f]
    BY <1>4 DEF LiquidatePart, PoolDrifts
  <2>2. contracts[p] \in Contract
    BY DEF IInv, TypeOK
  <2>3. contracts[p].holds \in SUBSET Tokens /\ f \in Exposures
    BY <2>2 DEF Contract, Exposures
  <2>4. contracts' = [contracts EXCEPT ![p] =
          [contracts[p] EXCEPT !.holds = contracts[p].holds, !.exposure = f]]
    BY <2>1, <2>2 DEF Contract
  <2>5. HasCdp(contracts[p]) /\ UNCHANGED <<manager, mirror>>
    BY <1>4 DEF LiquidatePart, PoolDrifts
  <2>6. CdpsKept /\ ConfigTyped /\ nextPositionIdx' = nextPositionIdx
    BY <2>5 DEF CdpsKept, ConfigTyped, manager, mirror, IInv, TypeOK
  <2>7. "aUST" \notin contracts[p].holds
    BY <2>5 DEF IInv, AustInCdps
  <2> QED
    BY <2>3, <2>4, <2>5, <2>6, <2>7, DisturbedPreserves
<1>5. ASSUME NEW p \in DOMAIN contracts, NEW refund \in Refunds, LiquidateAll(p, refund)
      PROVE  IInv'
  <2>1. PICK H : H = contracts[p].holds
                       \cup (IF Lock(contracts[p]) = "none" THEN {} ELSE {"uusd"})
                       \cup (IF refund THEN {"aUST"} ELSE {})
    OBVIOUS
  <2>2. contracts[p] \in Contract
    BY DEF IInv, TypeOK
  <2>3. H \in SUBSET Tokens /\ "long" \in Exposures
    BY <2>1, <2>2 DEF Contract, Tokens, Exposures
  <2>4. contracts' = [contracts EXCEPT ![p] =
          [contracts[p] EXCEPT !.holds = H, !.exposure = "long"]]
    <3>1. contracts' = [contracts EXCEPT ![p].exposure = "long",
            ![p].holds = @ \cup (IF Lock(contracts[p]) = "none" THEN {} ELSE {"uusd"})
                           \cup (IF refund THEN {"aUST"} ELSE {})]
      BY <1>5 DEF LiquidateAll
    <3> QED
      BY <2>1, <2>2, <3>1 DEF Contract
  <2>5. CdpsKept /\ contracts[p].cdpIdx \notin DOMAIN cdps'
    <3>1. cdps' = [i \in DOMAIN cdps \ {contracts[p].cdpIdx} |-> cdps[i]]
      BY <1>5 DEF LiquidateAll, Without, Restrict
    <3> QED
      BY <3>1 DEF CdpsKept, IInv, TypeOK
  <2>6. HasCdp(contracts[p]) /\ ConfigTyped /\ nextPositionIdx' = nextPositionIdx
    BY <1>5 DEF LiquidateAll, ConfigTyped, manager, IInv, TypeOK
  <2> QED
    BY <2>3, <2>4, <2>5, <2>6, DisturbedPreserves
<1>6. CASE \E a \in MirrorAssets : OracleChanges(a) \/ Delist(a) \/ OthersOpenCdp(a)
  BY <1>1, <1>2, <1>6
<1>7. CASE \E i \in DOMAIN cdps : LockAges(i)
  BY <1>3, <1>7
<1>8. CASE \E p \in DOMAIN contracts :
             \/ LiquidatePart(p)
             \/ \E refund \in Refunds : LiquidateAll(p, refund)
             \/ \E exposure \in {"long", "short"} : PoolDrifts(p, exposure)
  <2>1. PICK p \in DOMAIN contracts :
             \/ LiquidatePart(p)
             \/ \E refund \in Refunds : LiquidateAll(p, refund)
             \/ \E exposure \in {"long", "short"} : PoolDrifts(p, exposure)
    BY <1>8
  <2>2. CASE LiquidatePart(p)
    BY <1>4, <2>2
  <2>3. CASE \E refund \in Refunds : LiquidateAll(p, refund)
    BY <1>5, <2>3
  <2>4. CASE \E exposure \in {"long", "short"} : PoolDrifts(p, exposure)
    BY <1>4, <2>4
  <2> QED
    BY <2>1, <2>2, <2>3, <2>4
<1> QED
  BY <1>6, <1>7, <1>8 DEF Environment

-----------------------------------------------------------------------------
(* What closing leaves.                                                    *)

(* Rebalancing closes no position.                                         *)
LEMMA RebalanceKeepsOpen ==
  ASSUME IInv, NEW q, rebalance_and_reinvest(q), NEW p \in DOMAIN contracts
  PROVE  contracts'[p].closed = contracts[p].closed
<1>1. PICK c : c = contracts[q]
  OBVIOUS
<1>2. q \in DOMAIN contracts /\ c \in Contract
  BY <1>1 DEF rebalance_and_reinvest, Rebalances, IInv, TypeOK
<1>3. ASSUME NEW d, contracts' = [contracts EXCEPT ![q] = d], d.closed = c.closed
      PROVE  contracts'[p].closed = contracts[p].closed
  BY <1>1, <1>2, <1>3
<1>4. ASSUME NEW K, NEW gain, RebalanceLiquidated(q, K, gain)
                                \/ RebalancePreemptiveClosure(q, K, gain)
      PROVE  contracts'[p].closed = contracts[p].closed
  <2>1. PICK H \in CloseCdpHoldings(c, K) :
          contracts' = [contracts EXCEPT ![q] =
            [c EXCEPT !.preemptivelyClosed = TRUE,
                      !.feesCharged = FeeCharged(c, gain),
                      !.exposure = "neutral",
                      !.holds = deposit_uusd_balance_to_anchor_earn(H)]]
    BY <1>1, <1>4
    DEF RebalanceLiquidated, RebalancePreemptiveClosure, close_cdp_and_deposit_to_anchor_earn
  <2>2. PICK d : d = [c EXCEPT !.preemptivelyClosed = TRUE,
                               !.feesCharged = FeeCharged(c, gain),
                               !.exposure = "neutral",
                               !.holds = deposit_uusd_balance_to_anchor_earn(H)]
    OBVIOUS
  <2>3. d.closed = c.closed
    BY <1>2, <2>2 DEF Contract
  <2> QED
    BY <1>3, <2>1, <2>2, <2>3
<1>5. ASSUME NEW H, NEW e,
             contracts' = [contracts EXCEPT ![q].holds = H, ![q].exposure = e]
      PROVE  contracts'[p].closed = contracts[p].closed
  <2>1. PICK d : d = [c EXCEPT !.holds = H, !.exposure = e]
    OBVIOUS
  <2>2. contracts' = [contracts EXCEPT ![q] = d]
    BY <1>1, <1>2, <1>5, <2>1
  <2>3. d.closed = c.closed
    BY <1>2, <2>1 DEF Contract
  <2> QED
    BY <1>3, <2>2, <2>3
<1>6. ASSUME NEW K, RebalanceStale(q, K)
      PROVE  contracts'[p].closed = contracts[p].closed
  BY <1>5, <1>6 DEF RebalanceStale
<1>7. ASSUME NEW K, NEW invests, RebalanceReinvest(q, K, invests)
      PROVE  contracts'[p].closed = contracts[p].closed
  BY <1>5, <1>7 DEF RebalanceReinvest
<1>8. ASSUME NEW remainder, RebalanceOffMarket(q, remainder)
      PROVE  contracts'[p].closed = contracts[p].closed
  <2>1. PICK d : d = IF ~should_close_cdp(c.mAsset)
                     THEN [c EXCEPT !.holds = {"mAsset"} \cup remainder]
                     ELSE [c EXCEPT !.preemptivelyClosed = TRUE]
    OBVIOUS
  <2>2. contracts' = [contracts EXCEPT ![q] = d]
    BY <1>1, <1>8, <2>1 DEF RebalanceOffMarket
  <2>3. d.closed = c.closed
    BY <1>2, <2>1 DEF Contract
  <2> QED
    BY <1>3, <2>2, <2>3
<1> QED
  BY <1>4, <1>6, <1>7, <1>8 DEF rebalance_and_reinvest

(* Only close_position closes one.                                         *)
LEMMA ClosedByClosing ==
  ASSUME IInv, Next, NEW p \in DOMAIN contracts,
         ~contracts[p].closed, contracts'[p].closed
  PROVE  close_position(p)
<1>1. \A q \in DOMAIN contracts : contracts[q] \in Contract
  BY DEF IInv, TypeOK
<1>2. ASSUME NEW q \in Positions, NEW a \in MirrorAssets, open_position(q, a)
      PROVE  contracts'[p] = contracts[p]
  BY <1>2 DEF open_position, OpenOnMarket, OpenOffMarket, With
<1>3. ASSUME NEW q \in Positions, close_position(q), q # p
      PROVE  contracts'[p] = contracts[p]
  BY <1>3 DEF close_position, CloseInactive, CloseActive
<1>4. ASSUME Environment
      PROVE  contracts'[p].closed = contracts[p].closed
  <2>1. CASE UNCHANGED contracts
    BY <2>1
  <2>2. ASSUME NEW q \in DOMAIN contracts, NEW H, NEW e,
               \/ contracts' = [contracts EXCEPT ![q].exposure = e]
               \/ contracts' = [contracts EXCEPT ![q].exposure = e, ![q].holds = H]
        PROVE  contracts'[p].closed = contracts[p].closed
    <3>1. contracts[q] \in Contract
      BY <1>1
    <3> QED
      BY <2>2, <3>1 DEF Contract
  <2>3. ASSUME NEW q \in DOMAIN contracts, NEW e, LiquidatePart(q) \/ PoolDrifts(q, e)
        PROVE  contracts'[p].closed = contracts[p].closed
    BY <2>2, <2>3 DEF LiquidatePart, PoolDrifts
  <2>4. ASSUME NEW q \in DOMAIN contracts, NEW refund, LiquidateAll(q, refund)
        PROVE  contracts'[p].closed = contracts[p].closed
    <3>1. PICK H : H = contracts[q].holds
                         \cup (IF Lock(contracts[q]) = "none" THEN {} ELSE {"uusd"})
                         \cup (IF refund THEN {"aUST"} ELSE {})
      OBVIOUS
    <3>2. contracts' = [contracts EXCEPT ![q].exposure = "long", ![q].holds = H]
      <4>1. contracts[q] \in Contract
        BY <1>1
      <4> QED
        BY <2>4, <3>1, <4>1 DEF LiquidateAll, Contract
    <3> QED
      BY <2>2, <3>2
  <2> QED
    BY <1>4, <2>1, <2>3, <2>4
    DEF Environment, OracleChanges, Delist, OthersOpenCdp, LockAges
<1>5. ASSUME NEW a, NEW allowed,
             \/ update_position_open_mirror_asset_list(a, allowed)
             \/ add_should_preemptively_close_cdp_mirror_asset_list(a)
      PROVE  contracts'[p] = contracts[p]
  BY <1>5 DEF update_position_open_mirror_asset_list,
              add_should_preemptively_close_cdp_mirror_asset_list
<1>6. ASSUME NEW q \in Positions, rebalance_and_reinvest(q)
      PROVE  contracts'[p].closed = contracts[p].closed
  BY <1>6, RebalanceKeepsOpen
<1> QED
  BY <1>2, <1>3, <1>4, <1>5, <1>6 DEF Next

(* It leaves aUST only if a liquidation has gone unnoticed.                *)
LEMMA CloseLeaves ==
  ASSUME IInv, NEW p \in DOMAIN contracts, close_position(p)
  PROVE  contracts'[p].holds \subseteq
           Long \cup (IF LiquidatedUnseen(contracts[p]) THEN {"aUST"} ELSE {})
<1>1. PICK c : c = contracts[p]
  OBVIOUS
<1>2. SoundContract(c) /\ c \in Contract /\ c.holds \subseteq Tokens
  BY <1>1 DEF IInv, ContractsSound, SoundContract, Contract
<1>3. CASE CloseInactive(p)
  <2>1. PICK H : H = send_uusd_to_recipient((c.holds \ {"aUST"}) \cup {"uusd"})
    OBVIOUS
  <2>2. contracts'[p].holds = H
    BY <1>1, <1>2, <1>3, <2>1 DEF CloseInactive, Contract
  <2>3. H \subseteq Long
    BY <1>2, <2>1 DEF send_uusd_to_recipient, Tokens, Long
  <2> QED
    BY <2>2, <2>3
<1>4. ASSUME NEW K \in achieve_delta_neutral(c), NEW gain \in BOOLEAN,
             CloseActive(p, K, gain)
      PROVE  contracts'[p].holds \subseteq
               Long \cup (IF LiquidatedUnseen(contracts[p]) THEN {"aUST"} ELSE {})
  <2>1. PICK G \in CloseCdpHoldings(c, K) :
          contracts' = [contracts EXCEPT ![p] =
            [c EXCEPT !.closed = TRUE, !.exposure = "neutral",
                      !.feesCharged = FeeCharged(c, gain),
                      !.holds = send_uusd_to_recipient(G)]]
    BY <1>1, <1>4 DEF CloseActive
  <2>2. contracts'[p].holds = send_uusd_to_recipient(G)
    BY <1>1, <1>2, <2>1 DEF Contract
  <2>3. G \subseteq Tokens /\ ("aUST" \in G => "aUST" \in c.holds)
    BY <1>2, ClosedHoldings
  <2>4. ~LiquidatedUnseen(c) => "aUST" \notin c.holds
    <3>1. ~CdpInactive(c)
      BY <1>1, <1>4 DEF CloseActive
    <3>2. ~LiquidatedUnseen(c) => HasCdp(c)
      BY <3>1 DEF LiquidatedUnseen, CdpInactive
    <3> QED
      BY <1>1, <3>2 DEF IInv, AustInCdps
  <2> QED
    BY <1>1, <2>2, <2>3, <2>4 DEF send_uusd_to_recipient, Tokens, Long
<1> QED
  BY <1>1, <1>3, <1>4 DEF close_position

-----------------------------------------------------------------------------
(* The theorems.                                                           *)

(* The inductive invariant.                                                *)
THEOREM Invariance == Spec => []IInv
<1>1. Init => IInv
  BY MaxCdpsAssumption
  DEF Init, IInv, TypeOK, OwnedCdpsActive, ContractsSound, IndicesLinked, AustInCdps
<1>2. IInv /\ [Next]_vars => IInv'
  <2> SUFFICES ASSUME IInv, [Next]_vars PROVE IInv'
    OBVIOUS
  <2>1. CASE \E a \in MirrorAssets :
               \/ \E allowed \in BOOLEAN : update_position_open_mirror_asset_list(a, allowed)
               \/ add_should_preemptively_close_cdp_mirror_asset_list(a)
    <3>1. ConfigTyped /\ UNCHANGED <<contracts, cdps, nextPositionIdx>>
      BY <2>1 DEF update_position_open_mirror_asset_list,
                  add_should_preemptively_close_cdp_mirror_asset_list,
                  ConfigTyped, mirror, IInv, TypeOK
    <3> QED
      BY <3>1, ConfigPreserves
  <2>2. CASE \E p \in Positions, a \in MirrorAssets : open_position(p, a)
    BY <2>2, OpenPreserves
  <2>3. CASE \E p \in Positions : rebalance_and_reinvest(p)
    BY <2>3, RebalancePreserves
  <2>4. CASE \E p \in Positions : close_position(p)
    BY <2>4, ClosePreserves
  <2>5. CASE Environment
    BY <2>5, EnvironmentPreserves
  <2>6. CASE UNCHANGED vars
    <3>1. ConfigTyped /\ UNCHANGED <<contracts, cdps, nextPositionIdx>>
      BY <2>6 DEF vars, manager, mirror, ConfigTyped, IInv, TypeOK
    <3> QED
      BY <3>1, ConfigPreserves
  <2> QED
    BY <2>1, <2>2, <2>3, <2>4, <2>5, <2>6 DEF Next
<1> QED
  BY <1>1, <1>2, PTL DEF Spec

(* The storage of the contracts and of Mirror is well typed.               *)
THEOREM TypeCorrect == Spec => []TypeOK
<1>1. IInv => TypeOK
  BY DEF IInv
<1> QED
  BY <1>1, Invariance, PTL

(* No CDP is left to a contract that does not act on it.                   *)
THEOREM CdpsActedOn == Spec => []OwnedCdpsActive
<1>1. IInv => OwnedCdpsActive
  BY DEF IInv
<1> QED
  BY <1>1, Invariance, PTL

(* An inactive position can always be closed, and has no uusd lying idle.  *)
THEOREM InactiveCanClose == Spec => []InactiveRedeemable
<1>1. IInv => InactiveRedeemable
  BY DEF IInv, ContractsSound, SoundContract, InactiveRedeemable
<1> QED
  BY <1>1, Invariance, PTL

(* Closing a position leaves neither uusd nor aUST in the contract, except *)
(* aUST that Mirror returned since the last rebalance.                     *)
THEOREM ClosingDisburses == Spec => CloseDisburses
<1>1. IInv /\ [Next]_vars => [CloseStep]_vars
  <2> SUFFICES ASSUME IInv, Next, NEW p \in DOMAIN contracts,
                      ~contracts[p].closed, contracts'[p].closed
               PROVE  contracts'[p].holds \subseteq
                        Long \cup (IF LiquidatedUnseen(contracts[p]) THEN {"aUST"} ELSE {})
    BY DEF CloseStep
  <2>1. close_position(p)
    BY ClosedByClosing
  <2> QED
    BY <2>1, CloseLeaves
<1> QED
  BY <1>1, Invariance, PTL DEF Spec, CloseDisburses

(* The performance fee is charged at most once.                            *)
THEOREM FeeOnce == Spec => []PerformanceFeeOnce
<1>1. IInv => PerformanceFeeOnce
  BY DEF IInv, ContractsSound, SoundContract, PerformanceFeeOnce
<1> QED
  BY <1>1, Invariance, PTL

(* A new CDP leaves the locks of the others alone.                         *)
LEMMA OpenCdpLocks ==
  ASSUME IInv, NEW owner, NEW a, OpenCdp(owner, a)
  PROVE  LockStep
<1>1. nextPositionIdx \notin DOMAIN cdps
  BY DEF IInv, TypeOK, IndicesLinked
<1>2. \A i \in DOMAIN cdps : i \in DOMAIN cdps' => cdps'[i] = cdps[i]
  BY <1>1 DEF OpenCdp, With
<1> QED
  BY <1>2 DEF LockStep

(* Nor does closing one change them.                                       *)
LEMMA WithoutLocks ==
  ASSUME IInv, NEW k, cdps' = Without(cdps, k)
  PROVE  LockStep
<1>1. cdps' = [i \in DOMAIN cdps \ {k} |-> cdps[i]]
  BY DEF Without, Restrict
<1> QED
  BY <1>1 DEF LockStep

(* Rebalancing locks anew only what it may reinvest.                       *)
LEMMA RebalanceLocks ==
  ASSUME IInv, NEW p \in Positions, rebalance_and_reinvest(p)
  PROVE  LockStep
<1>1. ASSUME NEW K, NEW gain, RebalanceLiquidated(p, K, gain)
      PROVE  LockStep
  BY <1>1 DEF RebalanceLiquidated, mirror, LockStep
<1>2. ASSUME NEW K, NEW gain, RebalancePreemptiveClosure(p, K, gain)
      PROVE  LockStep
  BY <1>2, WithoutLocks DEF RebalancePreemptiveClosure, CloseCdp
<1>3. ASSUME NEW K, RebalanceStale(p, K)
      PROVE  LockStep
  BY <1>3 DEF RebalanceStale, ClaimedLock, LockStep, IInv, TypeOK, Cdp
<1>4. ASSUME NEW K, NEW invests \in BOOLEAN, RebalanceReinvest(p, K, invests)
      PROVE  LockStep
  <2>1. PICK k : k = contracts[p].cdpIdx
    OBVIOUS
  <2>2. k \in DOMAIN cdps
    BY <1>4, <2>1 DEF RebalanceReinvest, HasCdp
  <2>3. CASE ~invests
    <3>1. cdps' = cdps \/ cdps' = [cdps EXCEPT ![k].lock = "none"]
      BY <1>4, <2>1, <2>3 DEF RebalanceReinvest, ClaimedLock
    <3> QED
      BY <3>1 DEF LockStep, IInv, TypeOK, Cdp
  <2>4. CASE invests
    <3>1. cdps[k].lock \in {"none", "expired"}
      BY <1>4, <2>1, <2>2, <2>4 DEF RebalanceReinvest, MayReinvest, Lock, HasCdp
    <3>2. \A i \in DOMAIN cdps : i # k => cdps'[i] = cdps[i]
      <4>1. PICK f : f = ClaimedLock(contracts[p])
        OBVIOUS
      <4>2. cdps' = [f EXCEPT ![k].lock = "new"]
        BY <1>4, <2>1, <2>4, <4>1 DEF RebalanceReinvest
      <4>3. f = cdps \/ f = [cdps EXCEPT ![k].lock = "none"]
        BY <2>1, <4>1 DEF ClaimedLock
      <4> QED
        BY <4>2, <4>3
    <3> QED
      BY <3>1, <3>2 DEF LockStep
  <2> QED
    BY <2>3, <2>4
<1>5. ASSUME NEW remainder, RebalanceOffMarket(p, remainder)
      PROVE  LockStep
  <2>1. OpenCdp(p, contracts[p].mAsset) \/ UNCHANGED cdps
    BY <1>5 DEF RebalanceOffMarket
  <2> QED
    BY <2>1, OpenCdpLocks DEF LockStep
<1> QED
  BY <1>1, <1>2, <1>3, <1>4, <1>5 DEF rebalance_and_reinvest

(* No lock that has begun starts again before its proceeds are claimed.    *)
THEOREM LockKept == Spec => LockNotReset
<1>1. IInv /\ [Next]_vars => [LockStep]_vars
  <2> SUFFICES ASSUME IInv, Next PROVE LockStep
    OBVIOUS
  <2>1. CASE UNCHANGED cdps
    BY <2>1 DEF LockStep
  <2>2. CASE \E p \in Positions, a \in MirrorAssets : open_position(p, a)
    <3>1. PICK p \in Positions, a \in MirrorAssets : open_position(p, a)
      BY <2>2
    <3>2. OpenCdp(p, a) \/ UNCHANGED cdps
      BY <3>1 DEF open_position, OpenOnMarket, OpenOffMarket, mirror
    <3> QED
      BY <2>1, <3>2, OpenCdpLocks
  <2>3. CASE \E p \in Positions : rebalance_and_reinvest(p)
    BY <2>3, RebalanceLocks
  <2>4. CASE \E p \in Positions : close_position(p)
    <3>1. PICK p \in Positions : close_position(p)
      BY <2>4
    <3>2. cdps' = Without(cdps, contracts[p].cdpIdx) \/ UNCHANGED cdps
      BY <3>1 DEF close_position, CloseInactive, CloseActive, CloseCdp, mirror
    <3> QED
      BY <2>1, <3>2, WithoutLocks
  <2>5. CASE Environment
    <3>1. ASSUME NEW i \in DOMAIN cdps, LockAges(i)
          PROVE  LockStep
      BY <3>1 DEF LockAges, LockStep, IInv, TypeOK, Cdp
    <3>2. ASSUME NEW a, OthersOpenCdp(a)
          PROVE  LockStep
      BY <3>2, OpenCdpLocks DEF OthersOpenCdp
    <3>3. ASSUME NEW p, NEW refund, LiquidateAll(p, refund)
          PROVE  LockStep
      BY <3>3, WithoutLocks DEF LiquidateAll
    <3>4. ASSUME NEW a, OracleChanges(a) \/ Delist(a)
          PROVE  UNCHANGED cdps
      BY <3>4 DEF OracleChanges, Delist
    <3>5. ASSUME NEW p, NEW e, LiquidatePart(p) \/ PoolDrifts(p, e)
          PROVE  UNCHANGED cdps
      BY <3>5 DEF LiquidatePart, PoolDrifts, mirror
    <3> QED
      BY <2>1, <2>5, <3>1, <3>2, <3>3, <3>4, <3>5 DEF Environment
  <2>6. CASE \E a \in MirrorAssets :
               \/ \E allowed \in BOOLEAN : update_position_open_mirror_asset_list(a, allowed)
               \/ add_should_preemptively_close_cdp_mirror_asset_list(a)
    <3>1. UNCHANGED cdps
      BY <2>6 DEF update_position_open_mirror_asset_list,
                  add_should_preemptively_close_cdp_mirror_asset_list, mirror
    <3> QED
      BY <2>1, <3>1
  <2> QED
    BY <2>2, <2>3, <2>4, <2>5, <2>6 DEF Next
<1> QED
  BY <1>1, Invariance, PTL DEF Spec, LockNotReset

=============================================================================
