----------------------- MODULE ApertureManagerProofs -----------------------
(***************************************************************************)
(* Proofs about ApertureManager, for every set of chains, users, contracts *)
(* and tokens and for every bound: the type invariant, which contracts may *)
(* disburse, what the manager tells other chains of its positions, the     *)
(* refinement of InstructionLedger, and with the sums of SumTheorems that  *)
(* the manager is solvent and leaves no allowance standing.                *)
(***************************************************************************)
EXTENDS ApertureManager, SumTheorems

-----------------------------------------------------------------------------
(* Mappings and lists.                                                     *)

(* Setting a key defines it and leaves the others alone.                   *)
LEMMA SetMap ==
  ASSUME NEW map, NEW key, NEW value
  PROVE  /\ DOMAIN Set(map, key, value) = DOMAIN map \cup {key}
         /\ Set(map, key, value)[key] = value
         /\ \A k \in DOMAIN map \ {key} : Set(map, key, value)[k] = map[k]
BY DEF Set

(* Setting a key keeps the types of keys and values.                       *)
LEMMA SetType ==
  ASSUME NEW K, NEW V, NEW map, DOMAIN map \subseteq K,
         map \in [DOMAIN map -> V], NEW key \in K, NEW value \in V
  PROVE  /\ DOMAIN Set(map, key, value) \subseteq K
         /\ Set(map, key, value) \in [DOMAIN Set(map, key, value) -> V]
BY DEF Set

(* Deleting a key keeps the types of the others.                           *)
LEMMA DeleteType ==
  ASSUME NEW K, NEW V, NEW map, DOMAIN map \subseteq K,
         map \in [DOMAIN map -> V], NEW key
  PROVE  /\ DOMAIN Delete(map, key) \subseteq K
         /\ Delete(map, key) \in [DOMAIN Delete(map, key) -> V]
BY DEF Delete

(* The elements of a sequence.                                             *)
LEMMA SeqElement ==
  ASSUME NEW S, NEW q \in Seq(S), NEW i \in 1 .. Len(q)
  PROVE  q[i] \in S
OBVIOUS

(* A list of assets or transfers is a sequence.                            *)
LEMMA ListSeq ==
  ASSUME NEW S, NEW l \in Lists(S)
  PROVE  /\ l \in Seq(S)
         /\ DOMAIN l = 1 .. Len(l)
         /\ Len(l) \in Nat
         /\ \A i \in DOMAIN l : l[i] \in S
BY BoundsAssumption DEF Lists

-----------------------------------------------------------------------------
(* Type correctness.                                                       *)

(* The initial state is well typed.                                        *)
LEMMA TypeInit == Init => TypeOK
BY DEF Init, TypeOK, Empty, TransferType, InstructionType, PositionRecords

(* Strategies know positions by this chain's id and a number.              *)
HeldType ==
  /\ DOMAIN held = StrategyManagers
  /\ \A s \in StrategyManagers : DOMAIN held[s] \subseteq {thisChainId} \X Nat

(* A strategy's new holdings are for such a key.                           *)
LEMMA HeldSet ==
  ASSUME HeldType, NEW s \in StrategyManagers, NEW id \in Nat, NEW value,
         held' = [held EXCEPT ![s] = Set(@, PositionInfo(id, thisChainId), value)]
  PROVE  HeldType'
<1>1. PositionInfo(id, thisChainId) \in {thisChainId} \X Nat
  BY DEF PositionInfo
<1>2. \A r \in StrategyManagers :
        held'[r] = IF r = s THEN Set(held[s], PositionInfo(id, thisChainId), value)
                   ELSE held[r]
  BY DEF HeldType
<1>3. DOMAIN held' = StrategyManagers
  BY DEF HeldType
<1> DEFINE key == PositionInfo(id, thisChainId)
<1>4. \A r \in StrategyManagers : DOMAIN held'[r] \subseteq {thisChainId} \X Nat
  <2>1. key \in {thisChainId} \X Nat
    BY <1>1
  <2>2. DOMAIN Set(held[s], key, value) = DOMAIN held[s] \cup {key}
    BY SetMap
  <2> HIDE DEF key
  <2>3. DOMAIN Set(held[s], key, value) \subseteq {thisChainId} \X Nat
    BY <2>1, <2>2 DEF HeldType
  <2> QED BY <1>2, <2>3 DEF key, HeldType
<1> QED BY <1>3, <1>4 DEF HeldType

(* Opening a position gives its strategy such a key.                       *)
LEMMA CreateHeld ==
  ASSUME TypeOK, NEW b, NEW id \in Nat, NEW c, NEW sid, NEW assets,
         createPositionInternal(b, id, c, sid, assets)
  PROVE  HeldType'
<1>1. HeldType
  BY DEF TypeOK, HeldType
<1>2. CASE UNCHANGED held
  BY <1>1, <1>2 DEF HeldType
<1>3. ASSUME c = thisChainId, sid \in DOMAIN strategyIdToMetadata,
             StrategyTakes(b, Approved(strategyIdToMetadata[sid], assets),
                           strategyIdToMetadata[sid], PositionInfo(id, c), assets)
      PROVE  HeldType'
  <2>1. strategyIdToMetadata[sid] \in StrategyManagers
    BY <1>3 DEF TypeOK
  <2> QED BY <1>1, <1>3, <2>1, HeldSet DEF StrategyTakes
<1> QED BY <1>2, <1>3 DEF createPositionInternal, publishInstruction

(* So does using one.                                                      *)
LEMMA ExecuteHeld ==
  ASSUME TypeOK, NEW b, NEW id \in Nat, NEW c, NEW action, NEW assets, NEW payout,
         NEW to, executeStrategyInternal(b, id, c, action, assets, payout, to)
  PROVE  HeldType'
<1>1. HeldType
  BY DEF TypeOK, HeldType
<1>2. CASE UNCHANGED held
  BY <1>1, <1>2 DEF HeldType
<1>3. ASSUME c = thisChainId, ~ UNCHANGED held
      PROVE  HeldType'
  <2> DEFINE s == strategyIdToMetadata[StrategyOf(id)]
  <2> DEFINE key == PositionInfo(id, thisChainId)
  <2>1. StrategyOf(id) \in DOMAIN strategyIdToMetadata
    BY <1>3 DEF executeStrategyInternal, publishInstruction
  <2>2. s \in StrategyManagers
    BY <2>1 DEF TypeOK
  <2>3. \E value : held' = [held EXCEPT ![s] = Set(@, key, value)]
    <3>1. CASE StrategyTakes(b, ExecuteAllowances(s, assets), s, key, assets)
      BY <3>1 DEF StrategyTakes
    <3>2. CASE held' = [held EXCEPT ![s] =
                          Set(@, key, Minus(HeldFor(s, key), Total(payout)))]
      BY <3>2
    <3> QED BY <1>3, <3>1, <3>2 DEF executeStrategyInternal, publishInstruction
  <2>4. PICK value : held' = [held EXCEPT ![s] = Set(@, key, value)]
    BY <2>3
  <2> QED BY <1>1, <2>2, <2>4, HeldSet
<1> QED BY <1>2, <1>3 DEF executeStrategyInternal, publishInstruction

(* A new position keeps the types of ids and records.                      *)
LEMMA RecordType ==
  ASSUME TypeOK, NEW u \in Users, NEW c \in Chains, NEW sid \in StrategyIds,
         recordNewPositionInfo(u, c, sid)
  PROVE  /\ nextPositionId' \in Nat
         /\ DOMAIN positionIdToInfo' \subseteq Nat
         /\ positionIdToInfo' \in [DOMAIN positionIdToInfo' ->
              [owner : Users, strategyChainId : Chains, strategyId : Nat]]
<1> DEFINE Record == [owner : Users, strategyChainId : Chains, strategyId : Nat]
<1> DEFINE info == [owner |-> u, strategyChainId |-> c, strategyId |-> sid]
<1>1. nextPositionId \in Nat /\ sid \in Nat
  BY BoundsAssumption DEF TypeOK, StrategyIds
<1>2. info \in Record
  BY <1>1
<1>3. positionIdToInfo' = Set(positionIdToInfo, nextPositionId, info)
  BY DEF recordNewPositionInfo
<1>4. /\ DOMAIN positionIdToInfo \subseteq Nat
      /\ positionIdToInfo \in [DOMAIN positionIdToInfo -> Record]
  BY DEF TypeOK
<1>5. nextPositionId' \in Nat
  BY <1>1 DEF recordNewPositionInfo
<1> HIDE DEF info, Record
<1>6. /\ DOMAIN positionIdToInfo' \subseteq Nat
      /\ positionIdToInfo' \in [DOMAIN positionIdToInfo' -> Record]
  BY <1>1, <1>2, <1>3, <1>4, SetType
<1> QED BY <1>5, <1>6 DEF Record

(* A publication of another chain keeps the types of the messages.         *)
LEMMA PublishType ==
  ASSUME TypeOK, NEW c \in OtherChains, NEW e \in Publishers,
         NEW kind \in Actions \cup Disbursements \cup {"open"}, NEW id \in Nat,
         NEW to \in Chains, NEW sid \in Nat, NEW assets \in Lists(Incoming),
         NEW swapTo \in Tokens \cup {None}, NEW recipient \in Chains,
         Publish(c, e, kind, id, to, sid, assets, swapTo, recipient)
  PROVE  /\ nextMessage' \in Nat
         /\ extSequence' \in [OtherChains -> Nat]
         /\ transfers \subseteq transfers' /\ transfers' \subseteq TransferType
         /\ instructions \subseteq instructions' /\ instructions' \subseteq InstructionType
<1> DEFINE seqs == [i \in DOMAIN assets |-> extSequence[c] + i]
<1> DEFINE new == [emitterChain |-> c, emitter |-> e, hash |-> nextMessage,
                   kind |-> kind, positionId |-> id, toChain |-> to,
                   strategyId |-> sid, swapTo |-> swapTo,
                   recipientChain |-> recipient, sequences |-> seqs]
<1> DEFINE sent == {[chain |-> c, sequence |-> extSequence[c] + i, toChain |-> to,
                     token |-> assets[i].token, amount |-> assets[i].amount] :
                      i \in DOMAIN assets}
<1>1. /\ Len(assets) \in Nat /\ DOMAIN assets = 1 .. Len(assets)
      /\ \A i \in DOMAIN assets : assets[i].token \in Tokens /\ assets[i].amount \in Nat
  BY ListSeq, NumbersAssumption
<1>2. extSequence[c] \in Nat /\ nextMessage \in Nat
  BY DEF TypeOK
<1>3. \A i \in DOMAIN assets : extSequence[c] + i \in Nat
  BY <1>1, <1>2
<1>4. seqs \in Seq(Nat)
  <2>1. seqs \in [1 .. Len(assets) -> Nat]
    BY <1>1, <1>3
  <2> QED BY <1>1, <2>1
<1>5. new \in InstructionType
  BY <1>2, <1>4 DEF InstructionType
<1>6. sent \subseteq TransferType
  BY <1>1, <1>3 DEF TransferType
<1>7. transfers' = transfers \cup sent /\ instructions' = instructions \cup {new}
  BY DEF Publish
<1>8. nextMessage' = nextMessage + 1
      /\ extSequence' = [extSequence EXCEPT ![c] = @ + Len(assets)]
  BY DEF Publish
<1>9. extSequence' \in [OtherChains -> Nat] /\ nextMessage' \in Nat
  BY <1>1, <1>2, <1>8 DEF TypeOK
<1> HIDE DEF new, sent
<1> QED BY <1>5, <1>6, <1>7, <1>9 DEF TypeOK

(* A user opens a position, with whatever tokens.                          *)
Opens ==
  \E u \in Users, c \in Chains, sid \in StrategyIds : \E b, assets :
    /\ recordNewPositionInfo(u, c, sid)
    /\ createPositionInternal(b, NewPositionId, c, sid, assets)

(* A user acts on a recorded position.                                     *)
Uses ==
  \E id \in DOMAIN positionIdToInfo : \E b, k, assets, p, to :
    /\ executeStrategyInternal(b, id, positionIdToInfo[id].strategyChainId, k,
                               assets, p, to)
    /\ UNCHANGED positionVars

(* That is all the users do.                                               *)
LEMMA UserSteps ==
  ASSUME UserStep
  PROVE  (Opens \/ Uses) /\ UNCHANGED <<registryVars, inVars, extVars>>
<1>1. ASSUME NEW u \in Users, NEW c \in Chains, NEW id \in StrategyIds,
             NEW l \in Lists(Assets), NEW e \in EtherAmounts,
             createPosition(u, c, id, l, e)
      PROVE  Opens /\ UNCHANGED <<registryVars, inVars, extVars>>
  BY <1>1 DEF createPosition, Opens
<1>2. ASSUME NEW u \in Users, NEW c \in Chains, NEW id \in StrategyIds,
             NEW t \in Tokens, NEW a \in Assets,
             swapTokenAndCreatePosition(u, t, c, id, a)
      PROVE  Opens /\ UNCHANGED <<registryVars, inVars, extVars>>
  BY <1>2 DEF swapTokenAndCreatePosition, Opens
<1>3. ASSUME NEW u \in Users, NEW id \in DOMAIN positionIdToInfo, NEW k \in Actions,
             NEW p \in Lists(Assets), NEW to \in Chains, NEW l \in Lists(Assets),
             NEW e \in EtherAmounts, executeStrategy(u, id, k, l, e, p, to)
      PROVE  Uses /\ UNCHANGED <<registryVars, inVars, extVars>>
  BY <1>3 DEF executeStrategy, Uses
<1>4. ASSUME NEW u \in Users, NEW id \in DOMAIN positionIdToInfo, NEW k \in Actions,
             NEW p \in Lists(Assets), NEW to \in Chains, NEW t \in Tokens,
             NEW a \in Assets, swapTokenAndExecuteStrategy(u, t, id, k, a, p, to)
      PROVE  Uses /\ UNCHANGED <<registryVars, inVars, extVars>>
  BY <1>4 DEF swapTokenAndExecuteStrategy, Uses
<1> QED BY <1>1, <1>2, <1>3, <1>4 DEF UserStep

(* What other chains publish changes nothing else.                         *)
LEMMA PublishedByOthers ==
  ASSUME PublishStep
  PROVE  UNCHANGED <<registryVars, positionVars, tokenVars, published, inVars>>
<1>1. ASSUME NEW c, NEW e, NEW l, NEW to, NEW id, PublishOpen(c, e, to, id, l)
      PROVE  UNCHANGED <<registryVars, positionVars, tokenVars, published, inVars>>
  BY <1>1 DEF PublishOpen, Publish
<1>2. ASSUME NEW c, NEW e, NEW l, NEW k, NEW id, NEW to, PublishExecute(c, e, k, id, l, to)
      PROVE  UNCHANGED <<registryVars, positionVars, tokenVars, published, inVars>>
  BY <1>2 DEF PublishExecute, Publish
<1>3. ASSUME NEW c, NEW e, NEW l, NEW k, NEW to, NEW t, PublishDisbursement(c, e, k, to, l, t)
      PROVE  UNCHANGED <<registryVars, positionVars, tokenVars, published, inVars>>
  BY <1>3 DEF PublishDisbursement, Publish
<1> QED BY <1>1, <1>2, <1>3 DEF PublishStep

(* The owner changes the registry only.                                    *)
LEMMA OwnerSteps ==
  ASSUME OwnerStep
  PROVE  UNCHANGED <<positionVars, tokenVars, published, inVars, extVars>>
<1> DEFINE Others == UNCHANGED <<positionVars, tokenVars, published, inVars, extVars>>
<1>1. ASSUME NEW f, updateCrossChainFeeContext(f) PROVE Others
  BY <1>1 DEF updateCrossChainFeeContext
<1>2. ASSUME NEW c, NEW e, updateApertureManager(c, e) PROVE Others
  BY <1>2 DEF updateApertureManager
<1>3. ASSUME NEW pair, updateCurveRoute(pair) PROVE Others
  BY <1>3 DEF updateCurveRoute
<1>4. ASSUME NEW s, addStrategy(s) PROVE Others
  BY <1>4 DEF addStrategy
<1>5. ASSUME NEW id, removeStrategy(id) PROVE Others
  BY <1>5 DEF removeStrategy
<1>6. ASSUME NEW triple, NEW w, updateIsTokenWhitelistedForStrategy(triple, w)
      PROVE  Others
  BY <1>6 DEF updateIsTokenWhitelistedForStrategy
<1> HIDE DEF Others
<1>7. Others
  BY <1>1, <1>2, <1>3, <1>4, <1>5, <1>6 DEF OwnerStep
<1> QED BY <1>7 DEF Others

(* Every step keeps the types.                                             *)
LEMMA TypeStep == TypeOK /\ [Next]_vars => TypeOK'
<1> SUFFICES ASSUME TypeOK, [Next]_vars PROVE TypeOK'
  OBVIOUS
<1> USE DEF registryVars, positionVars, tokenVars, inVars, extVars
<1>1. ASSUME NEW f, updateCrossChainFeeContext(f) PROVE TypeOK'
  BY <1>1 DEF TypeOK, updateCrossChainFeeContext
<1>2. ASSUME NEW c \in OtherChains, NEW e \in Publishers \cup {None}, updateApertureManager(c, e)
      PROVE  TypeOK'
  <2>1. /\ DOMAIN chainIdToApertureManager' \subseteq OtherChains
        /\ chainIdToApertureManager' \in [DOMAIN chainIdToApertureManager' -> Publishers]
    BY <1>2, SetType, DeleteType DEF TypeOK, updateApertureManager
  <2> QED BY <1>2, <2>1 DEF TypeOK, updateApertureManager
<1>3. ASSUME NEW pair, updateCurveRoute(pair) PROVE TypeOK'
  BY <1>3 DEF TypeOK, updateCurveRoute
<1>4. ASSUME NEW s \in StrategyManagers, addStrategy(s) PROVE TypeOK'
  <2>1. /\ DOMAIN strategyIdToMetadata' \subseteq Nat
        /\ strategyIdToMetadata' \in [DOMAIN strategyIdToMetadata' -> StrategyManagers]
    BY <1>4, SetType DEF TypeOK, addStrategy
  <2>2. nextStrategyId' \in Nat
    BY <1>4 DEF TypeOK, addStrategy
  <2> QED BY <1>4, <2>1, <2>2 DEF TypeOK, addStrategy
<1>5. ASSUME NEW id, removeStrategy(id) PROVE TypeOK'
  <2>1. /\ DOMAIN strategyIdToMetadata' \subseteq Nat
        /\ strategyIdToMetadata' \in [DOMAIN strategyIdToMetadata' -> StrategyManagers]
    BY <1>5, DeleteType DEF TypeOK, removeStrategy
  <2> QED BY <1>5, <2>1 DEF TypeOK, removeStrategy
<1>6. ASSUME NEW triple \in Whitelistable, NEW w,
             updateIsTokenWhitelistedForStrategy(triple, w)
      PROVE  TypeOK'
  BY <1>6 DEF TypeOK, updateIsTokenWhitelistedForStrategy
<1>7. ASSUME NEW u \in Users, NEW c \in Chains, NEW id \in StrategyIds, NEW b,
             NEW assets, recordNewPositionInfo(u, c, id),
             createPositionInternal(b, NewPositionId, c, id, assets),
             UNCHANGED <<registryVars, inVars, extVars>>
      PROVE  TypeOK'
  <2>1. HeldType'
    BY <1>7, CreateHeld DEF NewPositionId, TypeOK
  <2> QED BY <1>7, <2>1, RecordType DEF TypeOK, HeldType
<1>8. ASSUME NEW id \in DOMAIN positionIdToInfo, NEW c, NEW k, NEW b, NEW assets,
             NEW p, NEW to, executeStrategyInternal(b, id, c, k, assets, p, to),
             UNCHANGED <<registryVars, positionVars, inVars, extVars>>
      PROVE  TypeOK'
  <2>1. HeldType'
    BY <1>8, ExecuteHeld DEF TypeOK
  <2> QED BY <1>8, <2>1 DEF TypeOK, HeldType
<1>9. CASE UserStep
  <2>1. (Opens \/ Uses) /\ UNCHANGED <<registryVars, inVars, extVars>>
    BY <1>9, UserSteps
  <2>2. CASE Opens
    BY <1>7, <2>1, <2>2 DEF Opens
  <2>3. CASE Uses
    BY <1>8, <2>1, <2>3 DEF Uses
  <2> QED BY <2>1, <2>2, <2>3
<1>10. ASSUME NEW c \in OtherChains, NEW e \in Publishers, NEW l \in Lists(Incoming),
              NEW to \in Chains, NEW id \in StrategyIds, PublishOpen(c, e, to, id, l)
       PROVE  TypeOK'
  <2> DEFINE info == [strategyChain |-> to, strategyId |-> id]
  <2>1. extPositions[c][e] \in PositionRecords /\ c \in Chains /\ id \in Nat
    BY BoundsAssumption DEF TypeOK, Chains, StrategyIds
  <2>2. Len(extPositions[c][e]) \in Nat
        /\ Append(extPositions[c][e], info) \in PositionRecords
    BY <2>1 DEF PositionRecords
  <2>3. extPositions' = [extPositions EXCEPT ![c][e] = Append(@, info)]
    BY <1>10 DEF PublishOpen
  <2>4. extPositions' \in [OtherChains -> [Publishers -> PositionRecords]]
    BY <2>2, <2>3 DEF TypeOK
  <2>5. Publish(c, e, "open", Len(extPositions[c][e]), to, id, l, None, c)
    BY <1>10 DEF PublishOpen
  <2>6. /\ nextMessage' \in Nat
        /\ extSequence' \in [OtherChains -> Nat]
        /\ transfers \subseteq transfers' /\ transfers' \subseteq TransferType
        /\ instructions \subseteq instructions' /\ instructions' \subseteq InstructionType
    BY <2>1, <2>2, <2>5, PublishType
  <2> QED BY <2>4, <2>5, <2>6 DEF TypeOK, Publish
<1>11. ASSUME NEW c \in OtherChains, NEW e \in Publishers, NEW l \in Lists(Incoming),
              NEW k \in Actions, NEW id \in 0 .. MaxInstructions, NEW to \in Chains,
              PublishExecute(c, e, k, id, l, to)
       PROVE  TypeOK'
  <2> DEFINE info == extPositions[c][e][id + 1]
  <2>1. /\ extPositions[c][e] \in PositionRecords
        /\ id \in Nat /\ id < Len(extPositions[c][e])
    BY <1>11, BoundsAssumption DEF TypeOK, PublishExecute
  <2>2. info.strategyChain \in Chains /\ info.strategyId \in Nat
    <3> DEFINE recorded == extPositions[c][e]
    <3>a. recorded \in PositionRecords /\ id < Len(recorded) /\ id \in Nat
      BY <2>1
    <3> HIDE DEF recorded
    <3>1. id + 1 \in 1 .. Len(recorded)
      BY <3>a DEF PositionRecords
    <3>2. recorded[id + 1] \in [strategyChain : Chains, strategyId : Nat]
      BY <3>a, <3>1, SeqElement DEF PositionRecords
    <3> QED BY <3>2 DEF recorded
  <2>3. Publish(c, e, k, id, info.strategyChain, info.strategyId, l, None, to)
    BY <1>11 DEF PublishExecute
  <2>4. /\ nextMessage' \in Nat
        /\ extSequence' \in [OtherChains -> Nat]
        /\ transfers \subseteq transfers' /\ transfers' \subseteq TransferType
        /\ instructions \subseteq instructions' /\ instructions' \subseteq InstructionType
    BY <2>1, <2>2, <2>3, PublishType
  <2> QED BY <1>11, <2>3, <2>4 DEF TypeOK, PublishExecute, Publish
<1>12. ASSUME NEW c \in OtherChains, NEW e \in Publishers, NEW l \in Lists(Incoming),
              NEW k \in Disbursements, NEW to \in Chains, NEW t \in Tokens \cup {None},
              PublishDisbursement(c, e, k, to, l, t)
       PROVE  TypeOK'
  <2>1. Publish(c, e, k, 0, to, 0, l, t, to)
    BY <1>12 DEF PublishDisbursement
  <2>2. /\ nextMessage' \in Nat
        /\ extSequence' \in [OtherChains -> Nat]
        /\ transfers \subseteq transfers' /\ transfers' \subseteq TransferType
        /\ instructions \subseteq instructions' /\ instructions' \subseteq InstructionType
    BY <2>1, PublishType
  <2> QED BY <1>12, <2>1, <2>2 DEF TypeOK, PublishDisbursement, Publish
<1>13. ASSUME NEW x \in transfers, CompleteTransfer(x) PROVE TypeOK'
  BY <1>13 DEF TypeOK, CompleteTransfer
<1>14. ASSUME NEW v \in instructions, NEW ts \in Lists(transfers), NEW p,
              processApertureInstruction(v, ts, p)
       PROVE  TypeOK'
  <2>1. v.positionId \in Nat
    BY DEF TypeOK, InstructionType
  <2>2. HeldType'
    <3>1. HeldType
      BY DEF TypeOK, HeldType
    <3>2. CASE UNCHANGED held
      BY <3>1, <3>2 DEF HeldType
    <3> QED BY <1>14, <2>1, <3>2, CreateHeld, ExecuteHeld
            DEF processApertureInstruction, processSingleTokenDisbursement,
                processMultiTokenDisbursement
  <2>3. Range(ts) \subseteq transfers
    BY ListSeq DEF Range
  <2>4. completedTransfers' \subseteq transfers /\ processedInstructions' \subseteq instructions
    BY <1>14, <2>3 DEF processApertureInstruction, TypeOK
  <2> QED BY <1>14, <2>2, <2>4 DEF TypeOK, HeldType, processApertureInstruction
<1>15. CASE UNCHANGED vars
  BY <1>15 DEF TypeOK, vars
<1>16. CASE OwnerStep
  BY <1>1, <1>2, <1>3, <1>4, <1>5, <1>6, <1>16 DEF OwnerStep
<1>17. CASE PublishStep
  BY <1>10, <1>11, <1>12, <1>17 DEF PublishStep
<1>18. CASE \E v \in instructions : Process(v)
  BY <1>14, <1>18 DEF Process
<1> QED BY <1>9, <1>13, <1>15, <1>16, <1>17, <1>18 DEF Next

(* The contract's storage, the keys it gives to strategies and the         *)
(* messages keep their types: what it has processed or had completed was   *)
(* published, and strategies know positions by this chain's id only.       *)
THEOREM TypeCorrect == Spec => []TypeOK
<1>1. Init => TypeOK
  BY TypeInit
<1>2. TypeOK /\ [Next]_vars => TypeOK'
  BY TypeStep
<1> QED BY <1>1, <1>2, PTL DEF Spec

-----------------------------------------------------------------------------
(* Who may disburse.                                                       *)

(* Ids are given once: a new strategy never takes the id of another, whose *)
(* manager would keep its right when its metadata is overwritten.          *)
StrategyIdsPast == \A id \in DOMAIN strategyIdToMetadata : id < nextStrategyId

RightsInv == TypeOK /\ StrategyIdsPast /\ OnlyCurrentStrategiesDisburse

(* Every step keeps the rights with the strategies.                        *)
LEMMA RightsStep == RightsInv /\ [Next]_vars => RightsInv'
<1> SUFFICES ASSUME RightsInv, [Next]_vars PROVE RightsInv'
  OBVIOUS
<1>1. TypeOK'
  BY TypeStep DEF RightsInv
<1> DEFINE rightsVars == <<nextStrategyId, strategyIdToMetadata, allowedToDisburseAssets>>
<1>2. ASSUME UNCHANGED rightsVars PROVE RightsInv'
  <2>1. StrategyIdsPast'
    BY <1>2 DEF RightsInv, StrategyIdsPast
  <2>2. OnlyCurrentStrategiesDisburse'
    BY <1>2 DEF RightsInv, OnlyCurrentStrategiesDisburse, Range
  <2> QED BY <1>1, <2>1, <2>2 DEF RightsInv
<1>3. ASSUME NEW s \in StrategyManagers, addStrategy(s) PROVE RightsInv'
  <2>1. /\ nextStrategyId \in Nat /\ DOMAIN strategyIdToMetadata \subseteq Nat
        /\ nextStrategyId \notin DOMAIN strategyIdToMetadata
    BY DEF RightsInv, TypeOK, StrategyIdsPast
  <2> DEFINE new == Set(strategyIdToMetadata, nextStrategyId, s)
  <2>2. /\ nextStrategyId' = nextStrategyId + 1
        /\ DOMAIN strategyIdToMetadata' = DOMAIN strategyIdToMetadata \cup {nextStrategyId}
        /\ strategyIdToMetadata'[nextStrategyId] = s
        /\ \A id \in DOMAIN strategyIdToMetadata :
             strategyIdToMetadata'[id] = strategyIdToMetadata[id]
    <3>1. strategyIdToMetadata' = new /\ nextStrategyId' = nextStrategyId + 1
      BY <1>3 DEF addStrategy
    <3>2. /\ DOMAIN new = DOMAIN strategyIdToMetadata \cup {nextStrategyId}
          /\ new[nextStrategyId] = s
          /\ \A id \in DOMAIN strategyIdToMetadata \ {nextStrategyId} :
               new[id] = strategyIdToMetadata[id]
      BY DEF Set
    <3> HIDE DEF new
    <3> QED BY <2>1, <3>1, <3>2
  <2>3. StrategyIdsPast'
    BY <2>1, <2>2 DEF RightsInv, StrategyIdsPast
  <2>4. OnlyCurrentStrategiesDisburse'
    BY <1>3, <2>2 DEF RightsInv, OnlyCurrentStrategiesDisburse, addStrategy, Range
  <2> QED BY <1>1, <2>3, <2>4 DEF RightsInv
<1>4. ASSUME NEW id, removeStrategy(id) PROVE RightsInv'
  <2>1. /\ DOMAIN strategyIdToMetadata' = DOMAIN strategyIdToMetadata \ {id}
        /\ \A i \in DOMAIN strategyIdToMetadata \ {id} :
             strategyIdToMetadata'[i] = strategyIdToMetadata[i]
        /\ allowedToDisburseAssets' =
             allowedToDisburseAssets \ StoredManager(strategyIdToMetadata, id)
        /\ nextStrategyId' = nextStrategyId
    BY <1>4 DEF removeStrategy, Delete
  <2>2. StrategyIdsPast'
    BY <2>1 DEF RightsInv, StrategyIdsPast
  <2>3. ASSUME NEW s \in allowedToDisburseAssets' PROVE s \in Range(strategyIdToMetadata')
    <3>1. PICK i \in DOMAIN strategyIdToMetadata : strategyIdToMetadata[i] = s
      BY <2>1, <2>3 DEF RightsInv, OnlyCurrentStrategiesDisburse, Range
    <3>2. i # id
      BY <2>1, <2>3, <3>1 DEF StoredManager
    <3> QED BY <2>1, <3>1, <3>2 DEF Range
  <2> QED BY <1>1, <2>2, <2>3 DEF OnlyCurrentStrategiesDisburse, RightsInv
<1>5. CASE OwnerStep
  <2>1. ASSUME NEW f, updateCrossChainFeeContext(f) PROVE UNCHANGED rightsVars
    BY <2>1 DEF updateCrossChainFeeContext
  <2>2. ASSUME NEW c, NEW e, updateApertureManager(c, e)
        PROVE  UNCHANGED rightsVars
    BY <2>2 DEF updateApertureManager
  <2>3. ASSUME NEW pair, updateCurveRoute(pair) PROVE UNCHANGED rightsVars
    BY <2>3 DEF updateCurveRoute
  <2>4. ASSUME NEW triple, NEW w, updateIsTokenWhitelistedForStrategy(triple, w)
        PROVE  UNCHANGED rightsVars
    BY <2>4 DEF updateIsTokenWhitelistedForStrategy
  <2> HIDE DEF rightsVars
  <2> QED BY <1>2, <1>3, <1>4, <1>5, <2>1, <2>2, <2>3, <2>4 DEF OwnerStep
<1>6. CASE UserStep
  BY <1>2, <1>6, UserSteps DEF registryVars
<1>7. CASE PublishStep
  BY <1>2, <1>7, PublishedByOthers DEF registryVars
<1>8. CASE (\E x \in transfers : CompleteTransfer(x)) \/ UNCHANGED vars
  BY <1>2, <1>8 DEF CompleteTransfer, vars, registryVars
<1>9. CASE \E v \in instructions : Process(v)
  BY <1>2, <1>9 DEF Process, processApertureInstruction, registryVars
<1> QED BY <1>1, <1>2, <1>5, <1>6, <1>7, <1>8, <1>9 DEF Next, RightsInv

(* Only contracts that manage a strategy now may have the manager disburse *)
(* tokens: removeStrategy takes the right away with the strategy.          *)
THEOREM Rights == Spec => []OnlyCurrentStrategiesDisburse
<1>1. Init => RightsInv
  <2>1. Init => TypeOK
    BY TypeInit
  <2> QED BY <2>1 DEF Init, RightsInv, StrategyIdsPast, OnlyCurrentStrategiesDisburse, Empty
<1>2. RightsInv /\ [Next]_vars => RightsInv'
  BY RightsStep
<1>3. RightsInv => OnlyCurrentStrategiesDisburse
  BY DEF RightsInv
<1> QED BY <1>1, <1>2, <1>3, PTL DEF Spec

-----------------------------------------------------------------------------
(* What other chains hear of positions.                                    *)

(* The log of publications is a sequence.                                  *)
PublishedSeq == published \in Seq(Range(published))

(* Position ids are dense.                                                 *)
PositionsDense == DOMAIN positionIdToInfo = 0 .. nextPositionId - 1

(* Every position with a strategy on another chain was announced there.    *)
Announced ==
  \A id \in DOMAIN positionIdToInfo :
    positionIdToInfo[id].strategyChainId # thisChainId =>
      \E j \in DOMAIN published :
        /\ published[j].kind = "open"
        /\ published[j].positionId = id
        /\ published[j].chain = positionIdToInfo[id].strategyChainId

PublishedInv ==
  TypeOK /\ PublishedSeq /\ PositionsDense /\ Announced /\ PublishedAsRecorded

(* A publication is added at the end.                                      *)
LEMMA PublicationAdded ==
  ASSUME PublishedSeq, NEW m, published' = Append(published, m)
  PROVE  /\ PublishedSeq'
         /\ Len(published) \in Nat
         /\ DOMAIN published = 1 .. Len(published)
         /\ DOMAIN published' = 1 .. Len(published) + 1
         /\ \A i \in DOMAIN published : published'[i] = published[i]
         /\ published'[Len(published) + 1] = m
<1> DEFINE R == Range(published)
<1>1. published \in Seq(R)
  BY DEF PublishedSeq
<1> HIDE DEF R
<1>2. /\ Len(published) \in Nat
      /\ DOMAIN published = 1 .. Len(published)
      /\ DOMAIN published' = 1 .. Len(published) + 1
      /\ \A i \in DOMAIN published : published'[i] = published[i]
      /\ published'[Len(published) + 1] = m
  BY <1>1
<1>3. published' \in Seq(R \cup {m})
  BY <1>1
<1>4. published' \in Seq(Range(published'))
  <2> DEFINE q == published'
  <2>1. q \in Seq(R \cup {m})
    BY <1>3
  <2> HIDE DEF q
  <2>2. Len(q) \in Nat /\ DOMAIN q = 1 .. Len(q)
    BY <2>1
  <2>3. q \in [1 .. Len(q) -> R \cup {m}]
    BY <2>1
  <2>4. \A i \in 1 .. Len(q) : q[i] \in Range(q)
    BY <2>2 DEF Range
  <2>5. q \in [1 .. Len(q) -> Range(q)]
    BY <2>3, <2>4
  <2>6. q \in Seq(Range(q))
    BY <2>2, <2>5
  <2> QED BY <2>6 DEF q
<1> QED BY <1>2, <1>4 DEF PublishedSeq

(* Nothing changes when neither positions nor publications do.             *)
LEMMA PublishedSame ==
  ASSUME PublishedInv, TypeOK', UNCHANGED <<positionVars, published>>
  PROVE  PublishedInv'
BY DEF PublishedInv, PublishedSeq, PositionsDense, Announced, PublishedAsRecorded,
       positionVars

(* Disbursements to other chains do not matter.                            *)
LEMMA PublishedDisbursement ==
  ASSUME PublishedInv, TypeOK', UNCHANGED positionVars,
         NEW m, m.kind = "disburse", published' = Append(published, m)
  PROVE  PublishedInv'
<1>1. /\ PublishedSeq'
      /\ Len(published) \in Nat
      /\ DOMAIN published = 1 .. Len(published)
      /\ DOMAIN published' = 1 .. Len(published) + 1
      /\ \A i \in DOMAIN published : published'[i] = published[i]
      /\ published'[Len(published) + 1] = m
  BY PublicationAdded DEF PublishedInv
<1>2. \A i \in DOMAIN published' : published'[i].kind # "disburse" => i \in DOMAIN published
  BY <1>1
<1>3. PositionsDense'
  BY DEF PublishedInv, PositionsDense, positionVars
<1>4. Announced'
  <2>1. DOMAIN published \subseteq DOMAIN published'
    BY <1>1
  <2> QED BY <1>1, <2>1 DEF PublishedInv, Announced, positionVars
<1>5. PublishedAsRecorded'
  <2>1. \A i \in DOMAIN published' : published'[i].kind = "open" =>
          i \in DOMAIN published /\ published'[i] = published[i]
    BY <1>1, <1>2
  <2>2. \A i \in DOMAIN published' : published'[i].kind = "execute" =>
          i \in DOMAIN published /\ published'[i] = published[i]
    BY <1>1, <1>2
  <2>3. \A i \in DOMAIN published : 1 .. i - 1 \subseteq DOMAIN published
    BY <1>1
  <2> QED BY <1>1, <2>1, <2>2, <2>3 DEF PublishedInv, PublishedAsRecorded, positionVars
<1> QED BY <1>1, <1>3, <1>4, <1>5 DEF PublishedInv

(* A later instruction of a position follows its opening.                  *)
LEMMA PublishedExecution ==
  ASSUME PublishedInv, TypeOK', UNCHANGED positionVars,
         NEW id \in DOMAIN positionIdToInfo,
         positionIdToInfo[id].strategyChainId # thisChainId,
         NEW m, m.kind = "execute", m.positionId = id,
         m.chain = positionIdToInfo[id].strategyChainId,
         published' = Append(published, m)
  PROVE  PublishedInv'
<1>1. /\ PublishedSeq'
      /\ Len(published) \in Nat
      /\ DOMAIN published = 1 .. Len(published)
      /\ DOMAIN published' = 1 .. Len(published) + 1
      /\ \A i \in DOMAIN published : published'[i] = published[i]
      /\ published'[Len(published) + 1] = m
  BY PublicationAdded DEF PublishedInv
<1>2. \A i \in DOMAIN published' : i \in DOMAIN published \/ i = Len(published) + 1
  BY <1>1
<1>3. PositionsDense'
  BY DEF PublishedInv, PositionsDense, positionVars
<1>4. Announced'
  <2>1. DOMAIN published \subseteq DOMAIN published'
    BY <1>1
  <2> QED BY <1>1, <2>1 DEF PublishedInv, Announced, positionVars
<1>5. PublishedAsRecorded'
  <2>1. \A i \in DOMAIN published' : published'[i].kind = "open" =>
          i \in DOMAIN published /\ published'[i] = published[i]
    BY <1>1, <1>2
  <2>2. ASSUME NEW i \in DOMAIN published', published'[i].kind = "execute"
        PROVE  \E j \in 1 .. i - 1 : /\ published'[j].kind = "open"
                                     /\ published'[j].positionId = published'[i].positionId
                                     /\ published'[j].chain = published'[i].chain
    <3>1. CASE i \in DOMAIN published
      <4>1. 1 .. i - 1 \subseteq DOMAIN published
        BY <1>1, <3>1
      <4> QED BY <1>1, <2>2, <3>1, <4>1 DEF PublishedInv, PublishedAsRecorded
    <3>2. CASE i = Len(published) + 1
      <4>1. PICK j \in DOMAIN published : /\ published[j].kind = "open"
                                          /\ published[j].positionId = id
                                          /\ published[j].chain = m.chain
        BY DEF PublishedInv, Announced
      <4>2. j \in 1 .. i - 1
        BY <1>1, <3>2
      <4> QED BY <1>1, <3>2, <4>1, <4>2
    <3> QED BY <1>2, <3>1, <3>2
  <2> QED BY <1>1, <2>1, <2>2 DEF PublishedInv, PublishedAsRecorded, positionVars
<1> QED BY <1>1, <1>3, <1>4, <1>5 DEF PublishedInv

(* A new position takes the next id, and the others stay.                  *)
LEMMA PositionAdded ==
  ASSUME PublishedInv, NEW u, NEW c, NEW sid, recordNewPositionInfo(u, c, sid)
  PROVE  /\ PositionsDense'
         /\ nextPositionId \notin DOMAIN positionIdToInfo
         /\ DOMAIN positionIdToInfo' = DOMAIN positionIdToInfo \cup {nextPositionId}
         /\ positionIdToInfo'[nextPositionId].strategyChainId = c
         /\ positionIdToInfo'[nextPositionId].strategyId = sid
         /\ \A id \in DOMAIN positionIdToInfo :
              positionIdToInfo'[id] = positionIdToInfo[id]
<1> DEFINE new == Set(positionIdToInfo, nextPositionId,
                      [owner |-> u, strategyChainId |-> c, strategyId |-> sid])
<1>1. positionIdToInfo' = new /\ nextPositionId' = nextPositionId + 1
  BY DEF recordNewPositionInfo
<1>2. nextPositionId \in Nat /\ DOMAIN positionIdToInfo = 0 .. nextPositionId - 1
  BY DEF PublishedInv, TypeOK, PositionsDense
<1>3. nextPositionId \notin DOMAIN positionIdToInfo
  BY <1>2
<1>4. /\ DOMAIN new = DOMAIN positionIdToInfo \cup {nextPositionId}
      /\ new[nextPositionId] = [owner |-> u, strategyChainId |-> c, strategyId |-> sid]
      /\ \A id \in DOMAIN positionIdToInfo \ {nextPositionId} :
           new[id] = positionIdToInfo[id]
  BY DEF Set
<1> HIDE DEF new
<1>5. PositionsDense'
  BY <1>1, <1>2, <1>4 DEF PositionsDense
<1> QED BY <1>1, <1>3, <1>4, <1>5

(* Opening a position publishes its record, if it is for another chain.    *)
LEMMA PublishedOpening ==
  ASSUME PublishedInv, TypeOK', NEW u, NEW c, NEW sid, recordNewPositionInfo(u, c, sid),
         NEW b, NEW assets, createPositionInternal(b, NewPositionId, c, sid, assets)
  PROVE  PublishedInv'
<1> DEFINE n == nextPositionId
<1>1. /\ PositionsDense'
      /\ n \notin DOMAIN positionIdToInfo
      /\ DOMAIN positionIdToInfo' = DOMAIN positionIdToInfo \cup {n}
      /\ positionIdToInfo'[n].strategyChainId = c
      /\ positionIdToInfo'[n].strategyId = sid
      /\ \A id \in DOMAIN positionIdToInfo : positionIdToInfo'[id] = positionIdToInfo[id]
  BY PositionAdded
<1> HIDE DEF n
<1>2. CASE c = thisChainId
  <2>1. published' = published
    BY <1>2 DEF createPositionInternal, StrategyTakes
  <2>2. Announced'
    BY <1>1, <1>2, <2>1 DEF PublishedInv, Announced
  <2>3. PublishedAsRecorded'
    BY <1>1, <2>1 DEF PublishedInv, PublishedAsRecorded
  <2>4. PublishedSeq'
    BY <2>1 DEF PublishedInv, PublishedSeq, Range
  <2> QED BY <1>1, <2>2, <2>3, <2>4 DEF PublishedInv
<1>3. CASE c # thisChainId
  <2>1. PICK m : /\ published' = Append(published, m)
                 /\ m.kind = "open" /\ m.chain = c
                 /\ m.positionId = n /\ m.strategyId = sid
    BY <1>3 DEF createPositionInternal, publishInstruction, NewPositionId, n
  <2>2. /\ PublishedSeq'
        /\ Len(published) \in Nat
        /\ DOMAIN published = 1 .. Len(published)
        /\ DOMAIN published' = 1 .. Len(published) + 1
        /\ \A i \in DOMAIN published : published'[i] = published[i]
        /\ published'[Len(published) + 1] = m
    BY <2>1, PublicationAdded DEF PublishedInv
  <2>3. \A i \in DOMAIN published' : i \in DOMAIN published \/ i = Len(published) + 1
    BY <2>2
  <2>4. Announced'
    <3>1. DOMAIN published \subseteq DOMAIN published' /\ Len(published) + 1 \in DOMAIN published'
      BY <2>2
    <3> QED BY <1>1, <2>1, <2>2, <3>1 DEF PublishedInv, Announced
  <2>5. \A i \in DOMAIN published : published[i].kind = "open" =>
          published[i].positionId \in DOMAIN positionIdToInfo /\ published[i].positionId # n
    BY <1>1 DEF PublishedInv, PublishedAsRecorded
  <2>6. \A i \in DOMAIN published : 1 .. i - 1 \subseteq DOMAIN published
    BY <2>2
  <2>7. \A i \in DOMAIN published' : published'[i].kind = "execute" =>
          i \in DOMAIN published /\ published'[i] = published[i]
    BY <2>1, <2>2, <2>3
  <2>8. \A i \in DOMAIN published' : published'[i].kind = "open" =>
          /\ published'[i].positionId \in DOMAIN positionIdToInfo'
          /\ positionIdToInfo'[published'[i].positionId].strategyChainId = published'[i].chain
          /\ positionIdToInfo'[published'[i].positionId].strategyId = published'[i].strategyId
    BY <1>1, <2>1, <2>2, <2>3, <2>5 DEF PublishedInv, PublishedAsRecorded
  <2>9. ASSUME NEW i \in DOMAIN published', NEW j \in DOMAIN published',
               published'[i].kind = "open", published'[j].kind = "open",
               published'[i].positionId = published'[j].positionId
        PROVE  i = j
    BY <2>1, <2>2, <2>3, <2>5, <2>9 DEF PublishedInv, PublishedAsRecorded
  <2>10. PublishedAsRecorded'
    BY <2>2, <2>6, <2>7, <2>8, <2>9 DEF PublishedInv, PublishedAsRecorded
  <2> QED BY <1>1, <2>2, <2>4, <2>10 DEF PublishedInv
<1> QED BY <1>2, <1>3

(* A disbursement changes what is published only by announcing itself.     *)
LEMMA PublishedPayout ==
  ASSUME PublishedInv, TypeOK', UNCHANGED positionVars, NEW b, NEW al, NEW s,
         NEW assets, NEW to, disburseAssets(b, al, s, assets, to)
  PROVE  PublishedInv'
<1>1. CASE UNCHANGED published
  BY <1>1, PublishedSame
<1>2. ASSUME NEW m, m.kind = "disburse", published' = Append(published, m)
      PROVE  PublishedInv'
  BY <1>2, PublishedDisbursement
<1> QED BY <1>1, <1>2 DEF disburseAssets

(* So does using a position, unless its strategy is on another chain, which*)
(* then hears of it.                                                       *)
LEMMA PublishedUse ==
  ASSUME PublishedInv, TypeOK', UNCHANGED positionVars, NEW b, NEW id, NEW c, NEW k,
         NEW assets, NEW p, NEW to, executeStrategyInternal(b, id, c, k, assets, p, to),
         \/ c = thisChainId
         \/ id \in DOMAIN positionIdToInfo /\ c = positionIdToInfo[id].strategyChainId
  PROVE  PublishedInv'
<1>1. CASE c = thisChainId
  <2>1. \/ UNCHANGED published
        \/ \E al, s : disburseAssets(b, al, s, p, to)
    BY <1>1 DEF executeStrategyInternal, StrategyTakes
  <2> QED BY <2>1, PublishedSame, PublishedPayout
<1>2. CASE c # thisChainId
  <2>1. PICK m : /\ published' = Append(published, m)
                 /\ m.kind = "execute" /\ m.chain = c /\ m.positionId = id
    BY <1>2 DEF executeStrategyInternal, publishInstruction
  <2> QED BY <1>2, <2>1, PublishedExecution
<1> QED BY <1>1, <1>2

(* Every step keeps publications and records together.                     *)
LEMMA PublishedStep == PublishedInv /\ [Next]_vars => PublishedInv'
<1> SUFFICES ASSUME PublishedInv, [Next]_vars PROVE PublishedInv'
  OBVIOUS
<1>1. TypeOK'
  BY TypeStep DEF PublishedInv
<1>2. ASSUME UNCHANGED <<positionVars, published>> PROVE PublishedInv'
  BY <1>1, <1>2, PublishedSame
<1>3. CASE OwnerStep
  BY <1>2, <1>3, OwnerSteps
<1>4. CASE UserStep
  <2>1. Opens \/ Uses
    BY <1>4, UserSteps
  <2>2. CASE Opens
    BY <1>1, <2>2, PublishedOpening DEF Opens
  <2>3. CASE Uses
    BY <1>1, <2>3, PublishedUse DEF Uses
  <2> QED BY <2>1, <2>2, <2>3
<1>5. CASE PublishStep
  BY <1>2, <1>5, PublishedByOthers
<1>6. CASE (\E x \in transfers : CompleteTransfer(x)) \/ UNCHANGED vars
  BY <1>2, <1>6 DEF CompleteTransfer, vars, positionVars
<1>7. ASSUME NEW v, NEW ts, NEW p, processApertureInstruction(v, ts, p)
      PROVE  PublishedInv'
  <2>1. UNCHANGED positionVars
    BY <1>7 DEF processApertureInstruction
  <2>2. \/ UNCHANGED published
        \/ \E b, assets : executeStrategyInternal(b, v.positionId, thisChainId, v.kind,
                                                  assets, p, v.recipientChain)
    BY <1>7 DEF processApertureInstruction, processSingleTokenDisbursement,
       processMultiTokenDisbursement, createPositionInternal, StrategyTakes
  <2> QED BY <1>1, <1>2, <2>1, <2>2, PublishedUse
<1> QED BY <1>3, <1>4, <1>5, <1>6, <1>7 DEF Next, Process

(* What other chains hear of a position is what this chain recorded: one   *)
(* opening, to the strategy's chain, before every later instruction.       *)
THEOREM Publications == Spec => []PublishedAsRecorded
<1>1. Init => PublishedInv
  <2>1. Init => TypeOK
    BY TypeInit
  <2>2. Init => PublishedSeq /\ PositionsDense /\ Announced /\ PublishedAsRecorded
    BY DEF Init, PublishedSeq, PositionsDense, Announced, PublishedAsRecorded, Empty
  <2> QED BY <2>1, <2>2 DEF PublishedInv
<1>2. PublishedInv /\ [Next]_vars => PublishedInv'
  BY PublishedStep
<1>3. PublishedInv => PublishedAsRecorded
  BY DEF PublishedInv
<1> QED BY <1>1, <1>2, <1>3, PTL DEF Spec

-----------------------------------------------------------------------------
(* ApertureManager implements InstructionLedger.                           *)

(* A token bridge gives each transfer a sequence of its own.               *)
TransfersUnique ==
  \A x, y \in transfers : x.chain = y.chain /\ x.sequence = y.sequence => x = y

(* The sequences in use are past ones.                                     *)
SequencesPast ==
  /\ \A x \in transfers : x.sequence <= extSequence[x.chain]
  /\ \A v \in instructions : \A n \in Range(v.sequences) :
       n \in Nat /\ n <= extSequence[v.emitterChain]

(* No two instructions of a chain name the same transfer.                  *)
SequencesApart ==
  \A v, w \in instructions :
    v.emitterChain = w.emitterChain /\ v # w => Range(v.sequences) \cap Range(w.sequences) = {}

MessagesInv == TransfersUnique /\ SequencesPast /\ SequencesApart

LedgerInv == TypeOK /\ MessagesInv /\ DOMAIN performed = processedInstructions

(* A publication's transfers and sequences are after those already used.   *)
LEMMA PublishFresh ==
  ASSUME TypeOK, NEW c \in OtherChains, NEW e, NEW kind, NEW id, NEW to, NEW sid,
         NEW assets \in Lists(Incoming), NEW swapTo, NEW recipient,
         Publish(c, e, kind, id, to, sid, assets, swapTo, recipient)
  PROVE  /\ extSequence' \in [OtherChains -> Nat]
         /\ \A d \in OtherChains : extSequence[d] <= extSequence'[d]
         /\ transfers \subseteq transfers'
         /\ \A x \in transfers' \ transfers :
              /\ x.chain = c /\ x.sequence \in Nat
              /\ extSequence[c] < x.sequence /\ x.sequence <= extSequence'[c]
         /\ \A x, y \in transfers' \ transfers : x.sequence = y.sequence => x = y
         /\ \E new : /\ instructions' = instructions \cup {new}
                     /\ new.emitterChain = c
                     /\ \A n \in Range(new.sequences) :
                          n \in Nat /\ extSequence[c] < n /\ n <= extSequence'[c]
<1> DEFINE s == extSequence[c]
<1> DEFINE sent(i) == [chain |-> c, sequence |-> s + i, toChain |-> to,
                       token |-> assets[i].token, amount |-> assets[i].amount]
<1> DEFINE seqs == [i \in DOMAIN assets |-> s + i]
<1>1. /\ Len(assets) \in Nat /\ DOMAIN assets = 1 .. Len(assets)
      /\ s \in Nat /\ extSequence \in [OtherChains -> Nat]
  BY ListSeq DEF TypeOK
<1>2. extSequence' = [extSequence EXCEPT ![c] = s + Len(assets)]
  BY DEF Publish
<1>3. /\ extSequence' \in [OtherChains -> Nat]
      /\ extSequence'[c] = s + Len(assets)
      /\ \A d \in OtherChains : extSequence[d] <= extSequence'[d]
  BY <1>1, <1>2
<1>4. transfers' = transfers \cup {sent(i) : i \in DOMAIN assets}
  BY DEF Publish
<1>5. \A i \in DOMAIN assets : /\ s + i \in Nat /\ s < s + i /\ s + i <= extSequence'[c]
  BY <1>1, <1>3
<1>6. \A x \in transfers' \ transfers :
        \E i \in DOMAIN assets : x = sent(i)
  BY <1>4
<1>7. \A x \in transfers' \ transfers :
        /\ x.chain = c /\ x.sequence \in Nat
        /\ s < x.sequence /\ x.sequence <= extSequence'[c]
  BY <1>5, <1>6
<1>8. ASSUME NEW x \in transfers' \ transfers, NEW y \in transfers' \ transfers,
             x.sequence = y.sequence
      PROVE  x = y
  <2>1. PICK i \in DOMAIN assets : x = sent(i)
    BY <1>6
  <2>2. PICK j \in DOMAIN assets : y = sent(j)
    BY <1>6
  <2>3. s + i = s + j
    BY <1>8, <2>1, <2>2
  <2>4. i = j
    BY <1>1, <2>3
  <2> QED BY <2>1, <2>2, <2>4
<1>9. \E new : /\ instructions' = instructions \cup {new}
               /\ new.emitterChain = c
               /\ new.sequences = seqs
  <2> DEFINE new == [emitterChain |-> c, emitter |-> e, hash |-> nextMessage,
                     kind |-> kind, positionId |-> id, toChain |-> to,
                     strategyId |-> sid, swapTo |-> swapTo,
                     recipientChain |-> recipient, sequences |-> seqs]
  <2>1. instructions' = instructions \cup {new}
    BY DEF Publish
  <2>2. new.emitterChain = c /\ new.sequences = seqs
    OBVIOUS
  <2> HIDE DEF new
  <2> QED BY <2>1, <2>2
<1>10. \A n \in Range(seqs) : n \in Nat /\ s < n /\ n <= extSequence'[c]
  BY <1>5 DEF Range
<1> QED BY <1>3, <1>4, <1>7, <1>8, <1>9, <1>10

(* So the messages keep transfers and instructions apart.                  *)
LEMMA MessagesPublished ==
  ASSUME TypeOK, MessagesInv, NEW c \in OtherChains, NEW e, NEW kind, NEW id, NEW to,
         NEW sid, NEW assets \in Lists(Incoming), NEW swapTo, NEW recipient,
         Publish(c, e, kind, id, to, sid, assets, swapTo, recipient)
  PROVE  MessagesInv' /\ \A v \in instructions : TransfersOf(v)' = TransfersOf(v)
<1>1. /\ extSequence' \in [OtherChains -> Nat]
      /\ \A d \in OtherChains : extSequence[d] <= extSequence'[d]
      /\ transfers \subseteq transfers'
      /\ \A x \in transfers' \ transfers :
           /\ x.chain = c /\ x.sequence \in Nat
           /\ extSequence[c] < x.sequence /\ x.sequence <= extSequence'[c]
      /\ \A x, y \in transfers' \ transfers : x.sequence = y.sequence => x = y
  BY PublishFresh
<1>2. PICK new : /\ instructions' = instructions \cup {new}
                 /\ new.emitterChain = c
                 /\ \A n \in Range(new.sequences) :
                      n \in Nat /\ extSequence[c] < n /\ n <= extSequence'[c]
  BY PublishFresh
<1>3. /\ extSequence \in [OtherChains -> Nat]
      /\ \A x \in transfers : x.chain \in OtherChains /\ x.sequence \in Nat
      /\ \A v \in instructions : v.emitterChain \in OtherChains
  BY DEF TypeOK, TransferType, InstructionType
<1>4. TransfersUnique'
  <2> SUFFICES ASSUME NEW x \in transfers', NEW y \in transfers',
                      x.chain = y.chain, x.sequence = y.sequence
               PROVE  x = y
    BY DEF TransfersUnique
  <2>1. \A z \in transfers : z.chain = c => z.sequence <= extSequence[c]
    BY DEF MessagesInv, SequencesPast
  <2>2. CASE x \in transfers /\ y \in transfers
    BY <2>2 DEF MessagesInv, TransfersUnique
  <2>3. CASE x \notin transfers /\ y \notin transfers
    BY <1>1, <2>3
  <2>4. ~ (x \in transfers /\ y \notin transfers)
    BY <1>1, <1>3, <2>1
  <2>5. ~ (x \notin transfers /\ y \in transfers)
    BY <1>1, <1>3, <2>1
  <2> QED BY <2>2, <2>3, <2>4, <2>5
<1>5. SequencesPast'
  <2>1. ASSUME NEW x \in transfers' PROVE x.sequence <= extSequence'[x.chain]
    BY <1>1, <1>3 DEF MessagesInv, SequencesPast
  <2>2. ASSUME NEW v \in instructions', NEW n \in Range(v.sequences)
        PROVE  n \in Nat /\ n <= extSequence'[v.emitterChain]
    BY <1>1, <1>2, <1>3 DEF MessagesInv, SequencesPast
  <2> QED BY <2>1, <2>2 DEF SequencesPast
<1>6. \A v \in instructions : v.emitterChain = c =>
        Range(v.sequences) \cap Range(new.sequences) = {}
  BY <1>2, <1>3 DEF MessagesInv, SequencesPast
<1>7. SequencesApart'
  BY <1>2, <1>6 DEF MessagesInv, SequencesApart
<1>8. ASSUME NEW v \in instructions PROVE TransfersOf(v)' = TransfersOf(v)
  <2>1. \A x \in transfers' \ transfers :
          ~ (x.chain = v.emitterChain /\ x.sequence \in Range(v.sequences))
    BY <1>1, <1>3 DEF MessagesInv, SequencesPast
  <2> QED BY <1>1, <2>1 DEF TransfersOf
<1> QED BY <1>4, <1>5, <1>7, <1>8 DEF MessagesInv

(* Every step keeps the messages apart, and the transfers of instructions  *)
(* already published.                                                      *)
LEMMA MessagesStep ==
  ASSUME TypeOK, MessagesInv, [Next]_vars
  PROVE  MessagesInv' /\ \A v \in instructions : TransfersOf(v)' = TransfersOf(v)
<1> DEFINE Kept == MessagesInv' /\ \A v \in instructions : TransfersOf(v)' = TransfersOf(v)
<1>1. ASSUME UNCHANGED extVars PROVE Kept
  BY <1>1 DEF extVars, MessagesInv, TransfersUnique, SequencesPast, SequencesApart, TransfersOf
<1>2. ASSUME NEW c \in OtherChains, NEW e, NEW l \in Lists(Incoming), NEW to, NEW id,
             PublishOpen(c, e, to, id, l)
      PROVE  Kept
  <2>1. Publish(c, e, "open", Len(extPositions[c][e]), to, id, l, None, c)
    BY <1>2 DEF PublishOpen
  <2> QED BY <2>1, MessagesPublished
<1>3. ASSUME NEW c \in OtherChains, NEW e, NEW l \in Lists(Incoming), NEW k, NEW id,
             NEW to, PublishExecute(c, e, k, id, l, to)
      PROVE  Kept
  <2>1. \E toChain, sid : Publish(c, e, k, id, toChain, sid, l, None, to)
    BY <1>3 DEF PublishExecute
  <2> QED BY <2>1, MessagesPublished
<1>4. ASSUME NEW c \in OtherChains, NEW e, NEW l \in Lists(Incoming), NEW k, NEW to,
             NEW t, PublishDisbursement(c, e, k, to, l, t)
      PROVE  Kept
  <2>1. Publish(c, e, k, 0, to, 0, l, t, to)
    BY <1>4 DEF PublishDisbursement
  <2> QED BY <2>1, MessagesPublished
<1>5. PublishStep => Kept
  <2> HIDE DEF Kept
  <2> QED BY <1>2, <1>3, <1>4 DEF PublishStep
<1>6. ASSUME OwnerStep PROVE Kept
  BY <1>1, <1>6, OwnerSteps
<1>7. ASSUME UserStep PROVE Kept
  BY <1>1, <1>7, UserSteps
<1>8. ASSUME (\E x \in transfers : CompleteTransfer(x)) \/ UNCHANGED vars PROVE Kept
  BY <1>1, <1>8 DEF CompleteTransfer, vars
<1>9. ASSUME \E v \in instructions : Process(v) PROVE Kept
  BY <1>1, <1>9 DEF Process, processApertureInstruction
<1> HIDE DEF Kept
<1>10. Kept
  BY <1>5, <1>6, <1>7, <1>8, <1>9 DEF Next
<1> QED BY <1>10 DEF Kept

(* An instruction is processed with exactly its transfers, which no other  *)
(* instruction has used.                                                   *)
LEMMA TransfersOwn ==
  ASSUME LedgerInv, NEW v \in instructions, NEW ts \in Lists(transfers), NEW p,
         processApertureInstruction(v, ts, p)
  PROVE  /\ TransfersOf(v) \subseteq Range(ts)
         /\ \A w \in processedInstructions : TransfersOf(v) \cap TransfersOf(w) = {}
<1>1. ASSUME NEW x \in TransfersOf(v) PROVE x \in Range(ts)
  <2>1. /\ x \in transfers /\ x.chain = v.emitterChain
        /\ x.sequence \in Range(v.sequences)
    BY <1>1 DEF TransfersOf
  <2>2. v.sequences \in Seq(Nat)
    BY DEF LedgerInv, TypeOK, InstructionType
  <2>3. DOMAIN v.sequences = 1 .. Len(v.sequences)
    BY <2>2
  <2>4. DOMAIN ts = DOMAIN v.sequences
    BY <2>3, ListSeq DEF processApertureInstruction
  <2>5. PICK i \in DOMAIN ts : v.sequences[i] = x.sequence
    BY <2>1, <2>4 DEF Range
  <2>6. /\ ts[i] \in transfers
        /\ ts[i].chain = x.chain /\ ts[i].sequence = x.sequence
    BY <2>1, <2>5, ListSeq DEF processApertureInstruction, MatchesSequence
  <2>7. ts[i] = x
    BY <2>1, <2>6 DEF LedgerInv, MessagesInv, TransfersUnique
  <2> QED BY <2>7 DEF Range
<1>2. ASSUME NEW w \in processedInstructions PROVE TransfersOf(v) \cap TransfersOf(w) = {}
  <2>1. v # w /\ w \in instructions
    BY DEF processApertureInstruction, decodeInstructionVM, LedgerInv, TypeOK
  <2>2. v.emitterChain = w.emitterChain => Range(v.sequences) \cap Range(w.sequences) = {}
    BY <2>1 DEF LedgerInv, MessagesInv, SequencesApart
  <2> QED BY <2>2 DEF TransfersOf
<1> QED BY <1>1, <1>2

(* The refinement mapping's value of the ledger's `paid'.                  *)
Paid == [v \in processedInstructions |-> TransfersOf(v)]

(* Processing an instruction is the ledger's payment for it.               *)
LEMMA ProcessPays ==
  ASSUME LedgerInv, [Next]_vars, NEW v \in instructions, NEW ts \in Lists(transfers),
         NEW p, processApertureInstruction(v, ts, p)
  PROVE  /\ v \in DOMAIN Paid' /\ Ledger!Pay(v)
         /\ DOMAIN performed' = processedInstructions'
<1>1. /\ processedInstructions' = processedInstructions \cup {v}
      /\ completedTransfers' = completedTransfers \cup Range(ts)
      /\ v \notin processedInstructions
      /\ DOMAIN performed = processedInstructions
  BY DEF processApertureInstruction, decodeInstructionVM, LedgerInv
<1>2. \A w \in instructions : TransfersOf(w)' = TransfersOf(w)
  BY MessagesStep DEF LedgerInv
<1>3. processedInstructions \subseteq instructions
  BY DEF LedgerInv, TypeOK
<1>4. /\ DOMAIN Paid' = DOMAIN Paid \cup {v}
      /\ Paid'[v] = TransfersOf(v)
      /\ \A w \in DOMAIN Paid : Paid'[w] = Paid[w]
  BY <1>1, <1>2, <1>3 DEF Paid
<1>5. Paid'[v] \cap UNION {Paid[w] : w \in DOMAIN Paid} = {}
  <2>1. \A w \in DOMAIN Paid : w \in processedInstructions /\ Paid[w] = TransfersOf(w)
    BY DEF Paid
  <2> QED BY <1>4, <2>1, TransfersOwn
<1>6. Paid'[v] \subseteq completedTransfers' /\ completedTransfers \subseteq completedTransfers'
  BY <1>1, <1>4, TransfersOwn
<1>7. v \notin DOMAIN Paid
  BY <1>1 DEF Paid
<1>8. performed' = Set(performed, v, 1)
  BY <1>1 DEF processApertureInstruction
<1>9. /\ DOMAIN performed' = DOMAIN performed \cup {v}
      /\ performed'[v] = 1
      /\ \A w \in DOMAIN performed : performed'[w] = performed[w]
  BY <1>1, <1>8 DEF Set
<1> QED BY <1>1, <1>4, <1>5, <1>6, <1>7, <1>9 DEF Ledger!Pay, Ledger!Spent, Paid

(* Each step of the contract is a step of the ledger or a stutter.         *)
LEMMA LedgerStep ==
  LedgerInv /\ [Next]_vars => LedgerInv' /\ [Ledger!Next]_(Ledger!ledger)
<1> SUFFICES ASSUME LedgerInv, [Next]_vars
             PROVE  LedgerInv' /\ [Ledger!Next]_(Ledger!ledger)
  OBVIOUS
<1>1. TypeOK' /\ MessagesInv'
  BY TypeStep, MessagesStep DEF LedgerInv
<1>2. ASSUME UNCHANGED processedInstructions PROVE Paid' = Paid
  <2>1. \A v \in processedInstructions : TransfersOf(v)' = TransfersOf(v)
    BY MessagesStep DEF LedgerInv, TypeOK
  <2> QED BY <1>2, <2>1 DEF Paid
<1> DEFINE Kept == DOMAIN performed' = processedInstructions' /\ [Ledger!Next]_(Ledger!ledger)
<1>3. ASSUME UNCHANGED inVars PROVE Kept
  BY <1>2, <1>3 DEF inVars, LedgerInv, Ledger!ledger, Paid
<1>4. ASSUME NEW x, CompleteTransfer(x) PROVE Kept
  <2>1. /\ completedTransfers \subseteq completedTransfers'
        /\ UNCHANGED <<processedInstructions, performed>>
    BY <1>4 DEF CompleteTransfer
  <2>2. Ledger!Arrive
    BY <1>2, <2>1 DEF Ledger!Arrive, Paid
  <2> QED BY <2>1, <2>2 DEF Ledger!Next, LedgerInv
<1>5. ASSUME NEW v \in instructions, NEW ts \in Lists(transfers), NEW p,
             processApertureInstruction(v, ts, p)
      PROVE  Kept
  <2>1. /\ v \in DOMAIN Paid' /\ Ledger!Pay(v)
        /\ DOMAIN performed' = processedInstructions'
    BY <1>5, ProcessPays
  <2> QED BY <2>1 DEF Ledger!Next, Paid
<1>6. ASSUME OwnerStep PROVE Kept
  BY <1>3, <1>6, OwnerSteps
<1>7. ASSUME UserStep PROVE Kept
  BY <1>3, <1>7, UserSteps
<1>8. ASSUME PublishStep PROVE Kept
  BY <1>3, <1>8, PublishedByOthers
<1>9. ASSUME UNCHANGED vars PROVE Kept
  BY <1>3, <1>9 DEF vars
<1> HIDE DEF Kept
<1>10. Kept
  BY <1>4, <1>5, <1>6, <1>7, <1>8, <1>9 DEF Next, Process
<1> QED BY <1>1, <1>10 DEF Kept, LedgerInv

(* The contract keeps InstructionLedger's promises: no instruction is      *)
(* processed twice, and no transfer pays for two or before it has arrived. *)
THEOREM LedgerImplemented == Spec => ImplementsInstructionLedger
<1>1. Init => LedgerInv /\ Ledger!Init
  <2>1. Init => TypeOK
    BY TypeInit
  <2>2. Init => MessagesInv /\ DOMAIN performed = processedInstructions
    BY DEF Init, MessagesInv, TransfersUnique, SequencesPast, SequencesApart, Empty
  <2>3. Init => Ledger!Init
    BY DEF Init, Ledger!Init, Empty
  <2> QED BY <2>1, <2>2, <2>3 DEF LedgerInv
<1>2. LedgerInv /\ [Next]_vars => LedgerInv' /\ [Ledger!Next]_(Ledger!ledger)
  BY LedgerStep
<1> QED BY <1>1, <1>2, PTL DEF Spec, ImplementsInstructionLedger, Ledger!Spec

-----------------------------------------------------------------------------
(* Amounts: the sums over lists of assets and sets of transfers.           *)

AssetRecords == [token : Tokens, amount : Nat]
AssetLists == Seq(AssetRecords)

(* A function on the first numbers is a sequence, and a sequence one.      *)
LEMMA SeqOf ==
  ASSUME NEW S, NEW n \in Nat, NEW f \in [1 .. n -> S]
  PROVE  f \in Seq(S)
OBVIOUS

LEMMA SeqParts ==
  ASSUME NEW S, NEW q \in Seq(S)
  PROVE  /\ DOMAIN q = 1 .. Len(q) /\ Len(q) \in Nat
         /\ \A i \in DOMAIN q : q[i] \in S
OBVIOUS

(* The amounts of one token in the elements of a list.                     *)
Column(l, t) == [i \in DOMAIN l |-> AmountIn(l[i], t)]

LEMMA TotalAt ==
  ASSUME NEW l, NEW t \in Tokens
  PROVE  Total(l)[t] = SumFunctionOnSet(Column(l, t), DOMAIN l)
<1>1. DOMAIN Column(l, t) = DOMAIN l
  BY DEF Column
<1>2. Total(l)[t] = SumFunction(Column(l, t))
  BY DEF Total, Column
<1> QED BY <1>1, <1>2 DEF SumFunction

LEMMA AssetListParts ==
  ASSUME NEW l \in AssetLists
  PROVE  /\ DOMAIN l = 1 .. Len(l) /\ Len(l) \in Nat /\ IsFiniteSet(DOMAIN l)
         /\ \A i \in DOMAIN l : l[i].token \in Tokens /\ l[i].amount \in Nat
         /\ \A t : \A i \in DOMAIN l : Column(l, t)[i] \in Nat
<1>1. /\ DOMAIN l = 1 .. Len(l) /\ Len(l) \in Nat
      /\ \A i \in DOMAIN l : l[i] \in AssetRecords
  BY SeqParts DEF AssetLists
<1>2. IsFiniteSet(DOMAIN l)
  BY <1>1, FS_Interval
<1> QED BY <1>1, <1>2 DEF Column, AmountIn, AssetRecords

LEMMA TotalNat ==
  ASSUME NEW l \in AssetLists
  PROVE  Total(l) \in [Tokens -> Nat]
<1>1. \A t \in Tokens : Total(l)[t] \in Nat
  BY TotalAt, AssetListParts, SumNat
<1>2. DOMAIN Total(l) = Tokens /\ Total(l) = [t \in Tokens |-> Total(l)[t]]
  BY DEF Total
<1> QED BY <1>1, <1>2

(* No fee is more than the amount, nor what the bridge carries more than   *)
(* the rest.                                                               *)
LEMMA FeeCarried ==
  ASSUME NEW t, NEW a \in Nat, feeBps \in 0 .. BPS
  PROVE  /\ Fee(a) \in Nat /\ Carried(t, a - Fee(a)) \in Nat
         /\ a - Fee(a) - Carried(t, a - Fee(a)) \in Nat
<1>1. BPS \in Nat /\ BPS > 0 /\ WethUnit \in Nat /\ WethUnit > 0
  BY NumbersAssumption
<1>2. Fee(a) \in Nat /\ Fee(a) <= a
  BY <1>1 DEF Fee
<1> DEFINE r == a - Fee(a)
<1>3. r \in Nat
  BY <1>2
<1> HIDE DEF r
<1>4. Carried(t, r) \in Nat /\ Carried(t, r) <= r
  BY <1>1, <1>3 DEF Carried
<1>5. r - Carried(t, r) \in Nat
  BY <1>3, <1>4
<1> QED BY <1>2, <1>4, <1>5 DEF r

(* What the fee sink and the bridge get of some assets is not more than    *)
(* the assets.                                                             *)
LEMMA SentSplit ==
  ASSUME NEW l \in AssetLists, feeBps \in 0 .. BPS
  PROVE  /\ Fees(l) \in AssetLists /\ Bridged(l) \in AssetLists
         /\ \A t \in Tokens :
              Total(l)[t] - Total(Fees(l))[t] - Total(Bridged(l))[t] \in Nat
<1>1. /\ DOMAIN l = 1 .. Len(l) /\ Len(l) \in Nat /\ IsFiniteSet(DOMAIN l)
      /\ \A i \in DOMAIN l : l[i].token \in Tokens /\ l[i].amount \in Nat
  BY AssetListParts
<1> DEFINE F == Fees(l)
           G == Bridged(l)
<1>2. /\ DOMAIN F = DOMAIN l /\ DOMAIN G = DOMAIN l
      /\ \A i \in DOMAIN l :
           /\ F[i] = Asset(l[i].token, Fee(l[i].amount))
           /\ G[i] = Asset(l[i].token,
                           Carried(l[i].token, l[i].amount - Fee(l[i].amount)))
  BY DEF Fees, Bridged
<1>3. F \in AssetLists /\ G \in AssetLists
  <2>1. \A i \in 1 .. Len(l) : /\ F[i] \in AssetRecords
                               /\ G[i] \in AssetRecords
    BY <1>1, <1>2, FeeCarried DEF Asset, AssetRecords
  <2>2. /\ F = [i \in 1 .. Len(l) |-> F[i]]
        /\ G = [i \in 1 .. Len(l) |-> G[i]]
    BY <1>1 DEF Fees, Bridged
  <2> HIDE DEF F, G
  <2>3. /\ F \in [1 .. Len(l) -> AssetRecords]
        /\ G \in [1 .. Len(l) -> AssetRecords]
    BY <2>1, <2>2
  <2> QED BY <1>1, <2>3, SeqOf DEF AssetLists
<1>4. ASSUME NEW t \in Tokens
      PROVE  Total(l)[t] - Total(F)[t] - Total(G)[t] \in Nat
  <2> DEFINE a == Column(l, t)
             f == Column(F, t)
             g == Column(G, t)
             dust == [i \in DOMAIN l |-> a[i] - f[i] - g[i]]
             rest == [i \in DOMAIN l |-> a[i] - f[i]]
             Sum(c) == SumFunctionOnSet(c, DOMAIN l)
  <2>1. Total(l)[t] = Sum(a) /\ Total(F)[t] = Sum(f) /\ Total(G)[t] = Sum(g)
    BY <1>2, TotalAt
  <2>2. \A i \in DOMAIN l :
          /\ a[i] \in Nat /\ f[i] \in Nat /\ g[i] \in Nat
          /\ a[i] - f[i] - g[i] \in Nat
    <3> SUFFICES ASSUME NEW i \in DOMAIN l
                 PROVE  /\ a[i] \in Nat /\ f[i] \in Nat /\ g[i] \in Nat
                        /\ a[i] - f[i] - g[i] \in Nat
      OBVIOUS
    <3> DEFINE n == l[i].amount
    <3>1. a[i] = IF l[i].token = t THEN n ELSE 0
      BY DEF Column, AmountIn
    <3>2. f[i] = IF l[i].token = t THEN Fee(n) ELSE 0
      BY <1>2 DEF Column, AmountIn, Asset
    <3>3. g[i] = IF l[i].token = t THEN Carried(l[i].token, n - Fee(n)) ELSE 0
      BY <1>2 DEF Column, AmountIn, Asset
    <3>4. n \in Nat
      BY <1>1
    <3> HIDE DEF n, a, f, g
    <3>5. /\ Fee(n) \in Nat /\ Carried(l[i].token, n - Fee(n)) \in Nat
          /\ n - Fee(n) - Carried(l[i].token, n - Fee(n)) \in Nat
      BY <3>4, FeeCarried
    <3> QED BY <3>1, <3>2, <3>3, <3>4, <3>5
  <2> HIDE DEF a, f, g
  <2>3. ASSUME NEW i \in DOMAIN l
        PROVE  /\ f[i] \in Int /\ rest[i] \in Int /\ a[i] = f[i] + rest[i]
               /\ g[i] \in Int /\ dust[i] \in Int /\ dust[i] \in Nat
               /\ rest[i] = g[i] + dust[i]
    <3>1. rest[i] = a[i] - f[i] /\ dust[i] = a[i] - f[i] - g[i]
      OBVIOUS
    <3>2. /\ a[i] \in Nat /\ f[i] \in Nat /\ g[i] \in Nat
          /\ a[i] - f[i] - g[i] \in Nat
      BY <2>2
    <3> HIDE DEF rest, dust
    <3> QED BY <3>1, <3>2
  <2> HIDE DEF rest, dust
  <2>4. Sum(a) = Sum(f) + Sum(rest)
    BY <1>1, <2>3, SumPlus
  <2>5. Sum(rest) = Sum(g) + Sum(dust)
    BY <1>1, <2>3, SumPlus
  <2>6. Sum(dust) \in Nat
    BY <1>1, <2>3, SumNat
  <2>7. Sum(f) \in Int /\ Sum(g) \in Int
    BY <1>1, <2>3, SumInt
  <2> HIDE DEF Sum
  <2> QED BY <2>1, <2>4, <2>5, <2>6, <2>7
<1> QED BY <1>3, <1>4

(* What a set of transfers holds.                                          *)
Counted(T) == IsFiniteSet(T) /\ \A x \in T : x.amount \in Nat

LEMMA TokensOfAt ==
  ASSUME NEW T, NEW t \in Tokens
  PROVE  TokensOf(T)[t] = SumFunctionOnSet([x \in T |-> AmountIn(x, t)], T)
<1> DEFINE f == [x \in T |-> AmountIn(x, t)]
<1>1. DOMAIN f = T
  OBVIOUS
<1>2. TokensOf(T)[t] = SumFunction(f)
  BY DEF TokensOf
<1> HIDE DEF f
<1>3. TokensOf(T)[t] = SumFunctionOnSet(f, T)
  BY <1>1, <1>2 DEF SumFunction
<1> QED BY <1>3 DEF f

LEMMA TokensOfNat ==
  ASSUME NEW T, Counted(T)
  PROVE  TokensOf(T) \in [Tokens -> Nat]
<1>1. ASSUME NEW t \in Tokens PROVE TokensOf(T)[t] \in Nat
  <2> DEFINE f == [x \in T |-> AmountIn(x, t)]
  <2>1. IsFiniteSet(T) /\ \A x \in T : f[x] \in Nat
    BY DEF Counted, AmountIn
  <2>2. TokensOf(T)[t] = SumFunctionOnSet(f, T)
    BY TokensOfAt
  <2> HIDE DEF f
  <2> QED BY <2>1, <2>2, SumNat
<1>2. TokensOf(T) = [t \in Tokens |-> TokensOf(T)[t]]
  BY DEF TokensOf
<1> QED BY <1>1, <1>2

LEMMA TokensOfSplit ==
  ASSUME NEW T, Counted(T), NEW S \in SUBSET T
  PROVE  /\ Counted(S) /\ Counted(T \ S)
         /\ \A t \in Tokens : TokensOf(T)[t] = TokensOf(S)[t] + TokensOf(T \ S)[t]
<1>1. Counted(S) /\ Counted(T \ S)
  BY FS_Subset DEF Counted
<1>2. ASSUME NEW t \in Tokens
      PROVE  TokensOf(T)[t] = TokensOf(S)[t] + TokensOf(T \ S)[t]
  <2> DEFINE k(U) == [x \in U |-> AmountIn(x, t)]
  <2>1. \A U : TokensOf(U)[t] = SumFunctionOnSet(k(U), U)
    BY TokensOfAt
  <2>2. \A x \in T : k(T)[x] \in Nat
    BY DEF Counted, AmountIn
  <2>3. IsFiniteSet(T) /\ IsFiniteSet(S) /\ IsFiniteSet(T \ S)
    BY <1>1 DEF Counted
  <2>4. (\A x \in S : k(T)[x] = k(S)[x]) /\ (\A x \in T \ S : k(T)[x] = k(T \ S)[x])
    OBVIOUS
  <2> HIDE DEF k
  <2>5. SumFunctionOnSet(k(T), T)
          = SumFunctionOnSet(k(T), S) + SumFunctionOnSet(k(T), T \ S)
    BY <2>2, <2>3, SumSubset
  <2>6. SumFunctionOnSet(k(T), S) = SumFunctionOnSet(k(S), S)
    BY <2>3, <2>4, SumSame
  <2>7. SumFunctionOnSet(k(T), T \ S) = SumFunctionOnSet(k(T \ S), T \ S)
    BY <2>3, <2>4, SumSame
  <2> QED BY <2>1, <2>5, <2>6, <2>7
<1> QED BY <1>1, <1>2

(* A list of different transfers holds what their set does.                *)
LEMMA TransferredTotal ==
  ASSUME NEW ts \in Seq(TransferType), \A i, j \in DOMAIN ts : ts[i] = ts[j] => i = j
  PROVE  /\ TransferredAssets(ts) \in AssetLists /\ Counted(Range(ts))
         /\ \A t \in Tokens : Total(TransferredAssets(ts))[t] = TokensOf(Range(ts))[t]
<1> DEFINE l == TransferredAssets(ts)
<1>1. /\ DOMAIN ts = 1 .. Len(ts) /\ Len(ts) \in Nat
      /\ \A i \in DOMAIN ts : ts[i].token \in Tokens /\ ts[i].amount \in Nat
  <2>1. /\ DOMAIN ts = 1 .. Len(ts) /\ Len(ts) \in Nat
        /\ \A i \in DOMAIN ts : ts[i] \in TransferType
    BY SeqParts
  <2> QED BY <2>1 DEF TransferType
<1>2. DOMAIN l = DOMAIN ts /\ \A i \in DOMAIN ts : l[i] = Asset(ts[i].token, ts[i].amount)
  BY DEF TransferredAssets
<1>3. l \in AssetLists
  <2>1. \A i \in 1 .. Len(ts) : l[i] \in AssetRecords
    BY <1>1, <1>2 DEF Asset, AssetRecords
  <2>2. l = [i \in 1 .. Len(ts) |-> l[i]]
    BY <1>1 DEF TransferredAssets
  <2> HIDE DEF l
  <2>3. l \in [1 .. Len(ts) -> AssetRecords]
    BY <2>1, <2>2
  <2> QED BY <1>1, <2>3, SeqOf DEF AssetLists
<1>4. IsFiniteSet(DOMAIN ts)
  BY <1>1, FS_Interval
<1>5. Counted(Range(ts))
  <2>1. ts \in Surjection(DOMAIN ts, Range(ts))
    BY DEF Surjection, Range
  <2>2. IsFiniteSet(Range(ts))
    BY <1>4, <2>1, FS_Surjection
  <2> QED BY <1>1, <2>2 DEF Counted, Range
<1>6. ASSUME NEW t \in Tokens PROVE Total(l)[t] = TokensOf(Range(ts))[t]
  <2> DEFINE f == Column(l, t)
             g == [x \in Range(ts) |-> AmountIn(x, t)]
  <2>1. Total(l)[t] = SumFunctionOnSet(f, DOMAIN ts)
    BY <1>2, TotalAt
  <2>2. TokensOf(Range(ts))[t] = SumFunctionOnSet(g, Range(ts))
    BY TokensOfAt
  <2>3. \A i \in DOMAIN ts : f[i] \in Nat /\ g[ts[i]] = f[i]
    BY <1>1, <1>2 DEF Column, AmountIn, Asset, Range
  <2>4. Range(ts) = {ts[i] : i \in DOMAIN ts}
    BY DEF Range
  <2> HIDE DEF f, g
  <2>5. \A i \in DOMAIN ts : f[i] \in Int /\ g[ts[i]] = f[i]
    BY <2>3
  <2>6. SumFunctionOnSet(f, DOMAIN ts) = SumFunctionOnSet(g, {ts[i] : i \in DOMAIN ts})
    BY <1>4, <2>5, SumReindexed
  <2> QED BY <2>1, <2>2, <2>4, <2>6
<1> QED BY <1>3, <1>5, <1>6

-----------------------------------------------------------------------------
(* The manager's solvency.                                                 *)

(* A finite set of integers has a greatest one.                            *)
LEMMA FiniteMaximum ==
  ASSUME NEW S \in SUBSET Int, IsFiniteSet(S), S # {}
  PROVE  \E i \in S : \A j \in S : j <= i
<1> DEFINE HasMax(T) == \E i \in T : \A j \in T : j <= i
           B == {T \in SUBSET S : T # {} /\ ~HasMax(T)}
<1>1. ASSUME B # {} PROVE FALSE
  <2>1. PICK T \in B : \A U \in SUBSET T : U # T => U \notin B
    <3> HIDE DEF B
    <3>1. B \in SUBSET SUBSET S
      BY DEF B
    <3> QED BY <1>1, <3>1, MinimalSubset
  <2>2. T \in SUBSET S /\ T # {} /\ ~HasMax(T)
    OBVIOUS
  <2>3. PICK e : e \in T
    BY <2>2
  <2>4. T \ {e} = {} \/ HasMax(T \ {e})
    BY <2>1, <2>2, <2>3
  <2>5. CASE T \ {e} = {}
    BY <2>2, <2>3, <2>5
  <2>6. CASE HasMax(T \ {e})
    <3>1. PICK m \in T \ {e} : \A j \in T \ {e} : j <= m
      BY <2>6
    <3>2. CASE e <= m
      BY <2>2, <3>1, <3>2
    <3>3. CASE m <= e
      BY <2>2, <2>3, <3>1, <3>3
    <3> QED BY <2>2, <2>3, <3>1, <3>2, <3>3
  <2> QED BY <2>4, <2>5, <2>6
<1> QED BY <1>1

(* Balances b, allowances al and holdings h that leave W for others.       *)
Safe(b, al, h, W) ==
  /\ b \in [Tokens -> Nat]
  /\ \A t \in Tokens : b[t] >= W[t] + al[TokenBridge][t]
  /\ al \in [Spenders -> [Tokens -> Nat]]
  /\ \A s \in StrategyManagers : al[s] = Nothing
  /\ \A s \in StrategyManagers : \A key \in DOMAIN h[s] : h[s][key] \in [Tokens -> Nat]

(* Balances b from which assets l may be spent and W is left.              *)
Funded(b, al, l, W) ==
  /\ b \in [Tokens -> Nat]
  /\ \A t \in Tokens : b[t] >= W[t] + Total(l)[t] + al[TokenBridge][t]

LEMMA AllowancesParts ==
  ASSUME NEW al \in [Spenders -> [Tokens -> Nat]]
  PROVE  /\ al[TokenBridge] \in [Tokens -> Nat]
         /\ \A s \in StrategyManagers : al[s] \in [Tokens -> Nat] /\ s # TokenBridge
         /\ TokenBridge \in Spenders /\ StrategyManagers \subseteq Spenders
BY SpendersAssumption DEF Spenders

(* The bridge takes the assets less the fees or may still take them.       *)
LEMMA SendStep ==
  ASSUME NEW b, NEW al \in [Spenders -> [Tokens -> Nat]], NEW l \in AssetLists,
         NEW W \in [Tokens -> Nat], feeBps \in 0 .. BPS,
         Funded(b, al, l, W), SendCrossChain(b, al, l)
  PROVE  /\ balance' \in [Tokens -> Nat]
         /\ \A t \in Tokens : balance'[t] >= W[t] + allowance'[TokenBridge][t]
         /\ allowance' \in [Spenders -> [Tokens -> Nat]]
         /\ \A s \in StrategyManagers : allowance'[s] = al[s]
<1> DEFINE a == Total(l)
           f == Total(Fees(l))
           g == Total(Bridged(l))
           d == al[TokenBridge]
           n == Minus(Plus(d, Minus(a, f)), g)
<1>1. /\ a \in [Tokens -> Nat] /\ f \in [Tokens -> Nat] /\ g \in [Tokens -> Nat]
      /\ \A t \in Tokens : a[t] - f[t] - g[t] \in Nat
  BY SentSplit, TotalNat
<1>2. d \in [Tokens -> Nat] /\ TokenBridge \in Spenders
      /\ \A s \in StrategyManagers : s \in Spenders /\ s # TokenBridge
  BY AllowancesParts
<1>3. /\ balance' = Minus(b, Plus(f, g))
      /\ allowance' = [al EXCEPT ![TokenBridge] = n]
  BY DEF SendCrossChain
<1>4. /\ b \in [Tokens -> Nat]
      /\ \A t \in Tokens : b[t] >= W[t] + a[t] + d[t]
  BY DEF Funded
<1> HIDE DEF a, f, g, d
<1>5. ASSUME NEW t \in Tokens
      PROVE  /\ balance'[t] = b[t] - (f[t] + g[t])
             /\ n[t] = d[t] + (a[t] - f[t]) - g[t]
             /\ balance'[t] \in Nat /\ n[t] \in Nat
             /\ balance'[t] >= W[t] + n[t]
  <2>1. balance'[t] = b[t] - (f[t] + g[t])
    BY <1>3 DEF Minus, Plus
  <2>2. n[t] = d[t] + (a[t] - f[t]) - g[t]
    BY <1>1, <1>2 DEF Minus, Plus
  <2> HIDE DEF n
  <2>3. /\ a[t] \in Nat /\ f[t] \in Nat /\ g[t] \in Nat /\ d[t] \in Nat /\ b[t] \in Nat
        /\ W[t] \in Nat /\ a[t] - f[t] - g[t] \in Nat /\ b[t] >= W[t] + a[t] + d[t]
    BY <1>1, <1>2, <1>4
  <2> QED BY <2>1, <2>2, <2>3
<1>6. balance' \in [Tokens -> Nat]
  <2>1. balance' = [t \in Tokens |-> balance'[t]]
    BY <1>3 DEF Minus
  <2> QED BY <1>5, <2>1
<1>7. n \in [Tokens -> Nat]
  <2>1. n = [t \in Tokens |-> n[t]]
    BY DEF Minus
  <2> HIDE DEF n
  <2> QED BY <1>5, <2>1
<1> HIDE DEF n
<1>8. allowance' \in [Spenders -> [Tokens -> Nat]] /\ allowance'[TokenBridge] = n
      /\ \A s \in StrategyManagers : allowance'[s] = al[s]
  BY <1>2, <1>3, <1>7
<1> QED BY <1>5, <1>6, <1>8

(* Holdings stay amounts when one is set to some.                          *)
LEMMA HeldAmounts ==
  ASSUME NEW h, NEW s \in StrategyManagers, NEW key, NEW value \in [Tokens -> Nat],
         DOMAIN h = StrategyManagers,
         \A r \in StrategyManagers : \A k \in DOMAIN h[r] : h[r][k] \in [Tokens -> Nat],
         NEW g, g = [h EXCEPT ![s] = Set(@, key, value)]
  PROVE  \A r \in StrategyManagers : \A k \in DOMAIN g[r] : g[r][k] \in [Tokens -> Nat]
<1> SUFFICES ASSUME NEW r \in StrategyManagers, NEW k \in DOMAIN g[r]
             PROVE  g[r][k] \in [Tokens -> Nat]
  OBVIOUS
<1>1. CASE r # s
  BY <1>1
<1>2. CASE r = s
  <2>1. g[r] = Set(h[s], key, value)
    BY <1>2
  <2> QED BY <2>1 DEF Set
<1> QED BY <1>1, <1>2

LEMMA HeldForNat ==
  ASSUME NEW s \in StrategyManagers, NEW key,
         \A k \in DOMAIN held[s] : held[s][k] \in [Tokens -> Nat]
  PROVE  HeldFor(s, key) \in [Tokens -> Nat]
BY DEF HeldFor, Nothing

(* A strategy takes the assets, and all that it was allowed.               *)
LEMMA TakesStep ==
  ASSUME NEW b, NEW al \in [Spenders -> [Tokens -> Nat]], NEW s \in StrategyManagers,
         NEW key, NEW l \in AssetLists, NEW W \in [Tokens -> Nat], NEW V,
         Safe(balance, allowance, held, V), DOMAIN held = StrategyManagers,
         Funded(b, al, l, W), StrategyTakes(b, al, s, key, l),
         \A t \in Tokens : al[s][t] <= Total(l)[t],
         \A r \in StrategyManagers : r # s => al[r] = Nothing
  PROVE  Safe(balance', allowance', held', W)
<1> DEFINE a == Total(l)
           new == Plus(HeldFor(s, key), a)
           rest == Minus(al[s], a)
<1>1. /\ balance' = Minus(b, a)
      /\ allowance' = [al EXCEPT ![s] = rest]
      /\ held' = [held EXCEPT ![s] = Set(@, key, new)]
      /\ \A t \in Tokens : a[t] <= al[s][t]
  BY DEF StrategyTakes
<1>2. a \in [Tokens -> Nat]
  BY TotalNat
<1>3. /\ b \in [Tokens -> Nat]
      /\ \A t \in Tokens : b[t] >= W[t] + a[t] + al[TokenBridge][t]
      /\ \A t \in Tokens : al[s][t] <= a[t]
  BY DEF Funded
<1>4. /\ al[TokenBridge] \in [Tokens -> Nat] /\ al[s] \in [Tokens -> Nat] /\ s # TokenBridge
      /\ s \in Spenders /\ TokenBridge \in Spenders /\ StrategyManagers \subseteq Spenders
  BY AllowancesParts
<1> HIDE DEF a
<1>5. rest = Nothing
  <2>1. \A t \in Tokens : al[s][t] - a[t] = 0
    BY <1>1, <1>2, <1>3, <1>4
  <2> QED BY <2>1 DEF Minus, Nothing
<1>6. new \in [Tokens -> Nat]
  <2>1. HeldFor(s, key) \in [Tokens -> Nat]
    BY HeldForNat DEF Safe
  <2> QED BY <1>2, <2>1 DEF Plus
<1> HIDE DEF rest, new
<1>7. \A r \in StrategyManagers : \A k \in DOMAIN held'[r] : held'[r][k] \in [Tokens -> Nat]
  BY <1>1, <1>6, HeldAmounts DEF Safe
<1>8. /\ allowance' \in [Spenders -> [Tokens -> Nat]]
      /\ allowance'[TokenBridge] = al[TokenBridge]
      /\ \A r \in StrategyManagers : allowance'[r] = Nothing
  <2>1. Nothing \in [Tokens -> Nat]
    BY DEF Nothing
  <2> QED BY <1>1, <1>4, <1>5, <2>1
<1>9. /\ balance' \in [Tokens -> Nat]
      /\ \A t \in Tokens : balance'[t] >= W[t] + al[TokenBridge][t]
  <2>1. \A t \in Tokens : /\ balance'[t] = b[t] - a[t]
                          /\ b[t] - a[t] \in Nat
                          /\ b[t] - a[t] >= W[t] + al[TokenBridge][t]
    BY <1>1, <1>2, <1>3, <1>4 DEF Minus
  <2>2. balance' = [t \in Tokens |-> balance'[t]]
    BY <1>1 DEF Minus
  <2> QED BY <2>1, <2>2
<1> QED BY <1>7, <1>8, <1>9 DEF Safe

(* What is approved of a token is no more than what a list holds of it.    *)
LEMMA ApprovedStep ==
  ASSUME NEW s \in StrategyManagers, NEW l \in AssetLists, NEW V,
         Safe(balance, allowance, held, V)
  PROVE  /\ Approved(s, l) \in [Spenders -> [Tokens -> Nat]]
         /\ Approved(s, l)[TokenBridge] = allowance[TokenBridge]
         /\ \A t \in Tokens : Approved(s, l)[s][t] <= Total(l)[t]
         /\ \A r \in StrategyManagers : r # s => Approved(s, l)[r] = Nothing
<1> DEFINE new == [t \in Tokens |-> IF \E i \in DOMAIN l : l[i].token = t
                                    THEN LastAmount(l, t) ELSE allowance[s][t]]
<1>1. /\ allowance \in [Spenders -> [Tokens -> Nat]]
      /\ \A r \in StrategyManagers : allowance[r] = Nothing
  BY DEF Safe
<1>2. /\ s # TokenBridge /\ s \in Spenders /\ TokenBridge \in Spenders
      /\ StrategyManagers \subseteq Spenders
  BY <1>1, AllowancesParts
<1>3. Approved(s, l) = [allowance EXCEPT ![s] = new]
  BY DEF Approved
<1>4. ASSUME NEW t \in Tokens
      PROVE  new[t] \in Nat /\ new[t] <= Total(l)[t]
  <2>1. CASE \E i \in DOMAIN l : l[i].token = t
    <3> DEFINE I == {i \in DOMAIN l : l[i].token = t}
               last == CHOOSE i \in I : \A j \in I : j <= i
    <3>1. /\ DOMAIN l = 1 .. Len(l) /\ Len(l) \in Nat /\ IsFiniteSet(DOMAIN l)
          /\ \A i \in DOMAIN l : l[i].amount \in Nat
          /\ \A i \in DOMAIN l : Column(l, t)[i] \in Nat
      BY AssetListParts
    <3>2. \E i \in I : \A j \in I : j <= i
      <4>1. I # {} /\ I \subseteq Int /\ IsFiniteSet(I)
        BY <2>1, <3>1, FS_Subset
      <4> HIDE DEF I
      <4> QED BY <4>1, FiniteMaximum
    <3>3. last \in I
      BY <3>2
    <3>4. new[t] = l[last].amount
      BY <2>1 DEF LastAmount
    <3> HIDE DEF last
    <3>5. last \in DOMAIN l /\ Column(l, t)[last] = l[last].amount
      BY <3>3 DEF Column, AmountIn
    <3>6. Column(l, t)[last] <= SumFunctionOnSet(Column(l, t), DOMAIN l)
      BY <3>1, <3>5, SumBoundsElement
    <3> QED BY <3>1, <3>4, <3>5, <3>6, TotalAt
  <2>2. CASE ~ \E i \in DOMAIN l : l[i].token = t
    <3>1. new[t] = 0
      BY <1>1, <2>2 DEF Nothing
    <3>2. Total(l)[t] \in Nat
      BY TotalNat
    <3> QED BY <3>1, <3>2
  <2> QED BY <2>1, <2>2
<1>5. new \in [Tokens -> Nat]
  BY <1>4
<1> HIDE DEF new
<1> QED BY <1>1, <1>2, <1>3, <1>4, <1>5

(* Opening a position spends the assets, whatever W is for.                *)
LEMMA CreateSafe ==
  ASSUME TypeOK, feeBps \in 0 .. BPS, NEW V, Safe(balance, allowance, held, V),
         NEW b, NEW id, NEW c, NEW sid, NEW l \in AssetLists, NEW W \in [Tokens -> Nat],
         Funded(b, allowance, l, W), createPositionInternal(b, id, c, sid, l)
  PROVE  Safe(balance', allowance', held', W)
<1>1. allowance \in [Spenders -> [Tokens -> Nat]]
  BY DEF Safe
<1>2. CASE publishInstruction(b, "open", c, id, sid, l)
  <2>1. SendCrossChain(b, allowance, l) /\ held' = held
    BY <1>2 DEF publishInstruction
  <2> QED BY <1>1, <2>1, SendStep DEF Safe
<1>3. CASE /\ sid \in DOMAIN strategyIdToMetadata
           /\ LET s == strategyIdToMetadata[sid]
              IN StrategyTakes(b, Approved(s, l), s, PositionInfo(id, c), l)
  <2> DEFINE s == strategyIdToMetadata[sid]
             al == Approved(s, l)
             key == PositionInfo(id, c)
  <2>1. s \in StrategyManagers /\ DOMAIN held = StrategyManagers
    BY <1>3 DEF TypeOK
  <2>2. StrategyTakes(b, al, s, key, l)
    BY <1>3
  <2> HIDE DEF s, key
  <2>3. /\ al \in [Spenders -> [Tokens -> Nat]]
        /\ al[TokenBridge] = allowance[TokenBridge]
        /\ \A t \in Tokens : al[s][t] <= Total(l)[t]
        /\ \A r \in StrategyManagers : r # s => al[r] = Nothing
    BY <2>1, ApprovedStep
  <2> HIDE DEF al
  <2>4. Funded(b, al, l, W)
    BY <2>3 DEF Funded
  <2> QED BY <2>1, <2>2, <2>3, <2>4, TakesStep
<1> QED BY <1>2, <1>3 DEF createPositionInternal

(* So does using one; what a strategy pays out leaves with what came.      *)
LEMMA ExecuteSafe ==
  ASSUME TypeOK, feeBps \in 0 .. BPS, NEW V, Safe(balance, allowance, held, V),
         NEW b, NEW id, NEW c, NEW action, NEW l \in AssetLists,
         NEW payout \in AssetLists, NEW to, NEW W \in [Tokens -> Nat],
         Funded(b, allowance, l, W),
         executeStrategyInternal(b, id, c, action, l, payout, to)
  PROVE  Safe(balance', allowance', held', W)
<1> DEFINE s == strategyIdToMetadata[StrategyOf(id)]
           key == PositionInfo(id, c)
           left == Minus(HeldFor(s, key), Total(payout))
<1>1. /\ allowance \in [Spenders -> [Tokens -> Nat]]
      /\ \A r \in StrategyManagers : allowance[r] = Nothing
      /\ Total(l) \in [Tokens -> Nat] /\ Total(payout) \in [Tokens -> Nat]
  BY TotalNat DEF Safe
<1>2. CASE publishInstruction(b, "execute", c, id, 0, l)
  <2>1. SendCrossChain(b, allowance, l) /\ held' = held
    BY <1>2 DEF publishInstruction
  <2> QED BY <1>1, <2>1, SendStep DEF Safe
<1>3. ASSUME StrategyOf(id) \in DOMAIN strategyIdToMetadata
      PROVE  s \in StrategyManagers /\ DOMAIN held = StrategyManagers
  BY <1>3 DEF TypeOK
<1>4. CASE /\ StrategyOf(id) \in DOMAIN strategyIdToMetadata
           /\ StrategyTakes(b, allowance, s, key, l)
  <2>1. s \in StrategyManagers /\ DOMAIN held = StrategyManagers
    BY <1>3, <1>4
  <2> HIDE DEF s, key
  <2>2. \A t \in Tokens : allowance[s][t] <= Total(l)[t]
    BY <1>1, <2>1 DEF Nothing
  <2> QED BY <1>1, <1>4, <2>1, <2>2, TakesStep
<1>5. CASE /\ StrategyOf(id) \in DOMAIN strategyIdToMetadata
           /\ \A t \in Tokens : Total(payout)[t] <= HeldFor(s, key)[t]
           /\ held' = [held EXCEPT ![s] = Set(@, key, left)]
           /\ disburseAssets(b, allowance, s, payout, to)
  <2>1. s \in StrategyManagers /\ DOMAIN held = StrategyManagers
    BY <1>3, <1>5
  <2> HIDE DEF s, key
  <2>2. left \in [Tokens -> Nat]
    <3>1. HeldFor(s, key) \in [Tokens -> Nat]
      BY <2>1, HeldForNat DEF Safe
    <3>2. \A t \in Tokens : HeldFor(s, key)[t] - Total(payout)[t] \in Nat
      BY <1>1, <1>5, <3>1
    <3> QED BY <3>2 DEF Minus
  <2> HIDE DEF left
  <2>3. \A r \in StrategyManagers : \A k \in DOMAIN held'[r] :
          held'[r][k] \in [Tokens -> Nat]
    <3>1. \A r \in StrategyManagers : \A k \in DOMAIN held[r] : held[r][k] \in [Tokens -> Nat]
      BY DEF Safe
    <3>2. held' = [held EXCEPT ![s] = Set(@, key, left)]
      BY <1>5
    <3> QED BY <2>1, <2>2, <3>1, <3>2, HeldAmounts
  <2>4. CASE balance' = b /\ allowance' = allowance
    <3>1. \A t \in Tokens : b[t] >= W[t] + allowance[TokenBridge][t]
      <4> SUFFICES ASSUME NEW t \in Tokens
                   PROVE  b[t] >= W[t] + allowance[TokenBridge][t]
        OBVIOUS
      <4>1. /\ b[t] \in Nat /\ W[t] \in Nat /\ Total(l)[t] \in Nat
            /\ allowance[TokenBridge][t] \in Nat
            /\ b[t] >= W[t] + Total(l)[t] + allowance[TokenBridge][t]
        BY <1>1, AllowancesParts DEF Funded
      <4> QED BY <4>1
    <3>2. b \in [Tokens -> Nat]
      BY DEF Funded
    <3> QED BY <1>1, <2>3, <2>4, <3>1, <3>2 DEF Safe
  <2>5. CASE SendCrossChain(Plus(b, Total(payout)), allowance, payout)
    <3> DEFINE more == Plus(b, Total(payout))
    <3>1. more \in [Tokens -> Nat] /\ \A t \in Tokens : more[t] = b[t] + Total(payout)[t]
      BY <1>1 DEF Funded, Plus
    <3> HIDE DEF more
    <3>2. ASSUME NEW t \in Tokens
          PROVE  more[t] >= W[t] + Total(payout)[t] + allowance[TokenBridge][t]
      <4>1. /\ b[t] \in Nat /\ W[t] \in Nat /\ Total(l)[t] \in Nat
            /\ Total(payout)[t] \in Nat /\ allowance[TokenBridge][t] \in Nat
            /\ b[t] >= W[t] + Total(l)[t] + allowance[TokenBridge][t]
        BY <1>1, AllowancesParts DEF Funded
      <4> QED BY <3>1, <4>1
    <3>3. Funded(more, allowance, payout, W)
      BY <3>1, <3>2 DEF Funded
    <3>4. SendCrossChain(more, allowance, payout)
      BY <2>5 DEF more
    <3> QED BY <1>1, <2>3, <3>3, <3>4, SendStep DEF Safe
  <2> QED BY <1>5, <2>4, <2>5 DEF disburseAssets
<1> QED BY <1>2, <1>4, <1>5 DEF executeStrategyInternal, ExecuteAllowances

(* A disbursement to an account of this chain spends the assets.           *)
LEMMA PaidSafe ==
  ASSUME NEW V, Safe(balance, allowance, held, V), NEW b, NEW l \in AssetLists,
         NEW W \in [Tokens -> Nat], Funded(b, allowance, l, W),
         balance' = Minus(b, Total(l)), UNCHANGED <<allowance, held>>
  PROVE  Safe(balance', allowance', held', W)
<1>1. ASSUME NEW t \in Tokens
      PROVE  /\ balance'[t] \in Nat
             /\ balance'[t] >= W[t] + allowance[TokenBridge][t]
  <2>1. balance'[t] = b[t] - Total(l)[t]
    BY DEF Minus
  <2>2. /\ b[t] \in Nat /\ W[t] \in Nat /\ Total(l)[t] \in Nat
        /\ allowance[TokenBridge][t] \in Nat
        /\ b[t] >= W[t] + Total(l)[t] + allowance[TokenBridge][t]
    BY TotalNat, AllowancesParts DEF Funded, Safe
  <2> QED BY <2>1, <2>2
<1>2. balance' = [t \in Tokens |-> balance'[t]]
  BY DEF Minus
<1>3. balance' \in [Tokens -> Nat]
  BY <1>1, <1>2
<1> QED BY <1>1, <1>3 DEF Safe

(* An instruction names each of its transfers once.                        *)
SequencesDistinct ==
  \A v \in instructions : \A i, j \in DOMAIN v.sequences :
    v.sequences[i] = v.sequences[j] => i = j

SolventInv ==
  /\ LedgerInv
  /\ SequencesDistinct
  /\ IsFiniteSet(completedTransfers)
  /\ feeBps \in 0 .. BPS
  /\ Safe(balance, allowance, held, Owed)

(* The transfers that have arrived for instructions still to come.         *)
Unpaid ==
  completedTransfers \ UNION {TransfersOf(v) : v \in processedInstructions}

LEMMA UnpaidCounted ==
  ASSUME SolventInv
  PROVE  Counted(Unpaid) /\ Owed = TokensOf(Unpaid) /\ Owed \in [Tokens -> Nat]
<1>1. Unpaid \subseteq completedTransfers /\ completedTransfers \subseteq transfers
      /\ \A x \in transfers : x.amount \in Nat
  BY DEF Unpaid, SolventInv, LedgerInv, TypeOK, TransferType
<1>2. IsFiniteSet(Unpaid)
  BY <1>1, FS_Subset DEF SolventInv
<1>3. Counted(Unpaid)
  BY <1>1, <1>2 DEF Counted
<1>4. Owed = TokensOf(Unpaid)
  BY DEF Owed, Unpaid
<1> QED BY <1>3, <1>4, TokensOfNat

(* Lists of users' assets are lists of assets.                             *)
LEMMA UserAsset ==
  ASSUME NEW a \in Assets
  PROVE  a \in AssetRecords /\ <<a>> \in AssetLists
<1>1. a \in AssetRecords
  BY NumbersAssumption DEF AssetRecords
<1> QED BY <1>1 DEF AssetLists

LEMMA UserAssets ==
  ASSUME NEW l \in Lists(Assets)
  PROVE  l \in AssetLists
<1>1. PICK n \in 0 .. MaxAssets : l \in [1 .. n -> Assets]
  BY DEF Lists
<1>2. n \in Nat
  BY BoundsAssumption
<1>3. l \in [1 .. n -> AssetRecords]
  BY <1>1, UserAsset
<1> QED BY <1>2, <1>3, SeqOf DEF AssetLists

LEMMA UserEther ==
  ASSUME NEW l \in Lists(Assets), NEW e \in EtherAmounts
  PROVE  WithEther(l, e) \in AssetLists
<1>1. e \in Nat
  BY NumbersAssumption DEF EtherAmounts
<1>2. Asset(weth, e) \in AssetRecords
  BY <1>1, TokensAssumption DEF Asset, AssetRecords
<1>3. \A q \in AssetLists, r \in AssetRecords : Append(q, r) \in AssetLists
  BY DEF AssetLists
<1> QED BY <1>2, <1>3, UserAssets DEF WithEther

(* Assets that come with a call can be spent.                              *)
LEMMA ReceivedFunds ==
  ASSUME NEW W \in [Tokens -> Nat], Safe(balance, allowance, held, W),
         NEW l \in AssetLists
  PROVE  Funded(Plus(balance, Total(l)), allowance, l, W)
<1>1. ASSUME NEW t \in Tokens
      PROVE  /\ balance[t] \in Nat /\ W[t] \in Nat /\ Total(l)[t] \in Nat
             /\ allowance[TokenBridge][t] \in Nat
             /\ balance[t] >= W[t] + allowance[TokenBridge][t]
  BY TotalNat, AllowancesParts DEF Safe
<1> DEFINE b == Plus(balance, Total(l))
<1>2. \A t \in Tokens : b[t] = balance[t] + Total(l)[t]
  BY DEF Plus
<1>3. b = [t \in Tokens |-> balance[t] + Total(l)[t]]
  BY DEF Plus
<1> HIDE DEF b
<1>4. b \in [Tokens -> Nat]
  BY <1>1, <1>3
<1>5. \A t \in Tokens : b[t] >= W[t] + Total(l)[t] + allowance[TokenBridge][t]
  BY <1>1, <1>2
<1> QED BY <1>4, <1>5 DEF Funded, b

LEMMA UserSafe ==
  ASSUME SolventInv, UserStep
  PROVE  Safe(balance', allowance', held', Owed)
<1> DEFINE Done == Safe(balance', allowance', held', Owed)
<1>1. /\ TypeOK /\ feeBps \in 0 .. BPS /\ Owed \in [Tokens -> Nat]
      /\ Safe(balance, allowance, held, Owed)
  BY UnpaidCounted DEF SolventInv, LedgerInv
<1>2. ASSUME NEW l \in AssetLists, NEW id, NEW c, NEW sid,
             createPositionInternal(Plus(balance, Total(l)), id, c, sid, l)
      PROVE  Done
  BY <1>1, <1>2, ReceivedFunds, CreateSafe
<1>3. ASSUME NEW l \in AssetLists, NEW id, NEW c, NEW k, NEW p \in AssetLists, NEW to,
             executeStrategyInternal(Plus(balance, Total(l)), id, c, k, l, p, to)
      PROVE  Done
  BY <1>1, <1>3, ReceivedFunds, ExecuteSafe
<1> HIDE DEF Done
<1>4. ASSUME NEW u \in Users, NEW c \in Chains, NEW id \in StrategyIds,
             NEW l \in Lists(Assets), NEW e \in EtherAmounts,
             createPosition(u, c, id, l, e)
      PROVE  Done
  <2>1. WithEther(l, e) \in AssetLists
    BY UserEther
  <2> QED BY <1>2, <1>4, <2>1 DEF createPosition
<1>5. ASSUME NEW u \in Users, NEW c \in Chains, NEW id \in StrategyIds,
             NEW t \in Tokens, NEW a \in Assets,
             swapTokenAndCreatePosition(u, t, c, id, a)
      PROVE  Done
  <2>1. <<a>> \in AssetLists
    BY UserAsset
  <2> QED BY <1>2, <1>5, <2>1 DEF swapTokenAndCreatePosition
<1>6. ASSUME NEW u \in Users, NEW id \in DOMAIN positionIdToInfo, NEW k \in Actions,
             NEW p \in Lists(Assets), NEW to \in Chains, NEW l \in Lists(Assets),
             NEW e \in EtherAmounts, executeStrategy(u, id, k, l, e, p, to)
      PROVE  Done
  <2>1. WithEther(l, e) \in AssetLists /\ p \in AssetLists
    BY UserAsset, UserAssets, UserEther
  <2> QED BY <1>3, <1>6, <2>1 DEF executeStrategy
<1>7. ASSUME NEW u \in Users, NEW id \in DOMAIN positionIdToInfo, NEW k \in Actions,
             NEW p \in Lists(Assets), NEW to \in Chains, NEW t \in Tokens,
             NEW a \in Assets, swapTokenAndExecuteStrategy(u, t, id, k, a, p, to)
      PROVE  Done
  <2>1. <<a>> \in AssetLists /\ p \in AssetLists
    BY UserAsset, UserAssets, UserEther
  <2> QED BY <1>3, <1>7, <2>1 DEF swapTokenAndExecuteStrategy
<1>8. Done
  BY <1>4, <1>5, <1>6, <1>7 DEF UserStep
<1> QED BY <1>8 DEF Done

(* While nothing arrives and nothing is processed, as much is owed.        *)
LEMMA OwedSettled ==
  ASSUME SolventInv, [Next]_vars, UNCHANGED <<processedInstructions, completedTransfers>>
  PROVE  Owed' = Owed
<1>1. \A v \in processedInstructions : TransfersOf(v)' = TransfersOf(v)
  BY MessagesStep DEF SolventInv, LedgerInv, TypeOK
<1>2. {TransfersOf(v) : v \in processedInstructions}'
        = {TransfersOf(v) : v \in processedInstructions}
  BY <1>1
<1> QED BY <1>2 DEF Owed

(* A completed transfer brings what it adds to the debt.                   *)
LEMMA CompleteSafe ==
  ASSUME SolventInv, [Next]_vars, NEW x \in transfers, CompleteTransfer(x)
  PROVE  Safe(balance', allowance', held', Owed') /\ IsFiniteSet(completedTransfers')
<1> DEFINE Paid0 == UNION {TransfersOf(v) : v \in processedInstructions}
           more == TokensOf({x})
<1>1. /\ completedTransfers' = completedTransfers \cup {x}
      /\ x \notin completedTransfers
      /\ balance' = Plus(balance, more)
      /\ UNCHANGED <<allowance, held, processedInstructions>>
  BY DEF CompleteTransfer
<1>2. /\ Safe(balance, allowance, held, Owed) /\ IsFiniteSet(completedTransfers)
      /\ x.amount \in Nat
  BY DEF SolventInv, LedgerInv, TypeOK, TransferType
<1>3. Counted({x}) /\ more \in [Tokens -> Nat]
  <2>1. Counted({x})
    BY <1>2, FS_Singleton DEF Counted
  <2> QED BY <2>1, TokensOfNat
<1>4. Counted(Unpaid) /\ Owed = TokensOf(Unpaid) /\ Owed \in [Tokens -> Nat]
  BY UnpaidCounted
<1>5. Owed' = TokensOf((completedTransfers \cup {x}) \ Paid0)
  <2>1. \A v \in processedInstructions : TransfersOf(v)' = TransfersOf(v)
    BY MessagesStep DEF SolventInv, LedgerInv, TypeOK
  <2>2. {TransfersOf(v) : v \in processedInstructions}'
          = {TransfersOf(v) : v \in processedInstructions}
    BY <1>1, <2>1
  <2> QED BY <1>1, <2>2 DEF Owed
<1>6. Unpaid = completedTransfers \ Paid0
  BY DEF Unpaid
<1> HIDE DEF Paid0, more
<1>7. ASSUME NEW t \in Tokens PROVE Owed'[t] = Owed[t] \/ Owed'[t] = Owed[t] + more[t]
  <2>1. CASE x \in Paid0
    <3>1. (completedTransfers \cup {x}) \ Paid0 = Unpaid
      BY <1>6, <2>1
    <3> QED BY <1>4, <1>5, <3>1
  <2>2. CASE x \notin Paid0
    <3> DEFINE U == Unpaid \cup {x}
    <3>1. (completedTransfers \cup {x}) \ Paid0 = U
      BY <1>6, <2>2
    <3>2. U \ {x} = Unpaid /\ {x} \in SUBSET U
      BY <1>1, <1>6
    <3>3. Counted(U)
      BY <1>2, <1>4, FS_AddElement DEF Counted
    <3> HIDE DEF U
    <3>4. TokensOf(U)[t] = TokensOf({x})[t] + TokensOf(U \ {x})[t]
      BY <3>2, <3>3, TokensOfSplit
    <3>5. Owed[t] \in Nat /\ more[t] \in Nat
      BY <1>3, <1>4
    <3>6. Owed' = TokensOf(U)
      BY <1>5, <3>1
    <3>7. TokensOf(U \ {x}) = Owed
      BY <1>4, <3>2
    <3>8. TokensOf(U)[t] = more[t] + Owed[t]
      BY <3>4, <3>7 DEF more
    <3> QED BY <3>5, <3>6, <3>8
  <2> QED BY <2>1, <2>2
<1>8. ASSUME NEW t \in Tokens
      PROVE  /\ balance'[t] = balance[t] + more[t]
             /\ balance'[t] \in Nat
             /\ balance'[t] >= Owed'[t] + allowance[TokenBridge][t]
  <2>1. balance'[t] = balance[t] + more[t]
    BY <1>1 DEF Plus
  <2>2. /\ balance[t] \in Nat /\ more[t] \in Nat /\ Owed[t] \in Nat
        /\ allowance[TokenBridge][t] \in Nat
        /\ balance[t] >= Owed[t] + allowance[TokenBridge][t]
    BY <1>2, <1>3, <1>4, AllowancesParts DEF Safe
  <2> QED BY <1>7, <2>1, <2>2
<1>9. balance' \in [Tokens -> Nat]
  <2>1. balance' = [t \in Tokens |-> balance'[t]]
    BY <1>1 DEF Plus
  <2> QED BY <1>8, <2>1
<1>10. IsFiniteSet(completedTransfers')
  BY <1>1, <1>2, FS_AddElement
<1> QED BY <1>1, <1>2, <1>8, <1>9, <1>10 DEF Safe

(* The transfers that come with an instruction are those it announced, each*)
(* once.                                                                   *)
LEMMA TransfersOnce ==
  ASSUME SolventInv, NEW v \in instructions, NEW ts \in Lists(transfers), NEW p,
         processApertureInstruction(v, ts, p)
  PROVE  /\ Range(ts) = TransfersOf(v)
         /\ ts \in Seq(TransferType)
         /\ \A i, j \in DOMAIN ts : ts[i] = ts[j] => i = j
<1>1. /\ DOMAIN ts = 1 .. Len(ts) /\ Len(ts) \in Nat
      /\ \A i \in DOMAIN ts : ts[i] \in transfers
  BY ListSeq
<1>2. /\ v.sequences \in Seq(Nat) /\ transfers \subseteq TransferType
  BY DEF SolventInv, LedgerInv, TypeOK, InstructionType
<1>3. DOMAIN ts = DOMAIN v.sequences
  BY <1>1, <1>2 DEF processApertureInstruction
<1>4. \A i \in DOMAIN ts : /\ ts[i].chain = v.emitterChain
                            /\ ts[i].sequence = v.sequences[i]
  BY DEF processApertureInstruction, MatchesSequence
<1>5. \A i, j \in DOMAIN ts : ts[i] = ts[j] => i = j
  BY <1>3, <1>4 DEF SolventInv, SequencesDistinct
<1>6. Range(ts) \subseteq TransfersOf(v)
  BY <1>1, <1>3, <1>4 DEF Range, TransfersOf
<1>7. TransfersOf(v) \subseteq Range(ts)
  BY TransfersOwn DEF SolventInv
<1>8. ts \in Seq(TransferType)
  <2>1. PICK n \in 0 .. MaxAssets : ts \in [1 .. n -> transfers]
    BY DEF Lists
  <2>2. n \in Nat /\ ts \in [1 .. n -> TransferType]
    BY <1>2, <2>1, BoundsAssumption
  <2> QED BY <2>2, SeqOf
<1> QED BY <1>5, <1>6, <1>7, <1>8

(* Processing an instruction spends what has arrived for it, and what its  *)
(* own completions bring.                                                  *)
LEMMA ProcessSafe ==
  ASSUME SolventInv, [Next]_vars, NEW v \in instructions, NEW ts \in Lists(transfers),
         NEW p \in Lists(Assets), processApertureInstruction(v, ts, p)
  PROVE  Safe(balance', allowance', held', Owed') /\ IsFiniteSet(completedTransfers')
<1> DEFINE T == Range(ts)
           N == T \ completedTransfers
           A == T \cap completedTransfers
           rest == Unpaid \ A
           Paid0 == UNION {TransfersOf(w) : w \in processedInstructions}
           b == Plus(balance, TokensOf(N))
           l == TransferredAssets(ts)
           W == TokensOf(rest)
<1>1. /\ Range(ts) = TransfersOf(v)
      /\ ts \in Seq(TransferType)
      /\ \A i, j \in DOMAIN ts : ts[i] = ts[j] => i = j
  BY TransfersOnce
<1>2. /\ l \in AssetLists /\ Counted(T)
      /\ \A t \in Tokens : Total(l)[t] = TokensOf(T)[t]
  BY <1>1, TransferredTotal
<1>3. /\ processedInstructions' = processedInstructions \cup {v}
      /\ completedTransfers' = completedTransfers \cup T
  BY DEF processApertureInstruction
<1>4. \A w \in processedInstructions : T \cap TransfersOf(w) = {}
  BY <1>1, TransfersOwn DEF SolventInv
<1>5. /\ TypeOK /\ feeBps \in 0 .. BPS /\ IsFiniteSet(completedTransfers)
      /\ Safe(balance, allowance, held, Owed)
  BY DEF SolventInv, LedgerInv
<1>6. Counted(Unpaid) /\ Owed = TokensOf(Unpaid) /\ Owed \in [Tokens -> Nat]
  BY UnpaidCounted
<1>7. Owed' = TokensOf((completedTransfers \cup T) \ (Paid0 \cup T))
  <2>1. \A w \in processedInstructions \cup {v} : TransfersOf(w)' = TransfersOf(w)
    BY <1>5, MessagesStep DEF SolventInv, LedgerInv, TypeOK
  <2>2. {TransfersOf(w) : w \in processedInstructions}'
          = {TransfersOf(w) : w \in processedInstructions \cup {v}}
    BY <1>3, <2>1
  <2>3. UNION {TransfersOf(w) : w \in processedInstructions \cup {v}}
          = Paid0 \cup TransfersOf(v)
    OBVIOUS
  <2> QED BY <1>1, <1>3, <2>2, <2>3 DEF Owed
<1>8. T \cap Paid0 = {} /\ Unpaid = completedTransfers \ Paid0
  BY <1>4 DEF Unpaid
<1> HIDE DEF Paid0
<1>9. /\ A \in SUBSET T /\ T \ A = N /\ A \in SUBSET Unpaid
      /\ (completedTransfers \cup T) \ (Paid0 \cup T) = rest
  BY <1>8
<1>10. IsFiniteSet(completedTransfers')
  BY <1>2, <1>3, <1>5, FS_Union DEF Counted
<1>11. \/ v.kind = "single" /\ processSingleTokenDisbursement(b, v, l)
       \/ v.kind = "multi" /\ processMultiTokenDisbursement(b, v, l)
       \/ createPositionInternal(b, v.positionId, thisChainId, v.strategyId, l)
       \/ executeStrategyInternal(b, v.positionId, thisChainId, v.kind, l, p,
                                  v.recipientChain)
  BY DEF processApertureInstruction, ToComplete
<1>12. Owed' = W
  BY <1>7, <1>9
<1> HIDE DEF T, N, A
<1>13. /\ Counted(A) /\ Counted(N)
       /\ \A t \in Tokens : TokensOf(T)[t] = TokensOf(A)[t] + TokensOf(N)[t]
  BY <1>2, <1>9, TokensOfSplit
<1>14. /\ Counted(rest)
       /\ \A t \in Tokens : TokensOf(Unpaid)[t] = TokensOf(A)[t] + W[t]
  BY <1>6, <1>9, TokensOfSplit
<1> HIDE DEF rest
<1>15. /\ TokensOf(A) \in [Tokens -> Nat] /\ TokensOf(N) \in [Tokens -> Nat]
       /\ TokensOf(T) \in [Tokens -> Nat] /\ W \in [Tokens -> Nat]
  BY <1>2, <1>13, <1>14, TokensOfNat
<1> HIDE DEF W
<1>16. Funded(b, allowance, l, W)
  <2>1. \A t \in Tokens : b[t] = balance[t] + TokensOf(N)[t]
    BY DEF Plus
  <2>2. b = [t \in Tokens |-> balance[t] + TokensOf(N)[t]]
    BY DEF Plus
  <2> HIDE DEF b
  <2>3. ASSUME NEW t \in Tokens
        PROVE  /\ balance[t] + TokensOf(N)[t] \in Nat
               /\ b[t] >= W[t] + Total(l)[t] + allowance[TokenBridge][t]
    <3>1. /\ balance[t] \in Nat /\ allowance[TokenBridge][t] \in Nat
          /\ balance[t] >= Owed[t] + allowance[TokenBridge][t]
      BY <1>5, AllowancesParts DEF Safe
    <3>2. /\ Owed[t] = TokensOf(A)[t] + W[t]
          /\ Total(l)[t] = TokensOf(A)[t] + TokensOf(N)[t]
      BY <1>2, <1>6, <1>13, <1>14
    <3>3. /\ TokensOf(A)[t] \in Nat /\ TokensOf(N)[t] \in Nat /\ W[t] \in Nat
      BY <1>15
    <3> QED BY <2>1, <3>1, <3>2, <3>3
  <2>4. b \in [Tokens -> Nat]
    BY <2>2, <2>3
  <2> QED BY <2>3, <2>4 DEF Funded
<1> HIDE DEF b, l
<1>17. p \in AssetLists
  BY UserAssets
<1>18. Safe(balance', allowance', held', W)
  <2>1. CASE \/ processSingleTokenDisbursement(b, v, l)
             \/ processMultiTokenDisbursement(b, v, l)
    <3>1. balance' = Minus(b, Total(l)) /\ UNCHANGED <<allowance, held>>
      BY <2>1 DEF processSingleTokenDisbursement, processMultiTokenDisbursement
    <3> QED BY <1>2, <1>5, <1>15, <1>16, <3>1, PaidSafe
  <2>2. CASE createPositionInternal(b, v.positionId, thisChainId, v.strategyId, l)
    BY <1>2, <1>5, <1>15, <1>16, <2>2, CreateSafe
  <2>3. CASE executeStrategyInternal(b, v.positionId, thisChainId, v.kind, l, p,
                                     v.recipientChain)
    BY <1>2, <1>5, <1>15, <1>16, <1>17, <2>3, ExecuteSafe
  <2> QED BY <1>11, <2>1, <2>2, <2>3
<1> QED BY <1>10, <1>12, <1>18

(* Sequences of a publication are consecutive.                             *)
LEMMA DistinctStep ==
  ASSUME TypeOK, SequencesDistinct, [Next]_vars
  PROVE  SequencesDistinct'
<1>1. ASSUME NEW c \in OtherChains, NEW e, NEW kind, NEW id, NEW to, NEW sid,
             NEW assets \in Lists(Incoming), NEW swapTo, NEW recipient,
             Publish(c, e, kind, id, to, sid, assets, swapTo, recipient)
      PROVE  SequencesDistinct'
  <2> DEFINE seqs == [i \in DOMAIN assets |-> extSequence[c] + i]
             new == [emitterChain |-> c, emitter |-> e, hash |-> nextMessage,
                     kind |-> kind, positionId |-> id, toChain |-> to,
                     strategyId |-> sid, swapTo |-> swapTo,
                     recipientChain |-> recipient, sequences |-> seqs]
  <2>1. instructions' = instructions \cup {new}
    BY <1>1 DEF Publish
  <2>2. extSequence[c] \in Nat /\ DOMAIN assets \subseteq Nat
    BY ListSeq DEF TypeOK
  <2>3. \A i, j \in DOMAIN seqs : seqs[i] = seqs[j] => i = j
    BY <2>2
  <2>4. new.sequences = seqs
    OBVIOUS
  <2> HIDE DEF new, seqs
  <2> QED BY <2>1, <2>3, <2>4 DEF SequencesDistinct
<1>2. ASSUME PublishStep PROVE SequencesDistinct'
  <2>1. PICK c \in OtherChains, e \in Publishers, l \in Lists(Incoming) :
          \/ \E to \in Chains \ {c}, id \in StrategyIds : PublishOpen(c, e, to, id, l)
          \/ \E k \in Actions, id \in 0 .. MaxInstructions, to \in Chains :
               PublishExecute(c, e, k, id, l, to)
          \/ \E k \in Disbursements, to \in Chains, t \in Tokens \cup {None} :
               PublishDisbursement(c, e, k, to, l, t)
    BY <1>2 DEF PublishStep
  <2>2. \E kind, id, to, sid, swapTo, recipient :
          Publish(c, e, kind, id, to, sid, l, swapTo, recipient)
    BY <2>1 DEF PublishOpen, PublishExecute, PublishDisbursement
  <2> QED BY <1>1, <2>2
<1>3. ASSUME UNCHANGED instructions PROVE SequencesDistinct'
  BY <1>3 DEF SequencesDistinct
<1>4. CASE OwnerStep
  BY <1>3, <1>4, OwnerSteps DEF extVars
<1>5. CASE UserStep
  BY <1>3, <1>5, UserSteps DEF extVars
<1>6. CASE (\E x \in transfers : CompleteTransfer(x)) \/ UNCHANGED vars
  BY <1>3, <1>6 DEF CompleteTransfer, vars, extVars
<1>7. CASE \E v \in instructions : Process(v)
  BY <1>3, <1>7 DEF Process, processApertureInstruction, extVars
<1> QED BY <1>2, <1>4, <1>5, <1>6, <1>7 DEF Next

LEMMA FeeStep ==
  ASSUME feeBps \in 0 .. BPS, [Next]_vars
  PROVE  feeBps' \in 0 .. BPS
<1>1. ASSUME NEW f \in FeeChoices, updateCrossChainFeeContext(f)
      PROVE  feeBps' \in 0 .. BPS
  BY <1>1, NumbersAssumption DEF updateCrossChainFeeContext
<1>2. ASSUME UNCHANGED feeBps PROVE feeBps' \in 0 .. BPS
  BY <1>2
<1>3. CASE OwnerStep
  BY <1>1, <1>2, <1>3 DEF OwnerStep, updateApertureManager, updateCurveRoute,
     addStrategy, removeStrategy, updateIsTokenWhitelistedForStrategy
<1>4. CASE UserStep
  BY <1>2, <1>4, UserSteps DEF registryVars
<1>5. CASE PublishStep
  BY <1>2, <1>5, PublishedByOthers DEF registryVars
<1>6. CASE (\E x \in transfers : CompleteTransfer(x)) \/ UNCHANGED vars
  BY <1>2, <1>6 DEF CompleteTransfer, vars, registryVars
<1>7. CASE \E v \in instructions : Process(v)
  BY <1>2, <1>7 DEF Process, processApertureInstruction, registryVars
<1> QED BY <1>3, <1>4, <1>5, <1>6, <1>7 DEF Next

LEMMA SolventInit == Init => SolventInv
<1> SUFFICES ASSUME Init PROVE SolventInv
  OBVIOUS
<1>1. LedgerInv
  BY TypeInit DEF Init, LedgerInv, MessagesInv, TransfersUnique, SequencesPast,
                  SequencesApart, Empty
<1>2. SequencesDistinct /\ IsFiniteSet(completedTransfers)
  BY FS_EmptySet DEF Init, SequencesDistinct
<1>3. feeBps \in 0 .. BPS
  BY NumbersAssumption DEF Init
<1>4. Owed = Nothing
  <2>1. Owed = TokensOf({})
    BY DEF Init, Owed
  <2>2. ASSUME NEW t \in Tokens PROVE TokensOf({})[t] = 0
    BY TokensOfAt, SumEmpty
  <2>3. TokensOf({}) = [t \in Tokens |-> TokensOf({})[t]]
    BY DEF TokensOf
  <2> QED BY <2>1, <2>2, <2>3 DEF Nothing
<1>5. Safe(balance, allowance, held, Owed)
  <2>1. Nothing \in [Tokens -> Nat] /\ \A t \in Tokens : Nothing[t] = 0
    BY DEF Nothing
  <2>2. /\ balance = Nothing /\ allowance = [s \in Spenders |-> Nothing]
        /\ \A s \in StrategyManagers : DOMAIN held[s] = {}
    BY DEF Init, Empty
  <2>3. TokenBridge \in Spenders /\ StrategyManagers \subseteq Spenders
    BY DEF Spenders
  <2>4. allowance \in [Spenders -> [Tokens -> Nat]]
    BY <2>1, <2>2
  <2>5. allowance[TokenBridge] = Nothing /\ \A s \in StrategyManagers : allowance[s] = Nothing
    BY <2>2, <2>3
  <2> QED BY <1>4, <2>1, <2>2, <2>4, <2>5 DEF Safe
<1> QED BY <1>1, <1>2, <1>3, <1>5 DEF SolventInv

LEMMA SolventStep ==
  ASSUME SolventInv, [Next]_vars
  PROVE  SolventInv'
<1>1. LedgerInv' /\ SequencesDistinct' /\ feeBps' \in 0 .. BPS
  BY LedgerStep, DistinctStep, FeeStep DEF SolventInv, LedgerInv
<1> DEFINE Kept == Safe(balance', allowance', held', Owed') /\ IsFiniteSet(completedTransfers')
<1>2. ASSUME UNCHANGED <<tokenVars, inVars>> PROVE Kept
  <2>1. Owed' = Owed
    BY <1>2, OwedSettled DEF inVars
  <2> QED BY <1>2, <2>1 DEF SolventInv, tokenVars, inVars
<1>3. ASSUME UserStep PROVE Kept
  <2>1. UNCHANGED inVars
    BY <1>3, UserSteps
  <2>2. Owed' = Owed
    BY <2>1, OwedSettled DEF inVars
  <2> QED BY <1>3, <2>1, <2>2, UserSafe DEF SolventInv, inVars
<1>4. ASSUME \E x \in transfers : CompleteTransfer(x) PROVE Kept
  BY <1>4, CompleteSafe
<1>5. ASSUME \E v \in instructions : Process(v) PROVE Kept
  BY <1>5, ProcessSafe DEF Process
<1> HIDE DEF Kept
<1>6. ASSUME OwnerStep PROVE Kept
  BY <1>2, <1>6, OwnerSteps
<1>7. ASSUME PublishStep PROVE Kept
  BY <1>2, <1>7, PublishedByOthers
<1>8. ASSUME UNCHANGED vars PROVE Kept
  BY <1>2, <1>8 DEF vars
<1>9. Kept
  BY <1>3, <1>4, <1>5, <1>6, <1>7, <1>8 DEF Next, Kept
<1> QED BY <1>1, <1>9 DEF SolventInv, Kept

THEOREM SolventInvariant == Spec => []SolventInv
<1>1. SolventInv /\ [Next]_vars => SolventInv'
  BY SolventStep
<1> QED BY <1>1, SolventInit, PTL DEF Spec

(* The manager holds, token by token, what has arrived for instructions it *)
(* has not processed and what the bridge may still take of its transfers.  *)
THEOREM ManagerSolvent == Spec => []Solvent
<1>1. SolventInv => Solvent
  BY DEF SolventInv, Safe, Solvent
<1> QED BY <1>1, SolventInvariant, PTL

(* Between transactions no strategy may take any of it.                    *)
THEOREM NothingApproved == Spec => []NoStandingAllowance
<1>1. SolventInv => NoStandingAllowance
  BY DEF SolventInv, Safe, NoStandingAllowance
<1> QED BY <1>1, SolventInvariant, PTL

=============================================================================
