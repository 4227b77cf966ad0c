------------------------- MODULE TerraManagerProofs -------------------------
(***************************************************************************)
(* Proofs about TerraManager, for every set of chains, accounts, contracts *)
(* and amounts and for every bound: the type invariant, the safety         *)
(* invariants, the refinement of PositionLedger and, from the lemmas of    *)
(* that refinement and the sums of SumTheorems, the manager's solvency.    *)
(***************************************************************************)
EXTENDS TerraManager, SumTheorems

-----------------------------------------------------------------------------
(* Storage maps.                                                           *)

(* Save defines one key and leaves the others alone.                       *)
LEMMA SaveMap ==
  ASSUME NEW map, NEW key, NEW value
  PROVE  /\ DOMAIN Save(map, key, value) = DOMAIN map \cup {key}
         /\ Save(map, key, value)[key] = value
         /\ \A k \in DOMAIN map \ {key} : Save(map, key, value)[k] = map[k]
BY DEF Save

(* Save and Remove keep the types of keys and values.                      *)
LEMMA SaveType ==
  ASSUME NEW K, NEW V, NEW map, DOMAIN map \subseteq K,
         map \in [DOMAIN map -> V], NEW key \in K, NEW value \in V
  PROVE  /\ DOMAIN Save(map, key, value) \subseteq K
         /\ Save(map, key, value) \in [DOMAIN Save(map, key, value) -> V]
BY DEF Save

(* Removing a key keeps the types of the others.                           *)
LEMMA RemoveType ==
  ASSUME NEW K, NEW V, NEW map, DOMAIN map \subseteq K,
         map \in [DOMAIN map -> V], NEW key
  PROVE  /\ DOMAIN Remove(map, key) \subseteq K
         /\ Remove(map, key) \in [DOMAIN Remove(map, key) -> V]
BY DEF Remove

(* The elements of a sequence.                                             *)
LEMMA SeqElement ==
  ASSUME NEW S, NEW q \in Seq(S), NEW i \in 1 .. Len(q)
  PROVE  q[i] \in S
OBVIOUS

(* An asset list is a sequence.                                            *)
LEMMA ListSeq ==
  ASSUME NEW S, NEW l \in Lists(S)
  PROVE  /\ l \in Seq(S)
         /\ DOMAIN l = 1 .. Len(l)
         /\ Len(l) \in Nat
         /\ \A i \in DOMAIN l : l[i] \in S
BY BoundsAssumption DEF Lists

-----------------------------------------------------------------------------
(* Type correctness.                                                       *)

(* The initial state is well typed.                                        *)
LEMMA TypeInit == Init => TypeOK
BY NumbersAssumption
DEF Init, TypeOK, Empty, Positions, TransferType, InstructionType, PositionRecords

(* The types of the outgoing messages, and what keeps them.                *)
OutType ==
  /\ nextTransferSequence \in Nat
  /\ outInstructions \in Seq([sequence: Nat, recipientChain: ExternalChains])
  /\ \A t \in outTransfers : t.sequence \in Nat

(* A disbursement's messages are well typed.                               *)
LEMMA DisbursementType ==
  ASSUME TypeOK, NEW amount, NEW chain, DisbursementMessages(amount, chain)
  PROVE  OutType'
<1>1. CASE UNCHANGED outVars
  BY <1>1 DEF TypeOK, OutType, outVars
<1>2. CASE /\ chain \in DOMAIN externalManager
           /\ DisbursementMessages(amount, chain)
           /\ nextTransferSequence' = nextTransferSequence + 1
  <2>1. chain \in ExternalChains /\ nextTransferSequence \in Nat
    BY <1>2 DEF TypeOK
  <2>2. CASE UNCHANGED outVars
    BY <2>2, <1>1
  <2>3. CASE ~ UNCHANGED outVars
    <3> DEFINE new == [sequence |-> get_next_sequence, recipientChain |-> chain]
    <3>1. outInstructions' = Append(outInstructions, new)
      BY <1>2, <2>3 DEF DisbursementMessages
    <3>2. new \in [sequence: Nat, recipientChain: ExternalChains]
      BY <2>1 DEF get_next_sequence
    <3>3. outInstructions' \in Seq([sequence: Nat, recipientChain: ExternalChains])
      BY <3>1, <3>2 DEF TypeOK
    <3>4. \A t \in outTransfers' : t.sequence \in Nat
      BY <1>2, <2>1, <2>3 DEF DisbursementMessages, TypeOK
    <3> QED BY <1>2, <2>1, <3>3, <3>4 DEF OutType
  <2> QED BY <2>2, <2>3
<1> QED BY <1>1, <1>2 DEF DisbursementMessages

(* So are those of a strategy's action.                                    *)
LEMMA PerformType ==
  ASSUME TypeOK, NEW kind, NEW n, NEW s, NEW b, NEW payout, NEW chain,
         Perform(kind, n, s, b, payout, chain)
  PROVE  OutType'
<1>1. CASE UNCHANGED outVars
  BY <1>1 DEF OutType, TypeOK, outVars
<1>2. CASE DisbursementMessages(payout, chain)
  BY <1>2, DisbursementType
<1> QED BY <1>1, <1>2 DEF Perform

(* A publication keeps the types of transfers and instructions.            *)
LEMMA PublishType ==
  ASSUME TypeOK, NEW c \in ExternalChains, NEW e \in Publishers,
         NEW kind \in Actions \cup {"open"}, NEW id \in Nat,
         NEW strategyChain \in Chains, NEW strategyId \in Nat,
         NEW amounts \in Lists(Amounts), NEW fee \in RelayerFees,
         NEW recipient \in Chains,
         Publish(c, e, kind, id, strategyChain, strategyId, amounts, fee,
                 recipient)
  PROVE  /\ nextMessage' \in Nat
         /\ extSequence' \in [ExternalChains -> Nat]
         /\ transfers' \subseteq TransferType
         /\ instructions' \subseteq InstructionType
<1> DEFINE seqs == [i \in DOMAIN amounts |-> extSequence[c] + i]
<1> DEFINE new == [emitterChain |-> c, emitter |-> e,
            hash |-> nextMessage, kind |-> kind,
            positionId |-> id, strategyChain |-> strategyChain,
            strategyId |-> strategyId, recipientChain |-> recipient,
            sequences |-> seqs]
<1>1. /\ Len(amounts) \in Nat /\ DOMAIN amounts = 1 .. Len(amounts)
      /\ \A i \in DOMAIN amounts : amounts[i] \in Nat
  BY ListSeq, NumbersAssumption
<1>2. extSequence[c] \in Nat /\ nextMessage \in Nat
  BY DEF TypeOK
<1>3. seqs \in Seq(Nat)
  <2>1. \A i \in DOMAIN amounts : extSequence[c] + i \in Nat
    BY <1>1, <1>2
  <2>2. seqs \in [1 .. Len(amounts) -> Nat]
    BY <1>1, <2>1
  <2> QED BY <1>1, <2>2
<1>4. new \in InstructionType
  BY <1>2, <1>3 DEF InstructionType
<1>5. instructions' = instructions \cup {new}
  BY DEF Publish
<1>6. PublishedTransfers(c, strategyChain, amounts, fee) \subseteq TransferType
  <2>1. \A i \in DOMAIN amounts : extSequence[c] + i \in Nat
    BY <1>1, <1>2
  <2>2. fee \in Nat
    BY NumbersAssumption
  <2> QED BY <1>1, <2>1, <2>2 DEF PublishedTransfers, TransferType
<1>7. transfers' = transfers \cup PublishedTransfers(c, strategyChain, amounts, fee)
  BY DEF Publish
<1>8. nextMessage' = nextMessage + 1
      /\ extSequence' = [extSequence EXCEPT ![c] = @ + Len(amounts)]
  BY DEF Publish
<1>9. extSequence' \in [ExternalChains -> Nat]
  BY <1>1, <1>2, <1>8 DEF TypeOK
<1>10. instructions' \subseteq InstructionType
  BY <1>4, <1>5 DEF TypeOK
<1>11. transfers' \subseteq TransferType
  BY <1>6, <1>7 DEF TypeOK
<1>12. nextMessage' \in Nat
  BY <1>2, <1>8
<1> QED BY <1>9, <1>10, <1>11, <1>12

(* Every step keeps the types.                                             *)
LEMMA TypeStep == TypeOK /\ [Next]_vars => TypeOK'
<1> SUFFICES ASSUME TypeOK, [Next]_vars PROVE TypeOK'
  OBVIOUS
<1> USE DEF registryVars, positionVars, inVars, extVars
<1>1. ASSUME NEW sender \in Accounts, NEW a \in Accounts, UpdateAdmin(sender, a)
      PROVE  TypeOK'
  BY <1>1 DEF TypeOK, UpdateAdmin, outVars
<1>2. ASSUME NEW sender \in Accounts, NEW m \in StrategyManagers,
             AddStrategy(sender, m)
      PROVE  TypeOK'
  <2>1. nextStrategyId' \in Nat
    BY <1>2 DEF TypeOK, AddStrategy
  <2>2. /\ DOMAIN strategyMetadata' \subseteq Nat
        /\ strategyMetadata' \in [DOMAIN strategyMetadata' -> StrategyManagers]
    BY <1>2, SaveType DEF TypeOK, AddStrategy
  <2> QED BY <1>2, <2>1, <2>2 DEF TypeOK, AddStrategy, outVars
<1>3. ASSUME NEW sender \in Accounts, NEW id, RemoveStrategy(sender, id)
      PROVE  TypeOK'
  <2>1. /\ DOMAIN strategyMetadata' \subseteq Nat
        /\ strategyMetadata' \in [DOMAIN strategyMetadata' -> StrategyManagers]
    BY <1>3, RemoveType DEF TypeOK, RemoveStrategy
  <2> QED BY <1>3, <2>1 DEF TypeOK, RemoveStrategy, outVars
<1>4. ASSUME NEW sender \in Accounts, NEW c \in ExternalChains,
             RegisterExternalChainManager(sender, c, Deployed)
      PROVE  TypeOK'
  <2>1. /\ DOMAIN externalManager' \subseteq ExternalChains
        /\ externalManager' \in [DOMAIN externalManager' -> Publishers]
    BY <1>4, SaveType, DeployedAssumption DEF TypeOK, RegisterExternalChainManager
  <2> QED BY <1>4, <2>1 DEF TypeOK, RegisterExternalChainManager, outVars
<1>5. ASSUME NEW sender \in Accounts, NEW c \in Chains,
             NEW id \in 0 .. MaxStrategies - 1,
             NEW sent, NEW listed, CreatePosition(sender, c, id, sent, listed)
      PROVE  TypeOK'
  <2> DEFINE position == <<TERRA_CHAIN_ID, nextPositionId>>
  <2>1. nextPositionId' \in Nat
    BY <1>5 DEF TypeOK, CreatePosition
  <2>2. /\ DOMAIN positionHolder' \subseteq Nat
        /\ positionHolder' \in [DOMAIN positionHolder' -> Accounts]
    BY <1>5, SaveType DEF TypeOK, CreatePosition
  <2>3. holderPairs' \subseteq Accounts \X Nat
    BY <1>5 DEF TypeOK, CreatePosition
  <2>4. position \in Positions /\ id \in Nat
    BY BoundsAssumption DEF TypeOK, Positions, Chains
  <2>5. strategyLocation' = Save(strategyLocation, position, id)
    BY <1>5 DEF CreatePosition, Locate
  <2>6. /\ DOMAIN strategyLocation' \subseteq Positions
        /\ strategyLocation' \in [DOMAIN strategyLocation' -> Nat]
    BY <2>4, <2>5, SaveType DEF TypeOK
  <2> QED BY <1>5, <2>1, <2>2, <2>3, <2>6 DEF TypeOK, CreatePosition, Perform, outVars
<1>6. ASSUME NEW sender \in Accounts, NEW id \in Ids, NEW kind \in Actions,
             NEW sent, NEW listed, NEW payout, NEW c \in Chains,
             ExecuteStrategy(sender, id, kind, sent, listed, payout, c)
      PROVE  TypeOK'
  <2> DEFINE s == strategyMetadata[strategyLocation[<<TERRA_CHAIN_ID, id>>]]
  <2>1. Perform(kind, Assets(listed), s, Forwarded(bank, sent, listed, s),
                payout, c)
    BY <1>6 DEF ExecuteStrategy
  <2>2. OutType'
    BY <2>1, PerformType
  <2> QED BY <1>6, <2>2 DEF TypeOK, ExecuteStrategy, OutType
<1>7. ASSUME NEW sent, NEW listed, NEW c \in Chains,
             InitiateOutgoingTokenTransfer(sent, listed, c)
      PROVE  TypeOK'
  <2>1. OutType'
    BY <1>7, DisbursementType DEF InitiateOutgoingTokenTransfer
  <2> QED BY <1>7, <2>1 DEF TypeOK, InitiateOutgoingTokenTransfer, OutType
<1>8. ASSUME NEW amount, NEW c \in ExternalChains, OtherOutgoingTransfer(amount, c)
      PROVE  TypeOK'
  <2>1. /\ nextTransferSequence' \in Nat
        /\ \A t \in outTransfers' : t.sequence \in Nat
    BY <1>8 DEF TypeOK, OtherOutgoingTransfer
  <2> QED BY <1>8, <2>1 DEF TypeOK, OtherOutgoingTransfer

<1>9. ASSUME NEW c \in ExternalChains, NEW e \in Publishers, NEW fee \in RelayerFees,
             NEW amounts \in Lists(Amounts), NEW sc \in Chains \ {c},
             NEW id \in 0 .. MaxStrategies - 1,
             PublishOpen(c, e, sc, id, amounts, fee)
      PROVE  TypeOK'
  <2> DEFINE info == [strategyChain |-> sc, strategyId |-> id]
  <2>1. extPositions[c][e] \in PositionRecords /\ c \in Chains /\ id \in Nat
    BY BoundsAssumption DEF TypeOK, Chains
  <2>2. Len(extPositions[c][e]) \in Nat
        /\ Append(extPositions[c][e], info) \in PositionRecords
    BY <2>1 DEF PositionRecords
  <2>3. extPositions' = [extPositions EXCEPT ![c][e] = Append(@, info)]
    BY <1>9 DEF PublishOpen
  <2>4. extPositions' \in [ExternalChains -> [Publishers -> PositionRecords]]
    BY <2>2, <2>3 DEF TypeOK
  <2>5. Publish(c, e, "open", Len(extPositions[c][e]), sc, id, amounts, fee, c)
    BY <1>9 DEF PublishOpen
  <2>6. /\ nextMessage' \in Nat
        /\ extSequence' \in [ExternalChains -> Nat]
        /\ transfers' \subseteq TransferType
        /\ instructions' \subseteq InstructionType
    BY <2>1, <2>2, <2>5, PublishType
  <2> QED BY <2>4, <2>5, <2>6 DEF TypeOK, Publish, outVars
<1>10. ASSUME NEW c \in ExternalChains, NEW e \in Publishers, NEW fee \in RelayerFees,
              NEW amounts \in Lists(Amounts), NEW kind \in Actions,
              NEW id \in 0 .. MaxInstructions, NEW to \in Chains,
              PublishExecute(c, e, kind, id, amounts, fee, to)
       PROVE  TypeOK'
  <2> DEFINE info == extPositions[c][e][id + 1]
  <2>1. /\ extPositions[c][e] \in PositionRecords
        /\ id \in Nat /\ id < Len(extPositions[c][e])
    BY <1>10, BoundsAssumption DEF TypeOK, PublishExecute
  <2>2. info.strategyChain \in Chains /\ info.strategyId \in Nat
    <3> DEFINE recorded == extPositions[c][e]
    <3>a. recorded \in PositionRecords /\ id < Len(recorded) /\ id \in Nat
      BY <2>1
    <3> HIDE DEF recorded
    <3>1. id + 1 \in 1 .. Len(recorded)
      BY <3>a DEF PositionRecords
    <3>2. recorded[id + 1] \in [strategyChain: Chains, strategyId: Nat]
      BY <3>a, <3>1, SeqElement DEF PositionRecords
    <3> QED BY <3>2 DEF recorded
  <2>3. Publish(c, e, kind, id, info.strategyChain, info.strategyId, amounts,
                fee, to)
    BY <1>10 DEF PublishExecute
  <2>4. /\ nextMessage' \in Nat
        /\ extSequence' \in [ExternalChains -> Nat]
        /\ transfers' \subseteq TransferType
        /\ instructions' \subseteq InstructionType
    BY <2>1, <2>2, <2>3, PublishType
  <2> QED BY <1>10, <2>3, <2>4 DEF TypeOK, PublishExecute, Publish, outVars
<1>11. ASSUME NEW t \in transfers, SubmitVaa(t)
       PROVE  TypeOK'
  BY <1>11 DEF TypeOK, SubmitVaa, outVars
<1>12. ASSUME NEW v \in instructions, NEW vaas \in Lists(transfers),
              NEW payout \in Amounts, ProcessCrossChainInstruction(v, vaas, payout)
       PROVE  TypeOK'
  <2> DEFINE position == <<v.emitterChain, v.positionId>>
  <2> DEFINE located == IF v.kind = "open"
                        THEN Save(strategyLocation, position, v.strategyId)
                        ELSE strategyLocation
  <2> DEFINE s == strategyMetadata[located[position]]
  <2> DEFINE forwarded == Pay(Completed(Range(vaas) \ completedTransfers, Manager),
                              Manager, s, Kept(Range(vaas)))
  <2>1. v \in InstructionType
    BY DEF TypeOK
  <2>2. position \in Positions /\ v.strategyId \in Nat
    BY <2>1 DEF InstructionType, Positions, Chains
  <2>3. /\ DOMAIN located \subseteq Positions
        /\ located \in [DOMAIN located -> Nat]
    <3>1. /\ DOMAIN strategyLocation \subseteq Positions
          /\ strategyLocation \in [DOMAIN strategyLocation -> Nat]
      BY DEF TypeOK
    <3> QED BY <2>2, <3>1, SaveType
  <2>4. strategyLocation' = located
    BY <1>12 DEF ProcessCrossChainInstruction
  <2>5. Range(vaas) \subseteq transfers
    BY ListSeq DEF Range
  <2>6. completedTransfers' \subseteq transfers /\ completedInstructions' \subseteq instructions
    BY <1>12, <2>5 DEF ProcessCrossChainInstruction, TypeOK
  <2>7. Perform(v.kind, Len(vaas), s, forwarded, payout, v.recipientChain)
    BY <1>12 DEF ProcessCrossChainInstruction
  <2>8. OutType'
    BY <2>7, PerformType
  <2> HIDE DEF located
  <2> QED BY <1>12, <2>3, <2>4, <2>6, <2>8
          DEF TypeOK, ProcessCrossChainInstruction, OutType
<1>13. CASE UNCHANGED vars
  BY <1>13 DEF TypeOK, vars, outVars
<1>14. CASE UpdateStrategy
  BY <1>14 DEF TypeOK, UpdateStrategy, outVars
<1> QED
  BY <1>1, <1>2, <1>3, <1>4, <1>5, <1>6, <1>7, <1>8, <1>9, <1>10, <1>11, <1>12, <1>13,
     <1>14
  DEF Next, AdminStep, UserStep, TransferStep, PublishStep, ProcessStep

(* The storage of the contract, the messages in flight and the records of  *)
(* the external chains keep their types: ids are numbers, instructions and *)
(* transfers that Terra has completed are ones that were published.        *)
THEOREM TypeCorrect == Spec => []TypeOK
<1>1. Init => TypeOK
  BY TypeInit
<1>2. TypeOK /\ [Next]_vars => TypeOK'
  BY TypeStep
<1> QED BY <1>1, <1>2, PTL DEF Spec

-----------------------------------------------------------------------------
(* The inductive invariant: each part, under the steps that can disturb it *)

(* The invariant holds at the start.                                       *)
LEMMA InvInit == Init => IInv
<1> SUFFICES ASSUME Init PROVE IInv
  OBVIOUS
<1>1. TypeOK
  BY TypeInit
<1>2. ManagersDeployed /\ InstructionsRecorded /\ SequencesUnique
  BY DEF Init, ManagersDeployed, InstructionsRecorded, SequencesUnique, Empty
<1>3. LocationsOpened /\ PerformedCompleted /\ OutSequences /\ HolderIndexConsistent
  BY DEF Init, LocationsOpened, PerformedCompleted, OutSequences, HolderIndexConsistent, Empty
<1>4. ExternalPositionsAuthentic /\ DisbursementsBacked
  BY DEF Init, ExternalPositionsAuthentic, DisbursementsBacked, Empty
<1> QED BY <1>1, <1>2, <1>3, <1>4 DEF IInv

(* What each group of steps leaves alone.                                  *)
LEMMA Frames ==
  ASSUME [Next]_vars
  PROVE  \/ /\ AdminStep
            /\ UNCHANGED <<positionVars, strategyLocation, inVars, bank, outVars,
                           extVars>>
         \/ /\ UserStep
            /\ UNCHANGED <<registryVars, inVars, extVars>>
         \/ /\ TransferStep
            /\ UNCHANGED <<registryVars, positionVars, strategyLocation, inVars,
                           extVars>>
         \/ /\ PublishStep
            /\ UNCHANGED <<registryVars, positionVars, strategyLocation, inVars,
                           bank, outVars>>
         \/ /\ \E t \in transfers : SubmitVaa(t)
            /\ UNCHANGED <<registryVars, positionVars, strategyLocation,
                           completedInstructions, performed, outVars, extVars>>
         \/ /\ ProcessStep
            /\ UNCHANGED <<registryVars, positionVars, extVars>>
         \/ UNCHANGED vars
<1>1. AdminStep => UNCHANGED <<positionVars, strategyLocation, inVars, bank, outVars,
                               extVars>>
  BY DEF AdminStep, UpdateAdmin, AddStrategy, RemoveStrategy,
         RegisterExternalChainManager, UpdateStrategy
<1>2. UserStep => UNCHANGED <<registryVars, inVars, extVars>>
  <2>1. ASSUME NEW sender, NEW c, NEW id, NEW sent, NEW listed,
               CreatePosition(sender, c, id, sent, listed)
        PROVE  UNCHANGED <<registryVars, inVars, extVars>>
    BY <2>1 DEF CreatePosition
  <2>2. ASSUME NEW sender, NEW id, NEW kind, NEW sent, NEW listed, NEW payout,
               NEW c, ExecuteStrategy(sender, id, kind, sent, listed, payout, c)
        PROVE  UNCHANGED <<registryVars, inVars, extVars>>
    BY <2>2 DEF ExecuteStrategy
  <2> QED BY <2>1, <2>2 DEF UserStep
<1>3. TransferStep => UNCHANGED <<registryVars, positionVars, strategyLocation,
                                  inVars, extVars>>
  BY DEF TransferStep, InitiateOutgoingTokenTransfer, OtherOutgoingTransfer
<1>4. PublishStep => UNCHANGED <<registryVars, positionVars, strategyLocation,
                                 inVars, bank, outVars>>
  <2>1. ASSUME NEW c, NEW e, NEW sc, NEW id, NEW amounts, NEW fee,
               PublishOpen(c, e, sc, id, amounts, fee)
        PROVE  UNCHANGED <<registryVars, positionVars, strategyLocation,
                           inVars, bank, outVars>>
    BY <2>1 DEF PublishOpen, Publish
  <2>2. ASSUME NEW c, NEW e, NEW kind, NEW id, NEW amounts, NEW fee, NEW to,
               PublishExecute(c, e, kind, id, amounts, fee, to)
        PROVE  UNCHANGED <<registryVars, positionVars, strategyLocation,
                           inVars, bank, outVars>>
    BY <2>2 DEF PublishExecute, Publish
  <2> QED BY <2>1, <2>2 DEF PublishStep
<1>5. (\E t \in transfers : SubmitVaa(t))
      => UNCHANGED <<registryVars, positionVars, strategyLocation,
                     completedInstructions, performed, outVars, extVars>>
  BY DEF SubmitVaa
<1>6. ProcessStep => UNCHANGED <<registryVars, positionVars, extVars>>
  BY DEF ProcessStep, ProcessCrossChainInstruction
<1> QED BY <1>1, <1>2, <1>3, <1>4, <1>5, <1>6 DEF Next

(* Only registration changes the managers of other chains.                 *)
LEMMA ManagersStep == IInv /\ [Next]_vars => ManagersDeployed'
<1> SUFFICES ASSUME IInv, [Next]_vars PROVE ManagersDeployed'
  OBVIOUS
<1>1. CASE UNCHANGED externalManager
  BY <1>1 DEF IInv, ManagersDeployed
<1>2. ASSUME NEW sender \in Accounts, NEW c \in ExternalChains,
             RegisterExternalChainManager(sender, c, Deployed)
      PROVE  ManagersDeployed'
  BY <1>2 DEF IInv, ManagersDeployed, RegisterExternalChainManager, Save
<1>3. CASE AdminStep
  BY <1>1, <1>2, <1>3
  DEF AdminStep, UpdateAdmin, AddStrategy, RemoveStrategy, UpdateStrategy
<1> QED BY <1>1, <1>3, Frames DEF registryVars, vars

(* Publishers only ever append to their records.                           *)
RecordsGrow ==
  \A c \in ExternalChains, e \in Publishers :
    /\ Len(extPositions[c][e]) \in Nat
    /\ Len(extPositions'[c][e]) >= Len(extPositions[c][e])
    /\ \A i \in 1 .. Len(extPositions[c][e]) :
         extPositions'[c][e][i] = extPositions[c][e][i]

(* Recording an opening keeps the records before it.                       *)
LEMMA RecordAppended ==
  ASSUME TypeOK, NEW c \in ExternalChains, NEW e \in Publishers,
         NEW sc \in Chains, NEW id \in Nat, NEW amounts, NEW fee,
         PublishOpen(c, e, sc, id, amounts, fee)
  PROVE  /\ RecordsGrow
         /\ Len(extPositions'[c][e]) = Len(extPositions[c][e]) + 1
         /\ extPositions'[c][e][Len(extPositions[c][e]) + 1]
              = [strategyChain |-> sc, strategyId |-> id]
<1> DEFINE info == [strategyChain |-> sc, strategyId |-> id]
<1> DEFINE R == [strategyChain: Chains, strategyId: Nat]
<1>1. info \in R
  OBVIOUS
<1>2. \A x \in ExternalChains, y \in Publishers : extPositions[x][y] \in Seq(R)
  BY DEF TypeOK, PositionRecords
<1>3. \A x \in ExternalChains, y \in Publishers :
        extPositions'[x][y] = IF x = c /\ y = e THEN Append(extPositions[c][e], info)
                              ELSE extPositions[x][y]
  BY DEF PublishOpen, TypeOK
<1> HIDE DEF info, R
<1>4. ASSUME NEW q \in Seq(R)
      PROVE  /\ Len(q) \in Nat
             /\ Len(Append(q, info)) = Len(q) + 1
             /\ Len(Append(q, info)) >= Len(q) /\ Len(q) >= Len(q)
             /\ Append(q, info)[Len(q) + 1] = info
             /\ \A i \in 1 .. Len(q) : Append(q, info)[i] = q[i]
  BY <1>1
<1>5. ASSUME NEW x \in ExternalChains, NEW y \in Publishers
      PROVE  /\ Len(extPositions[x][y]) \in Nat
             /\ Len(extPositions'[x][y]) >= Len(extPositions[x][y])
             /\ \A i \in 1 .. Len(extPositions[x][y]) :
                  extPositions'[x][y][i] = extPositions[x][y][i]
  <2>1. extPositions[x][y] \in Seq(R)
    BY <1>2
  <2>2. CASE x = c /\ y = e
    <3>1. extPositions'[x][y] = Append(extPositions[x][y], info)
      BY <1>3, <2>2
    <3> QED BY <1>4, <2>1, <3>1, Zenon
  <2>3. CASE ~ (x = c /\ y = e)
    <3>1. extPositions'[x][y] = extPositions[x][y]
      BY <1>3, <2>3
    <3> QED BY <1>4, <2>1, <3>1, Zenon
  <2> QED BY <2>2, <2>3
<1>6. /\ Len(extPositions'[c][e]) = Len(extPositions[c][e]) + 1
      /\ extPositions'[c][e][Len(extPositions[c][e]) + 1] = info
  <2>1. extPositions[c][e] \in Seq(R)
    BY <1>2
  <2>2. extPositions'[c][e] = Append(extPositions[c][e], info)
    BY <1>3
  <2> QED BY <1>4, <2>1, <2>2, Zenon
<1>7. RecordsGrow
  BY <1>5, Zenon DEF RecordsGrow
<1> QED BY <1>6, <1>7, Zenon DEF info

(* No step changes a record.                                               *)
LEMMA RecordsNeverChange ==
  ASSUME TypeOK, [Next]_vars
  PROVE  RecordsGrow
<1>1. CASE UNCHANGED extPositions
  <2>1. \A x \in ExternalChains, y \in Publishers : Len(extPositions[x][y]) \in Nat
    BY DEF TypeOK, PositionRecords
  <2> QED BY <1>1, <2>1 DEF RecordsGrow
<1>2. CASE PublishStep
  <2>1. ASSUME NEW c \in ExternalChains, NEW e \in Publishers, NEW sc \in Chains,
               NEW id \in 0 .. MaxStrategies - 1, NEW amounts, NEW fee,
               PublishOpen(c, e, sc, id, amounts, fee)
        PROVE  RecordsGrow
    <3>1. id \in Nat
      BY BoundsAssumption
    <3> QED BY <2>1, <3>1, RecordAppended
  <2>2. ASSUME NEW c, NEW e, NEW kind, NEW id, NEW amounts, NEW fee, NEW to,
               PublishExecute(c, e, kind, id, amounts, fee, to)
        PROVE  UNCHANGED extPositions
    BY <2>2 DEF PublishExecute
  <2> QED BY <1>1, <1>2, <2>1, <2>2 DEF PublishStep
<1> QED BY <1>1, <1>2, Frames DEF extVars, vars

(* The conjuncts of InstructionsRecorded, named.                           *)
RecordOf(v) == extPositions[v.emitterChain][v.emitter]

Recorded(v) ==
  /\ v.positionId < Len(RecordOf(v))
  /\ RecordOf(v)[v.positionId + 1] = [strategyChain |-> v.strategyChain,
                                      strategyId |-> v.strategyId]

SamePosition(v, w) ==
  /\ v.kind = "open" /\ w.kind = "open"
  /\ v.emitterChain = w.emitterChain /\ v.emitter = w.emitter
  /\ v.positionId = w.positionId

(* InstructionsRecorded, a part at a time.                                 *)
LEMMA InstructionsRecordedParts ==
  InstructionsRecorded <=>
    /\ \A v \in instructions : Recorded(v)
    /\ \A v, w \in instructions : SamePosition(v, w) => v = w
BY DEF InstructionsRecorded, Recorded, RecordOf, SamePosition

(* An instruction's record stays what it was.                              *)
LEMMA RecordedStays ==
  ASSUME TypeOK, [Next]_vars, NEW v \in instructions, Recorded(v)
  PROVE  Recorded(v)'
<1>1. /\ v.emitterChain \in ExternalChains /\ v.emitter \in Publishers
      /\ v.positionId \in Nat
  BY DEF TypeOK, InstructionType
<1> DEFINE r == RecordOf(v)
<1> DEFINE s == RecordOf(v)'
<1>2. /\ Len(r) \in Nat /\ Len(s) >= Len(r)
      /\ \A i \in 1 .. Len(r) : s[i] = r[i]
  BY <1>1, RecordsNeverChange, Zenon DEF RecordsGrow, RecordOf
<1>3. Len(s) \in Nat
  <2>1. TypeOK'
    BY TypeStep
  <2> QED BY <1>1, <2>1 DEF TypeOK, PositionRecords, RecordOf
<1>4. v.positionId < Len(r)
  BY DEF Recorded
<1> HIDE DEF r, s
<1>5. v.positionId < Len(s) /\ v.positionId + 1 \in 1 .. Len(r)
  BY <1>1, <1>2, <1>3, <1>4
<1>6. s[v.positionId + 1] = r[v.positionId + 1]
  BY <1>2, <1>5
<1> QED BY <1>5, <1>6, Zenon DEF Recorded, r, s

(* Publishers announce what they record, and each position once.           *)
LEMMA InstructionsStep == IInv /\ [Next]_vars => InstructionsRecorded'
<1> SUFFICES ASSUME IInv, [Next]_vars PROVE InstructionsRecorded'
  OBVIOUS
<1>1. /\ TypeOK
      /\ \A v \in instructions : Recorded(v) /\ Recorded(v)'
      /\ \A v, w \in instructions : SamePosition(v, w) => v = w
  BY InstructionsRecordedParts, RecordedStays DEF IInv
<1>2. CASE UNCHANGED instructions
  BY <1>1, <1>2, InstructionsRecordedParts DEF SamePosition, InstructionsRecorded, Recorded, RecordOf
<1>3. ASSUME NEW v, instructions' = instructions \cup {v}, Recorded(v)',
             \A w \in instructions : ~ SamePosition(v, w)
      PROVE  InstructionsRecorded'
  <2>1. \A w \in instructions' : Recorded(w)'
    BY <1>1, <1>3
  <2>2. \A u, w \in instructions' : SamePosition(u, w) => u = w
    BY <1>1, <1>3 DEF SamePosition
  <2> QED BY <2>1, <2>2 DEF InstructionsRecorded, Recorded, RecordOf, SamePosition
<1>4. CASE PublishStep
  <2>1. ASSUME NEW c \in ExternalChains, NEW e \in Publishers, NEW fee \in RelayerFees,
               NEW amounts \in Lists(Amounts), NEW sc \in Chains \ {c},
               NEW id \in 0 .. MaxStrategies - 1,
               PublishOpen(c, e, sc, id, amounts, fee)
        PROVE  InstructionsRecorded'
    <3> DEFINE n == Len(extPositions[c][e])
    <3>0. PICK v : v = [emitterChain |-> c, emitter |-> e, hash |-> nextMessage,
                       kind |-> "open", positionId |-> n, strategyChain |-> sc,
                       strategyId |-> id, recipientChain |-> c,
                       sequences |-> [i \in DOMAIN amounts |-> extSequence[c] + i]]
      OBVIOUS
    <3>1. instructions' = instructions \cup {v}
      BY <2>1, <3>0 DEF PublishOpen, Publish
    <3>2. id \in Nat
      BY BoundsAssumption
    <3>3. /\ Len(extPositions'[c][e]) = n + 1
          /\ extPositions'[c][e][n + 1] = [strategyChain |-> sc, strategyId |-> id]
          /\ n \in Nat
      BY <1>1, <2>1, <3>2, RecordAppended DEF RecordsGrow
    <3>4. /\ v.emitterChain = c /\ v.emitter = e /\ v.positionId = n
          /\ v.strategyChain = sc /\ v.strategyId = id
      BY <3>0
    <3> HIDE DEF n
    <3>5. Recorded(v)'
      BY <3>3, <3>4 DEF Recorded, RecordOf
    <3>6. \A w \in instructions : w.positionId \in Nat /\ ~ SamePosition(v, w)
      <4> TAKE w \in instructions
      <4>1. w.positionId \in Nat
        BY <1>1 DEF TypeOK, InstructionType
      <4>2. w.positionId < Len(extPositions[w.emitterChain][w.emitter])
        BY <1>1 DEF Recorded, RecordOf
      <4> QED BY <3>3, <3>4, <4>1, <4>2 DEF SamePosition, n
    <3> QED BY <1>3, <3>1, <3>5, <3>6
  <2>2. ASSUME NEW c \in ExternalChains, NEW e \in Publishers, NEW fee \in RelayerFees,
               NEW amounts \in Lists(Amounts), NEW kind \in Actions,
               NEW id \in 0 .. MaxInstructions, NEW to \in Chains,
               PublishExecute(c, e, kind, id, amounts, fee, to)
        PROVE  InstructionsRecorded'
    <3> DEFINE info == extPositions[c][e][id + 1]
    <3>0. PICK v : v = [emitterChain |-> c, emitter |-> e, hash |-> nextMessage,
                       kind |-> kind, positionId |-> id,
                       strategyChain |-> info.strategyChain,
                       strategyId |-> info.strategyId, recipientChain |-> to,
                       sequences |-> [i \in DOMAIN amounts |-> extSequence[c] + i]]
      OBVIOUS
    <3>1. instructions' = instructions \cup {v}
      BY <2>2, <3>0 DEF PublishExecute, Publish
    <3>2. /\ id < Len(extPositions[c][e])
          /\ UNCHANGED extPositions
      BY <2>2 DEF PublishExecute
    <3>3. info \in [strategyChain: Chains, strategyId: Nat]
      <4>1. extPositions[c][e] \in Seq([strategyChain: Chains, strategyId: Nat])
        BY <1>1 DEF TypeOK, PositionRecords
      <4>2. id + 1 \in 1 .. Len(extPositions[c][e])
        BY <3>2, <4>1, BoundsAssumption
      <4> QED BY <4>1, <4>2, SeqElement
    <3>4. /\ v.emitterChain = c /\ v.emitter = e /\ v.positionId = id
          /\ v.strategyChain = info.strategyChain /\ v.strategyId = info.strategyId
          /\ v.kind # "open"
      BY <3>0 DEF Actions
    <3>5. info = [strategyChain |-> info.strategyChain, strategyId |-> info.strategyId]
      BY <3>3
    <3>6. Recorded(v)'
      BY <3>2, <3>4, <3>5 DEF Recorded, RecordOf
    <3>7. \A w \in instructions : ~ SamePosition(v, w)
      BY <3>4 DEF SamePosition
    <3> QED BY <1>3, <3>1, <3>6, <3>7
  <2> QED BY <1>4, <2>1, <2>2 DEF PublishStep
<1> QED BY <1>2, <1>4, Frames DEF extVars, vars

(* A publication uses fresh sequences of its chain's token bridge.         *)
LEMMA PublishSequences ==
  ASSUME TypeOK, SequencesUnique, NEW c \in ExternalChains, NEW e, NEW kind, NEW id,
         NEW sc, NEW sid, NEW amounts \in Lists(Amounts), NEW fee, NEW to,
         Publish(c, e, kind, id, sc, sid, amounts, fee, to)
  PROVE  SequencesUnique'
<1>0. PICK v : v = [emitterChain |-> c, emitter |-> e, hash |-> nextMessage,
                    kind |-> kind, positionId |-> id, strategyChain |-> sc,
                    strategyId |-> sid, recipientChain |-> to,
                    sequences |-> [i \in DOMAIN amounts |-> extSequence[c] + i]]
  OBVIOUS
<1> DEFINE P == PublishedTransfers(c, sc, amounts, fee)
<1>1. /\ instructions' = instructions \cup {v}
      /\ transfers' = transfers \cup P
      /\ extSequence' = [extSequence EXCEPT ![c] = @ + Len(amounts)]
  BY <1>0 DEF Publish
<1>2. /\ Len(amounts) \in Nat /\ DOMAIN amounts = 1 .. Len(amounts)
      /\ extSequence \in [ExternalChains -> Nat]
  BY ListSeq DEF TypeOK
<1>3. /\ v.emitterChain = c
      /\ DOMAIN v.sequences = DOMAIN amounts
      /\ \A i \in DOMAIN v.sequences : v.sequences[i] = extSequence[c] + i
  BY <1>0
<1>4. /\ \A t \in P : t.chain = c /\ \E i \in DOMAIN amounts : t.sequence = extSequence[c] + i
      /\ \A t, u \in P : t.sequence = u.sequence => t = u
  BY <1>2 DEF PublishedTransfers
<1>5. /\ \A x \in ExternalChains : extSequence[x] \in Nat /\ extSequence[x] <= extSequence'[x]
      /\ extSequence'[c] = extSequence[c] + Len(amounts)
  BY <1>1, <1>2
<1>6. /\ \A t \in transfers : /\ t.chain \in ExternalChains /\ t.sequence \in Nat
                              /\ t.sequence <= extSequence[t.chain]
      /\ \A t \in P : /\ t.sequence \in Nat /\ t.chain = c
                      /\ extSequence[c] < t.sequence
                      /\ t.sequence <= extSequence'[c]
  BY <1>2, <1>4, <1>5 DEF TypeOK, TransferType, SequencesUnique
<1> HIDE DEF P
<1>7. \A t \in transfers' : t.sequence <= extSequence'[t.chain]
  <2> SUFFICES ASSUME NEW t \in transfers' PROVE t.sequence <= extSequence'[t.chain]
    OBVIOUS
  <2>1. CASE t \in transfers
    <3>1. extSequence'[t.chain] \in Nat
      BY <1>1, <1>2, <1>6, <2>1
    <3> QED BY <1>5, <1>6, <2>1, <3>1
  <2> QED BY <1>1, <1>6, <2>1
<1>8. \A t, u \in transfers' : t.chain = u.chain /\ t.sequence = u.sequence => t = u
  <2> SUFFICES ASSUME NEW t \in transfers', NEW u \in transfers',
                      t.chain = u.chain, t.sequence = u.sequence
               PROVE  t = u
    OBVIOUS
  <2>1. CASE t \in transfers /\ u \in transfers
    BY <2>1 DEF SequencesUnique
  <2>2. CASE t \in P /\ u \in P
    BY <1>4, <2>2
  <2>3. CASE (t \in P /\ u \in transfers) \/ (t \in transfers /\ u \in P)
    BY <1>5, <1>6, <2>3
  <2> QED BY <1>1, <2>1, <2>2, <2>3
<1>9. \A w \in instructions : /\ w.emitterChain \in ExternalChains
                              /\ \A i \in DOMAIN w.sequences : w.sequences[i] \in Nat
  BY DEF TypeOK, InstructionType
<1>10. \A w \in instructions' : \A i \in DOMAIN w.sequences :
         w.sequences[i] <= extSequence'[w.emitterChain]
  <2> SUFFICES ASSUME NEW w \in instructions', NEW i \in DOMAIN w.sequences
               PROVE  w.sequences[i] <= extSequence'[w.emitterChain]
    OBVIOUS
  <2>1. CASE w \in instructions
    <3>1. w.sequences[i] <= extSequence[w.emitterChain]
      BY <2>1 DEF SequencesUnique
    <3>2. extSequence'[w.emitterChain] \in Nat
      BY <1>1, <1>2, <1>9, <2>1
    <3> QED BY <1>5, <1>9, <2>1, <3>1, <3>2
  <2>2. CASE w = v
    <3>1. i \in 1 .. Len(amounts) /\ w.sequences[i] = extSequence[c] + i
      BY <1>2, <1>3, <2>2
    <3>2. w.emitterChain = c
      BY <1>3, <2>2
    <3> QED BY <1>2, <1>5, <3>1, <3>2
  <2> QED BY <1>1, <2>1, <2>2
<1>11. \A w \in instructions : w.emitterChain = c
         => Range(v.sequences) \cap Range(w.sequences) = {}
  <2> SUFFICES ASSUME NEW w \in instructions, w.emitterChain = c,
                      NEW i \in DOMAIN v.sequences, NEW j \in DOMAIN w.sequences
               PROVE  v.sequences[i] # w.sequences[j]
    BY DEF Range
  <2>1. w.sequences[j] \in Nat /\ w.sequences[j] <= extSequence[c]
    BY <1>9 DEF SequencesUnique
  <2>2. v.sequences[i] = extSequence[c] + i /\ i \in Nat \ {0}
    BY <1>2, <1>3
  <2> QED BY <1>5, <2>1, <2>2
<1>12. \A u, w \in instructions' :
         u # w /\ u.emitterChain = w.emitterChain
         => Range(u.sequences) \cap Range(w.sequences) = {}
  <2>1. \A u, w \in instructions : u # w /\ u.emitterChain = w.emitterChain
         => Range(u.sequences) \cap Range(w.sequences) = {}
    BY DEF SequencesUnique
  <2> QED BY <1>1, <1>3, <1>11, <2>1
<1> QED BY <1>7, <1>8, <1>10, <1>12 DEF SequencesUnique

(* Sequences stay unique.                                                  *)
LEMMA SequencesStep == IInv /\ [Next]_vars => SequencesUnique'
<1> SUFFICES ASSUME IInv, [Next]_vars PROVE SequencesUnique'
  OBVIOUS
<1>1. CASE UNCHANGED extVars
  BY <1>1 DEF IInv, SequencesUnique, extVars
<1>2. CASE PublishStep
  <2>1. ASSUME NEW c \in ExternalChains, NEW e, NEW fee, NEW amounts \in Lists(Amounts),
               NEW sc, NEW id, PublishOpen(c, e, sc, id, amounts, fee)
        PROVE  SequencesUnique'
    BY <2>1, PublishSequences DEF PublishOpen, IInv
  <2>2. ASSUME NEW c \in ExternalChains, NEW e, NEW fee, NEW amounts \in Lists(Amounts),
               NEW kind, NEW id, NEW to, PublishExecute(c, e, kind, id, amounts, fee, to)
        PROVE  SequencesUnique'
    BY <2>2, PublishSequences DEF PublishExecute, IInv
  <2> QED BY <1>2, <2>1, <2>2 DEF PublishStep
<1> QED BY <1>1, <1>2, Frames DEF vars

(* Only performing an instruction of another chain adds a location for it. *)
LEMMA LocationsStep == IInv /\ [Next]_vars => LocationsOpened'
<1> SUFFICES ASSUME IInv, [Next]_vars PROVE LocationsOpened'
  OBVIOUS
<1>1. CASE UNCHANGED <<strategyLocation, completedInstructions>>
  BY <1>1 DEF IInv, LocationsOpened
<1>2. CASE UserStep
  <2>1. ASSUME NEW sender, NEW c, NEW id, NEW sent, NEW listed,
               CreatePosition(sender, c, id, sent, listed)
        PROVE  LocationsOpened'
    <3>1. strategyLocation' = Save(strategyLocation, <<TERRA_CHAIN_ID, nextPositionId>>, id)
          /\ UNCHANGED completedInstructions
      BY <2>1 DEF CreatePosition, Locate, inVars
    <3>2. DOMAIN strategyLocation'
            = DOMAIN strategyLocation \cup {<<TERRA_CHAIN_ID, nextPositionId>>}
      BY <3>1, SaveMap
    <3> QED BY <3>1, <3>2 DEF IInv, LocationsOpened
  <2>2. ASSUME NEW sender, NEW id, NEW kind, NEW sent, NEW listed, NEW payout, NEW c,
               ExecuteStrategy(sender, id, kind, sent, listed, payout, c)
        PROVE  LocationsOpened'
    BY <1>1, <2>2 DEF ExecuteStrategy, inVars
  <2> QED BY <1>2, <2>1, <2>2 DEF UserStep
<1>3. ASSUME NEW v \in instructions, NEW vaas, NEW payout,
             ProcessCrossChainInstruction(v, vaas, payout)
      PROVE  LocationsOpened'
  <2> DEFINE position == <<v.emitterChain, v.positionId>>
  <2>1. completedInstructions' = completedInstructions \cup {v}
    BY <1>3 DEF ProcessCrossChainInstruction
  <2>2. CASE v.kind # "open"
    <3>1. UNCHANGED strategyLocation
      BY <1>3, <2>2 DEF ProcessCrossChainInstruction
    <3> QED BY <2>1, <3>1 DEF IInv, LocationsOpened
  <2>3. CASE v.kind = "open"
    <3>1. strategyLocation' = Save(strategyLocation, position, v.strategyId)
      BY <1>3, <2>3 DEF ProcessCrossChainInstruction
    <3>2. DOMAIN strategyLocation' = DOMAIN strategyLocation \cup {position}
      BY <3>1, SaveMap
    <3>3. v.emitter = Deployed
      BY <1>3 DEF ProcessCrossChainInstruction, Acceptable, IInv, ManagersDeployed
    <3> QED BY <2>1, <2>3, <3>2, <3>3 DEF IInv, LocationsOpened
  <2> QED BY <2>2, <2>3
<1> QED BY <1>1, <1>2, <1>3, Frames DEF ProcessStep, inVars, vars

(* Nothing is performed without being recorded as completed.               *)
LEMMA PerformedStep == IInv /\ [Next]_vars => PerformedCompleted'
<1> SUFFICES ASSUME IInv, [Next]_vars PROVE PerformedCompleted'
  OBVIOUS
<1>1. CASE UNCHANGED <<completedInstructions, performed>>
  BY <1>1 DEF IInv, PerformedCompleted
<1>2. ASSUME NEW v, NEW vaas, NEW payout, ProcessCrossChainInstruction(v, vaas, payout)
      PROVE  PerformedCompleted'
  BY <1>2 DEF ProcessCrossChainInstruction, Save, IInv, PerformedCompleted
<1> QED BY <1>1, <1>2, Frames DEF ProcessStep, inVars, vars

(* The token bridge's transfers are numbered, whoever makes them.          *)
LEMMA OutStep ==
  ASSUME IInv, [Next]_vars
  PROVE  \/ UNCHANGED outVars
         \/ \E amount, chain : DisbursementMessages(amount, chain)
         \/ /\ UNCHANGED <<outInstructions, externalManager>>
            /\ nextTransferSequence' = nextTransferSequence + 1
            /\ \E t : /\ t.sequence = nextTransferSequence
                      /\ outTransfers' = outTransfers \cup {t}
<1>1. ASSUME NEW kind, NEW n, NEW s, NEW b, NEW payout, NEW chain,
             Perform(kind, n, s, b, payout, chain)
      PROVE  UNCHANGED outVars \/ DisbursementMessages(payout, chain)
  BY <1>1 DEF Perform
<1>2. UserStep => UNCHANGED outVars \/ \E amount, chain : DisbursementMessages(amount, chain)
  <2>1. ASSUME NEW sender, NEW c, NEW id, NEW sent, NEW listed,
               CreatePosition(sender, c, id, sent, listed)
        PROVE  UNCHANGED outVars
    BY <2>1 DEF CreatePosition, Perform
  <2>2. ASSUME NEW sender, NEW id, NEW kind, NEW sent, NEW listed, NEW payout, NEW c,
               ExecuteStrategy(sender, id, kind, sent, listed, payout, c)
        PROVE  UNCHANGED outVars \/ DisbursementMessages(payout, c)
    BY <1>1, <2>2 DEF ExecuteStrategy
  <2> QED BY <2>1, <2>2 DEF UserStep
<1>3. ProcessStep => UNCHANGED outVars \/ \E amount, chain : DisbursementMessages(amount, chain)
  BY <1>1 DEF ProcessStep, ProcessCrossChainInstruction
<1>4. ASSUME NEW amount, NEW c, OtherOutgoingTransfer(amount, c)
      PROVE  /\ UNCHANGED <<outInstructions, externalManager>>
             /\ nextTransferSequence' = nextTransferSequence + 1
             /\ \E t : /\ t.sequence = nextTransferSequence
                       /\ outTransfers' = outTransfers \cup {t}
  BY <1>4 DEF OtherOutgoingTransfer, registryVars
<1>5. ASSUME NEW sent, NEW listed, NEW c, InitiateOutgoingTokenTransfer(sent, listed, c)
      PROVE  DisbursementMessages(listed, c)
  BY <1>5 DEF InitiateOutgoingTokenTransfer
<1>6. TransferStep => \/ \E amount, chain : DisbursementMessages(amount, chain)
                      \/ /\ UNCHANGED <<outInstructions, externalManager>>
                         /\ nextTransferSequence' = nextTransferSequence + 1
                         /\ \E t : /\ t.sequence = nextTransferSequence
                                   /\ outTransfers' = outTransfers \cup {t}
  BY <1>4, <1>5 DEF TransferStep
<1> QED BY <1>2, <1>3, <1>6, Frames DEF outVars, vars

(* The conjuncts of DisbursementsBacked, named.                            *)
Backs(t, m) ==
  /\ t.sequence = m.sequence
  /\ t.recipientChain = m.recipientChain
  /\ t.recipient = Deployed
  /\ \A u \in outTransfers : u.sequence = t.sequence => u = t

Backed(m) == \E t \in outTransfers : Backs(t, m)

(* DisbursementsBacked, a part at a time.                                  *)
LEMMA DisbursementsBackedParts ==
  DisbursementsBacked <=>
    /\ \A i \in 1 .. Len(outInstructions) : Backed(outInstructions[i])
    /\ \A i, j \in 1 .. Len(outInstructions) :
         outInstructions[i].sequence = outInstructions[j].sequence => i = j
BY DEF DisbursementsBacked, Backed, Backs

(* A transfer takes the next sequence, so it disturbs no earlier one.      *)
LEMMA TransferAppended ==
  ASSUME IInv, NEW t, t.sequence = nextTransferSequence,
         outTransfers' = outTransfers \cup {t},
         nextTransferSequence' = nextTransferSequence + 1
  PROVE  /\ OutSequences'
         /\ \A m : Backed(m) => Backed(m)'
         /\ \A i \in 1 .. Len(outInstructions) :
              outInstructions[i].sequence < nextTransferSequence
<1>1. /\ nextTransferSequence \in Nat
      /\ \A u \in outTransfers : u.sequence \in Nat /\ u.sequence < nextTransferSequence
      /\ \A u, w \in outTransfers : u.sequence = w.sequence => u = w
  BY DEF IInv, TypeOK, OutSequences
<1>2. OutSequences'
  BY <1>1 DEF OutSequences
<1>3. \A m : Backed(m) => Backed(m)'
  BY <1>1 DEF Backed, Backs
<1>4. \A i \in 1 .. Len(outInstructions) :
        outInstructions[i].sequence < nextTransferSequence
  BY <1>1, DisbursementsBackedParts DEF IInv, Backed, Backs
<1> QED BY <1>2, <1>3, <1>4

(* A disbursement posts an instruction and makes the transfer it announces.*)
LEMMA DisbursementAppended ==
  ASSUME IInv, NEW amount, NEW chain, DisbursementMessages(amount, chain),
         ~ UNCHANGED outVars
  PROVE  OutSequences' /\ DisbursementsBacked'
<1> DEFINE n == Len(outInstructions)
<1>0. PICK m : m = [sequence |-> nextTransferSequence, recipientChain |-> chain]
  OBVIOUS
<1>1. PICK t : t = [sequence |-> nextTransferSequence, recipientChain |-> chain,
                    recipient |-> externalManager[chain],
                    amount |-> amount - Fee(amount)]
  OBVIOUS
<1>2. /\ chain \in DOMAIN externalManager
      /\ outInstructions' = Append(outInstructions, m)
      /\ outTransfers' = outTransfers \cup {t}
      /\ nextTransferSequence' = nextTransferSequence + 1
  BY <1>0, <1>1 DEF DisbursementMessages, get_next_sequence
<1>3. /\ t.sequence = nextTransferSequence /\ t.recipientChain = chain
      /\ t.recipient = Deployed
      /\ m.sequence = nextTransferSequence /\ m.recipientChain = chain
  BY <1>0, <1>1, <1>2 DEF IInv, ManagersDeployed
<1>4. /\ OutSequences'
      /\ \A x : Backed(x) => Backed(x)'
      /\ \A i \in 1 .. n : outInstructions[i].sequence < nextTransferSequence
  BY <1>2, <1>3, TransferAppended
<1>5. Backed(m)'
  <2>1. \A u \in outTransfers : u.sequence # t.sequence
    BY <1>3 DEF IInv, OutSequences, TypeOK
  <2>2. Backs(t, m)'
    BY <1>2, <1>3, <2>1 DEF Backs
  <2>3. t \in outTransfers'
    BY <1>2
  <2> QED BY <2>2, <2>3 DEF Backed, Backs
<1>6. /\ n \in Nat
      /\ Len(outInstructions') = n + 1
      /\ outInstructions'[n + 1] = m
      /\ \A i \in 1 .. n : outInstructions'[i] = outInstructions[i]
  <2>1. outInstructions \in Seq([sequence: Nat, recipientChain: ExternalChains])
    BY DEF IInv, TypeOK
  <2>2. m \in [sequence: Nat, recipientChain: ExternalChains]
    BY <1>0, <1>2 DEF IInv, TypeOK
  <2> QED BY <1>2, <2>1, <2>2
<1>7. /\ \A i \in 1 .. n : Backed(outInstructions[i])
      /\ \A i, j \in 1 .. n :
           outInstructions[i].sequence = outInstructions[j].sequence => i = j
      /\ \A i \in 1 .. n : outInstructions[i].sequence # m.sequence
  <2>1. \A i \in 1 .. n : outInstructions[i] \in [sequence: Nat, recipientChain: ExternalChains]
    <3>1. outInstructions \in Seq([sequence: Nat, recipientChain: ExternalChains])
      BY DEF IInv, TypeOK
    <3> QED BY <3>1, SeqElement
  <2>2. \A i \in 1 .. n : outInstructions[i].sequence \in Nat
    BY <2>1
  <2> QED BY <1>3, <1>4, <2>2, DisbursementsBackedParts DEF IInv, TypeOK
<1>8. \A i \in 1 .. n + 1 : i = n + 1 \/ i \in 1 .. n
  BY <1>6
<1> HIDE DEF n
<1>9. \A i \in 1 .. n + 1 : \E x : x = outInstructions'[i] /\ Backed(x)'
  BY <1>4, <1>5, <1>6, <1>7, <1>8
<1>10. \A i \in 1 .. n + 1 : \E u \in outTransfers' :
         /\ u.sequence = outInstructions'[i].sequence
         /\ u.recipientChain = outInstructions'[i].recipientChain
         /\ u.recipient = Deployed
         /\ \A w \in outTransfers' : w.sequence = u.sequence => w = u
  BY <1>9 DEF Backed, Backs
<1>11. \A i, j \in 1 .. n + 1 :
         outInstructions'[i].sequence = outInstructions'[j].sequence => i = j
  BY <1>6, <1>7, <1>8
<1>12. DisbursementsBacked'
  BY <1>6, <1>10, <1>11 DEF DisbursementsBacked
<1> QED BY <1>4, <1>12

(* The outgoing sequences and what disbursements announce stay right.      *)
LEMMA OutSequencesStep == IInv /\ [Next]_vars => OutSequences' /\ DisbursementsBacked'
<1> SUFFICES ASSUME IInv, [Next]_vars PROVE OutSequences' /\ DisbursementsBacked'
  OBVIOUS
<1>1. CASE UNCHANGED outVars
  BY <1>1 DEF IInv, OutSequences, DisbursementsBacked, outVars
<1>2. CASE \E amount, chain : DisbursementMessages(amount, chain)
  BY <1>1, <1>2, DisbursementAppended
<1>3. CASE /\ UNCHANGED <<outInstructions, externalManager>>
           /\ nextTransferSequence' = nextTransferSequence + 1
           /\ \E t : /\ t.sequence = nextTransferSequence
                     /\ outTransfers' = outTransfers \cup {t}
  <2>1. OutSequences' /\ \A m : Backed(m) => Backed(m)'
    BY <1>3, TransferAppended
  <2>2. \A i \in 1 .. Len(outInstructions) :
          \E x : x = outInstructions[i] /\ Backed(x)'
    BY <2>1, DisbursementsBackedParts DEF IInv
  <2>3. \A i, j \in 1 .. Len(outInstructions) :
          outInstructions[i].sequence = outInstructions[j].sequence => i = j
    BY DisbursementsBackedParts DEF IInv
  <2> QED BY <1>3, <2>1, <2>2, <2>3 DEF DisbursementsBacked, Backed, Backs
<1> QED BY <1>1, <1>2, <1>3, OutStep

(* A position created on Terra enters all three maps; an instruction from  *)
(* another chain never touches Terra's positions.                          *)
LEMMA HoldersStep == IInv /\ [Next]_vars => HolderIndexConsistent'
<1> SUFFICES ASSUME IInv, [Next]_vars PROVE HolderIndexConsistent'
  OBVIOUS
<1>0. HolderIndexConsistent /\ nextPositionId \in Nat
  BY DEF IInv, TypeOK
<1>1. CASE UNCHANGED <<positionVars, strategyLocation>>
  BY <1>0, <1>1 DEF HolderIndexConsistent, positionVars
<1>2. ASSUME NEW sender \in Accounts, NEW c, NEW id, NEW sent, NEW listed,
             CreatePosition(sender, c, id, sent, listed)
      PROVE  HolderIndexConsistent'
  <2> DEFINE position == <<TERRA_CHAIN_ID, nextPositionId>>
  <2>1. /\ nextPositionId' = nextPositionId + 1
        /\ positionHolder' = Save(positionHolder, nextPositionId, sender)
        /\ holderPairs' = holderPairs \cup {<<sender, nextPositionId>>}
        /\ strategyLocation' = Save(strategyLocation, position, id)
    BY <1>2 DEF CreatePosition, Locate
  <2>2. /\ DOMAIN positionHolder' = DOMAIN positionHolder \cup {nextPositionId}
        /\ positionHolder'[nextPositionId] = sender
        /\ \A i \in DOMAIN positionHolder \ {nextPositionId} :
             positionHolder'[i] = positionHolder[i]
    BY <2>1 DEF Save
  <2>3. DOMAIN strategyLocation' = DOMAIN strategyLocation \cup {position}
    BY <2>1, SaveMap
  <2>4. DOMAIN positionHolder = 0 .. nextPositionId - 1
    BY <1>0 DEF HolderIndexConsistent
  <2>5. nextPositionId \notin DOMAIN positionHolder
    BY <1>0, <2>4
  <2>6. DOMAIN positionHolder' = 0 .. nextPositionId' - 1
    BY <1>0, <2>1, <2>2, <2>4
  <2>7. holderPairs' = {<<positionHolder'[i], i>> : i \in DOMAIN positionHolder'}
    BY <1>0, <2>1, <2>2, <2>5 DEF HolderIndexConsistent
  <2>8. {p \in DOMAIN strategyLocation' : p[1] = TERRA_CHAIN_ID}
          = {<<TERRA_CHAIN_ID, i>> : i \in DOMAIN positionHolder'}
    BY <1>0, <2>2, <2>3 DEF HolderIndexConsistent
  <2> QED BY <2>6, <2>7, <2>8 DEF HolderIndexConsistent
<1>3. CASE UserStep
  <2>1. ASSUME NEW sender, NEW id, NEW kind, NEW sent, NEW listed, NEW payout, NEW c,
               ExecuteStrategy(sender, id, kind, sent, listed, payout, c)
        PROVE  HolderIndexConsistent'
    BY <1>1, <2>1 DEF ExecuteStrategy
  <2> QED BY <1>2, <1>3, <2>1 DEF UserStep
<1>4. ASSUME NEW v \in instructions, NEW vaas, NEW payout,
             ProcessCrossChainInstruction(v, vaas, payout)
      PROVE  HolderIndexConsistent'
  <2> DEFINE position == <<v.emitterChain, v.positionId>>
  <2>1. UNCHANGED positionVars
    BY <1>4 DEF ProcessCrossChainInstruction
  <2>2. CASE v.kind # "open"
    <3>1. UNCHANGED strategyLocation
      BY <1>4, <2>2 DEF ProcessCrossChainInstruction
    <3> QED BY <1>1, <2>1, <3>1
  <2>3. CASE v.kind = "open"
    <3>1. strategyLocation' = Save(strategyLocation, position, v.strategyId)
      BY <1>4, <2>3 DEF ProcessCrossChainInstruction
    <3>2. DOMAIN strategyLocation' = DOMAIN strategyLocation \cup {position}
      BY <3>1, SaveMap
    <3>3. position[1] # TERRA_CHAIN_ID
      BY ChainsAssumption DEF IInv, TypeOK, InstructionType
    <3>4. {p \in DOMAIN strategyLocation' : p[1] = TERRA_CHAIN_ID}
            = {p \in DOMAIN strategyLocation : p[1] = TERRA_CHAIN_ID}
      BY <3>2, <3>3
    <3> QED BY <1>0, <2>1, <3>4 DEF HolderIndexConsistent, positionVars
  <2> QED BY <2>2, <2>3
<1> QED BY <1>1, <1>3, <1>4, Frames DEF ProcessStep, vars

(* An instruction that is performed on Terra comes from the deployed       *)
(* manager, whose record of the position it carries.                       *)
LEMMA AuthenticStep == IInv /\ [Next]_vars => ExternalPositionsAuthentic'
<1> SUFFICES ASSUME IInv, [Next]_vars,
                    NEW p \in DOMAIN strategyLocation', p[1] # TERRA_CHAIN_ID
             PROVE  /\ p[2] < Len(extPositions'[p[1]][Deployed])
                    /\ extPositions'[p[1]][Deployed][p[2] + 1]
                         = [strategyChain |-> TERRA_CHAIN_ID,
                            strategyId |-> strategyLocation'[p]]
  BY DEF ExternalPositionsAuthentic
<1> DEFINE r == extPositions[p[1]][Deployed]
<1> DEFINE s == extPositions'[p[1]][Deployed]
<1>0. TypeOK /\ TypeOK'
  BY TypeStep DEF IInv
<1>1. p[1] \in ExternalChains /\ p[2] \in Nat
  BY <1>0 DEF TypeOK, Positions, Chains
<1>2. /\ Len(r) \in Nat /\ Len(s) >= Len(r)
      /\ \A i \in 1 .. Len(r) : s[i] = r[i]
  BY <1>0, <1>1, RecordsNeverChange, DeployedAssumption, Zenon DEF RecordsGrow
<1>3. Len(s) \in Nat
  BY <1>0, <1>1, DeployedAssumption DEF TypeOK, PositionRecords
<1>4. ASSUME NEW id, p[2] < Len(r),
             r[p[2] + 1] = [strategyChain |-> TERRA_CHAIN_ID, strategyId |-> id],
             strategyLocation'[p] = id
      PROVE  /\ p[2] < Len(s)
             /\ s[p[2] + 1] = [strategyChain |-> TERRA_CHAIN_ID,
                               strategyId |-> strategyLocation'[p]]
  <2> HIDE DEF r, s
  <2>1. p[2] + 1 \in 1 .. Len(r) /\ p[2] < Len(s)
    BY <1>1, <1>2, <1>3, <1>4
  <2> QED BY <1>2, <1>4, <2>1
<1>5. CASE p \in DOMAIN strategyLocation /\ strategyLocation'[p] = strategyLocation[p]
  BY <1>4, <1>5 DEF IInv, ExternalPositionsAuthentic
<1>6. CASE UNCHANGED strategyLocation
  BY <1>5, <1>6
<1>7. ASSUME NEW sender, NEW c, NEW id, NEW sent, NEW listed,
             CreatePosition(sender, c, id, sent, listed)
      PROVE  p \in DOMAIN strategyLocation /\ strategyLocation'[p] = strategyLocation[p]
  <2>1. strategyLocation' = Save(strategyLocation, <<TERRA_CHAIN_ID, nextPositionId>>, id)
    BY <1>7 DEF CreatePosition, Locate
  <2>2. p # <<TERRA_CHAIN_ID, nextPositionId>>
    OBVIOUS
  <2> HIDE DEF r, s
  <2> QED BY <2>1, <2>2 DEF Save
<1>8. CASE UserStep
  <2>1. ASSUME NEW sender, NEW id, NEW kind, NEW sent, NEW listed, NEW payout, NEW c,
               ExecuteStrategy(sender, id, kind, sent, listed, payout, c)
        PROVE  UNCHANGED strategyLocation
    BY <2>1 DEF ExecuteStrategy
  <2>2. \/ UNCHANGED strategyLocation
        \/ p \in DOMAIN strategyLocation /\ strategyLocation'[p] = strategyLocation[p]
    BY <1>7, <1>8, <2>1 DEF UserStep
  <2> QED BY <1>5, <1>6, <2>2
<1>9. ASSUME NEW v \in instructions, NEW vaas, NEW payout,
             ProcessCrossChainInstruction(v, vaas, payout), ~ UNCHANGED strategyLocation
      PROVE  /\ p[2] < Len(s)
             /\ s[p[2] + 1] = [strategyChain |-> TERRA_CHAIN_ID,
                               strategyId |-> strategyLocation'[p]]
  <2> DEFINE position == <<v.emitterChain, v.positionId>>
  <2>1. strategyLocation' = Save(strategyLocation, position, v.strategyId)
    BY <1>9 DEF ProcessCrossChainInstruction
  <2>2. CASE p # position
    <3>1. p \in DOMAIN strategyLocation /\ strategyLocation'[p] = strategyLocation[p]
      BY <2>1, <2>2 DEF Save
    <3> QED BY <1>5, <3>1
  <2>3. CASE p = position
    <3>1. strategyLocation'[p] = v.strategyId
      BY <2>1, <2>3 DEF Save
    <3>2. v.emitter = Deployed /\ v.strategyChain = TERRA_CHAIN_ID
      BY <1>9 DEF ProcessCrossChainInstruction, Acceptable, IInv, ManagersDeployed
    <3>3. /\ p[2] < Len(r)
          /\ r[p[2] + 1] = [strategyChain |-> TERRA_CHAIN_ID,
                            strategyId |-> v.strategyId]
      BY <2>3, <3>2 DEF IInv, InstructionsRecorded
    <3> QED BY <1>4, <3>1, <3>3
  <2> QED BY <2>2, <2>3
<1> QED BY <1>6, <1>8, <1>9, Frames DEF ProcessStep, vars

-----------------------------------------------------------------------------
(* The invariant, and the theorems.                                        *)

(* IInv, the strengthening under which each property is inductive.         *)
THEOREM Invariance == Spec => []IInv
<1>1. Init => IInv
  BY InvInit
<1>2. IInv /\ [Next]_vars => IInv'
  BY TypeStep, ManagersStep, InstructionsStep, SequencesStep, LocationsStep,
     PerformedStep, OutSequencesStep, HoldersStep, AuthenticStep DEF IInv
<1> QED BY <1>1, <1>2, PTL DEF Spec

(* The holder index and the position maps always agree, whatever requests, *)
(* removals of strategies and instructions of other chains happen.         *)
THEOREM HolderIndex == Spec => []HolderIndexConsistent
<1>1. IInv => HolderIndexConsistent
  BY DEF IInv
<1> QED BY <1>1, Invariance, PTL

(* Every position kept for another chain is one that chain's registered    *)
(* manager recorded for Terra, with that strategy.                         *)
THEOREM ExternalAuthenticity == Spec => []ExternalPositionsAuthentic
<1>1. IInv => ExternalPositionsAuthentic
  BY DEF IInv
<1> QED BY <1>1, Invariance, PTL

(* Every disbursement instruction posted on Terra announces a transfer of  *)
(* its own to the manager of the chain it goes to.                         *)
THEOREM DisbursementBacking == Spec => []DisbursementsBacked
<1>1. IInv => DisbursementsBacked
  BY DEF IInv
<1> QED BY <1>1, Invariance, PTL

-----------------------------------------------------------------------------
(* TerraManager implements PositionLedger.                                 *)

(* A publication's transfers take sequences after those already used.      *)
LEMMA PublishFresh ==
  ASSUME TypeOK, NEW c \in ExternalChains, NEW e, NEW kind, NEW id, NEW sc, NEW sid,
         NEW amounts \in Lists(Amounts), NEW fee, NEW to,
         Publish(c, e, kind, id, sc, sid, amounts, fee, to)
  PROVE  /\ transfers \subseteq transfers'
         /\ \A t \in transfers' \ transfers :
              t.chain = c /\ t.sequence \in Nat /\ extSequence[c] < t.sequence
<1>1. transfers' = transfers \cup PublishedTransfers(c, sc, amounts, fee)
  BY DEF Publish
<1>2. /\ Len(amounts) \in Nat /\ DOMAIN amounts = 1 .. Len(amounts)
      /\ extSequence[c] \in Nat
  BY ListSeq DEF TypeOK
<1>3. \A t \in PublishedTransfers(c, sc, amounts, fee) :
        t.chain = c /\ t.sequence \in Nat /\ extSequence[c] < t.sequence
  BY <1>2 DEF PublishedTransfers
<1> QED BY <1>1, <1>3

(* The transfers of an instruction are settled once it is published: later *)
(* publications use later sequences.                                       *)
LEMMA TransfersSettled ==
  ASSUME IInv, [Next]_vars, NEW v \in instructions
  PROVE  TransfersOf(v)' = TransfersOf(v)
<1>1. CASE UNCHANGED transfers
  BY <1>1 DEF TransfersOf
<1>2. ASSUME NEW c \in ExternalChains, transfers \subseteq transfers',
             \A t \in transfers' \ transfers :
               t.chain = c /\ t.sequence \in Nat /\ extSequence[c] < t.sequence
      PROVE  TransfersOf(v)' = TransfersOf(v)
  <2>1. /\ extSequence[c] \in Nat
        /\ \A i \in DOMAIN v.sequences : v.sequences[i] \in Nat
    BY DEF IInv, TypeOK, InstructionType
  <2>2. \A i \in DOMAIN v.sequences : v.sequences[i] <= extSequence[v.emitterChain]
    BY DEF IInv, SequencesUnique
  <2>3. \A t \in transfers' \ transfers :
          ~ (t.chain = v.emitterChain /\ t.sequence \in Range(v.sequences))
    BY <1>2, <2>1, <2>2 DEF Range
  <2> QED BY <1>2, <2>3 DEF TransfersOf
<1>3. CASE PublishStep
  <2>1. ASSUME NEW c \in ExternalChains, NEW e, NEW fee, NEW amounts \in Lists(Amounts),
               NEW sc, NEW id, PublishOpen(c, e, sc, id, amounts, fee)
        PROVE  TransfersOf(v)' = TransfersOf(v)
    <3>1. /\ transfers \subseteq transfers'
          /\ \A t \in transfers' \ transfers :
               t.chain = c /\ t.sequence \in Nat /\ extSequence[c] < t.sequence
      BY <2>1, PublishFresh DEF PublishOpen, IInv
    <3> QED BY <1>2, <3>1
  <2>2. ASSUME NEW c \in ExternalChains, NEW e, NEW fee, NEW amounts \in Lists(Amounts),
               NEW kind, NEW id, NEW to, PublishExecute(c, e, kind, id, amounts, fee, to)
        PROVE  TransfersOf(v)' = TransfersOf(v)
    <3>1. /\ transfers \subseteq transfers'
          /\ \A t \in transfers' \ transfers :
               t.chain = c /\ t.sequence \in Nat /\ extSequence[c] < t.sequence
      BY <2>2, PublishFresh DEF PublishExecute, IInv
    <3> QED BY <1>2, <3>1
  <2> QED BY <1>3, <2>1, <2>2 DEF PublishStep
<1> QED BY <1>1, <1>3, Frames DEF extVars, vars

(* Performing an instruction needs the arrival of exactly its transfers,   *)
(* which no other instruction has used.                                    *)
LEMMA TransfersOwn ==
  ASSUME IInv, NEW v \in instructions, NEW vaas \in Lists(transfers), Acceptable(v, vaas)
  PROVE  /\ TransfersOf(v) \subseteq Range(vaas)
         /\ \A w \in completedInstructions : TransfersOf(v) \cap TransfersOf(w) = {}
<1>1. TransfersOf(v) \subseteq Range(vaas)
  <2> SUFFICES ASSUME NEW t \in transfers, t.chain = v.emitterChain,
                      NEW i \in DOMAIN v.sequences, t.sequence = v.sequences[i]
               PROVE  t \in Range(vaas)
    BY DEF TransfersOf, Range
  <2>1. i \in DOMAIN vaas
    <3>1. v.sequences \in Seq(Nat)
      BY DEF IInv, TypeOK, InstructionType
    <3>2. DOMAIN v.sequences = 1 .. Len(v.sequences)
      BY <3>1
    <3> QED BY <3>2, ListSeq DEF Acceptable
  <2>2. /\ vaas[i] \in transfers
        /\ vaas[i].chain = t.chain /\ vaas[i].sequence = t.sequence
    BY <2>1, ListSeq DEF Acceptable, MatchesSequence
  <2>3. vaas[i] = t
    BY <2>2 DEF IInv, SequencesUnique
  <2> QED BY <2>1, <2>3 DEF Range
<1>2. ASSUME NEW w \in completedInstructions
      PROVE  TransfersOf(v) \cap TransfersOf(w) = {}
  <2>1. v # w /\ w \in instructions
    BY DEF Acceptable, IInv, TypeOK
  <2>2. v.emitterChain = w.emitterChain => Range(v.sequences) \cap Range(w.sequences) = {}
    BY <2>1 DEF IInv, SequencesUnique
  <2> QED BY <2>2 DEF TransfersOf
<1> QED BY <1>1, <1>2

(* The refinement mapping's value of the ledger's `paid'.                  *)
Paid == [v \in completedInstructions |-> TransfersOf(v)]

(* Nothing is opened, paid or performed at the start.                      *)
LEMMA LedgerInit == Init => Ledger!Init
BY DEF Init, Ledger!Init, Empty

(* Performing an instruction is the ledger's payment for it.               *)
LEMMA ProcessPays ==
  ASSUME IInv, [Next]_vars, NEW v \in instructions, NEW vaas \in Lists(transfers),
         NEW payout, ProcessCrossChainInstruction(v, vaas, payout)
  PROVE  v \in DOMAIN Paid' /\ Ledger!Pay(v)
<1>1. /\ completedInstructions' = completedInstructions \cup {v}
      /\ completedTransfers' = completedTransfers \cup Range(vaas)
      /\ Acceptable(v, vaas)
  BY DEF ProcessCrossChainInstruction
<1>2. v \notin completedInstructions
  BY <1>1 DEF Acceptable
<1>3. \A w \in completedInstructions \cup {v} : TransfersOf(w)' = TransfersOf(w)
  BY TransfersSettled DEF IInv, TypeOK
<1>4. /\ DOMAIN Paid' = DOMAIN Paid \cup {v}
      /\ Paid'[v] = TransfersOf(v)
      /\ \A w \in DOMAIN Paid : Paid'[w] = Paid[w] /\ Paid[w] = TransfersOf(w)
  BY <1>1, <1>3 DEF Paid
<1>5. Paid'[v] \cap UNION {Paid[w] : w \in DOMAIN Paid} = {}
  <2>1. \A w \in DOMAIN Paid : w \in completedInstructions
    BY DEF Paid
  <2> QED BY <1>1, <1>4, <2>1, TransfersOwn
<1>6. Paid'[v] \subseteq completedTransfers' /\ completedTransfers \subseteq completedTransfers'
  BY <1>1, <1>4, TransfersOwn
<1>7. v \notin DOMAIN Paid
  BY <1>2 DEF Paid
<1>8. /\ DOMAIN performed' = DOMAIN performed \cup {v}
      /\ performed'[v] = 1
      /\ \A w \in DOMAIN performed : performed'[w] = performed[w]
  <2>1. v \notin DOMAIN performed
    BY <1>2 DEF IInv, PerformedCompleted
  <2>2. performed' = Save(performed, v, 1)
    BY <2>1 DEF ProcessCrossChainInstruction
  <2> QED BY <2>1, <2>2 DEF Save
<1> QED BY <1>4, <1>5, <1>6, <1>7, <1>8 DEF Ledger!Pay, Ledger!Spent, Paid

(* What an instruction was paid with does not change afterwards.           *)
LEMMA PaidSettled ==
  ASSUME IInv, [Next]_vars, UNCHANGED completedInstructions
  PROVE  Paid' = Paid
BY TransfersSettled DEF Paid, IInv, TypeOK

(* Each step of the contract is a step of the ledger or a stutter.         *)
LEMMA LedgerStep == IInv /\ [Next]_vars => [Ledger!Next]_(Ledger!ledger)
<1> SUFFICES ASSUME IInv, [Next]_vars PROVE [Ledger!Next]_(Ledger!ledger)
  OBVIOUS
<1>1. CASE UNCHANGED <<strategyLocation, inVars>>
  BY <1>1, PaidSettled DEF Ledger!ledger, Paid, inVars
<1>2. ASSUME NEW sender, NEW c, NEW id, NEW sent, NEW listed,
             CreatePosition(sender, c, id, sent, listed)
      PROVE  Ledger!Next
  <2> DEFINE position == <<TERRA_CHAIN_ID, nextPositionId>>
  <2>1. /\ strategyLocation' = Save(strategyLocation, position, id)
        /\ UNCHANGED inVars
    BY <1>2 DEF CreatePosition, Locate, inVars
  <2>2. position \notin DOMAIN strategyLocation
    <3>1. nextPositionId \notin DOMAIN positionHolder
      BY DEF IInv, TypeOK, HolderIndexConsistent
    <3>2. \A p \in DOMAIN strategyLocation :
            p[1] = TERRA_CHAIN_ID
            => \E i \in DOMAIN positionHolder : p = <<TERRA_CHAIN_ID, i>>
      BY DEF IInv, HolderIndexConsistent
    <3> QED BY <3>1, <3>2
  <2>3. /\ DOMAIN strategyLocation' = DOMAIN strategyLocation \cup {position}
        /\ \A q \in DOMAIN strategyLocation : strategyLocation'[q] = strategyLocation[q]
    BY <2>1, <2>2 DEF Save
  <2>4. Ledger!Local
    BY <2>1, PaidSettled DEF Ledger!Local, Paid, inVars
  <2>5. Ledger!Open(position)
    BY <2>2, <2>3, <2>4 DEF Ledger!Open
  <2> QED BY <2>3, <2>5 DEF Ledger!Next
<1>3. CASE UserStep
  <2>1. ASSUME NEW sender, NEW id, NEW kind, NEW sent, NEW listed, NEW payout, NEW c,
               ExecuteStrategy(sender, id, kind, sent, listed, payout, c)
        PROVE  UNCHANGED <<strategyLocation, inVars>>
    BY <2>1 DEF ExecuteStrategy, inVars
  <2>2. Ledger!Next \/ UNCHANGED <<strategyLocation, inVars>>
    BY <1>2, <1>3, <2>1 DEF UserStep
  <2> QED BY <1>1, <2>2
<1>4. ASSUME NEW t \in transfers, SubmitVaa(t)
      PROVE  Ledger!Next
  <2>1. /\ completedTransfers \subseteq completedTransfers'
        /\ UNCHANGED <<strategyLocation, completedInstructions, performed>>
    BY <1>4 DEF SubmitVaa
  <2> QED BY <2>1, PaidSettled DEF Ledger!Next, Ledger!Arrive, Paid
<1>5. ASSUME NEW v \in instructions, NEW vaas \in Lists(transfers), NEW payout,
             ProcessCrossChainInstruction(v, vaas, payout)
      PROVE  Ledger!Next
  <2> DEFINE position == <<v.emitterChain, v.positionId>>
  <2>1. v \in DOMAIN Paid' /\ Ledger!Pay(v)
    BY <1>5, ProcessPays
  <2>2. CASE v.kind # "open"
    <3>1. UNCHANGED strategyLocation /\ DOMAIN strategyLocation # {}
      BY <1>5, <2>2 DEF ProcessCrossChainInstruction
    <3> QED BY <2>1, <3>1 DEF Ledger!Next, Ledger!Act, Paid
  <2>3. CASE v.kind = "open"
    <3>1. strategyLocation' = Save(strategyLocation, position, v.strategyId)
      BY <1>5, <2>3 DEF ProcessCrossChainInstruction
    <3>2. /\ v.emitter = Deployed
          /\ v \notin completedInstructions
          /\ position[1] # TERRA_CHAIN_ID
      BY <1>5, ChainsAssumption
      DEF ProcessCrossChainInstruction, Acceptable, IInv, ManagersDeployed, TypeOK,
          InstructionType
    <3>3. position \notin DOMAIN strategyLocation
      <4> SUFFICES ASSUME position \in DOMAIN strategyLocation PROVE FALSE
        OBVIOUS
      <4>1. PICK w \in completedInstructions :
              /\ w.kind = "open" /\ w.emitter = Deployed
              /\ position = <<w.emitterChain, w.positionId>>
        BY <3>2 DEF IInv, LocationsOpened
      <4>2. w \in instructions
        BY DEF IInv, TypeOK
      <4>3. w = v
        BY <2>3, <3>2, <4>1, <4>2 DEF IInv, InstructionsRecorded
      <4> QED BY <3>2, <4>3
    <3>4. /\ DOMAIN strategyLocation' = DOMAIN strategyLocation \cup {position}
          /\ \A q \in DOMAIN strategyLocation : strategyLocation'[q] = strategyLocation[q]
      BY <3>1, <3>3 DEF Save
    <3>5. Ledger!Open(position)
      BY <2>1, <3>3, <3>4 DEF Ledger!Open, Paid
    <3> QED BY <3>4, <3>5 DEF Ledger!Next
  <2> QED BY <2>2, <2>3
<1> QED BY <1>1, <1>3, <1>4, <1>5, Frames DEF ProcessStep, inVars, vars

(* The contract keeps PositionLedger's promises: no position is opened     *)
(* twice or moved, no instruction performed twice, and no transfer pays    *)
(* for two instructions or before it has arrived.                          *)
THEOREM LedgerImplemented == Spec => ImplementsLedger
<1>1. Init => Ledger!Init
  BY LedgerInit
<1>2. IInv /\ [Next]_vars => [Ledger!Next]_(Ledger!ledger)
  BY LedgerStep
<1> QED BY <1>1, <1>2, Invariance, PTL DEF Spec, ImplementsLedger, Ledger!Spec

-----------------------------------------------------------------------------
(* The manager's solvency.                                                 *)

(* Transfers of which amounts can be added up.                             *)
Payable(T) ==
  IsFiniteSet(T) /\ \A t \in T : t.amount \in Nat /\ t.fee \in 0 .. t.amount

(* What transfers bring to the manager and to their relayer.               *)
LEMMA KeptNat ==
  ASSUME NEW T, Payable(T)
  PROVE  Kept(T) \in Nat /\ Fees(T) \in Nat
<1> DEFINE k == [t \in T |-> t.amount - t.fee]
           f == [t \in T |-> t.fee]
<1>1. IsFiniteSet(T) /\ (\A t \in T : k[t] \in Nat) /\ (\A t \in T : f[t] \in Nat)
  BY DEF Payable
<1>2. DOMAIN k = T /\ DOMAIN f = T
  OBVIOUS
<1>3. Kept(T) = SumFunctionOnSet(k, T) /\ Fees(T) = SumFunctionOnSet(f, T)
  BY <1>2 DEF Kept, Fees, SumFunction
<1> HIDE DEF k, f
<1> QED BY <1>1, <1>3, SumNat

(* What they bring, part by part.                                          *)
LEMMA KeptSplit ==
  ASSUME NEW T, Payable(T), NEW S \in SUBSET T
  PROVE  /\ Payable(S) /\ Payable(T \ S)
         /\ Kept(T) = Kept(S) + Kept(T \ S)
<1> DEFINE k(U) == [t \in U |-> t.amount - t.fee]
<1>1. Payable(S) /\ Payable(T \ S)
  BY FS_Subset DEF Payable
<1>2. \A U : Kept(U) = SumFunctionOnSet(k(U), U)
  <2> TAKE U
  <2>1. DOMAIN k(U) = U
    OBVIOUS
  <2> QED BY <2>1 DEF Kept, SumFunction
<1>3. \A t \in T : k(T)[t] \in Nat
  BY DEF Payable
<1>4. IsFiniteSet(T) /\ IsFiniteSet(S) /\ IsFiniteSet(T \ S)
  BY <1>1 DEF Payable
<1>5. (\A t \in S : k(T)[t] = k(S)[t]) /\ (\A t \in T \ S : k(T)[t] = k(T \ S)[t])
  OBVIOUS
<1> HIDE DEF k
<1>6. SumFunctionOnSet(k(T), T)
        = SumFunctionOnSet(k(T), S) + SumFunctionOnSet(k(T), T \ S)
  BY <1>3, <1>4, SumSubset
<1>7. SumFunctionOnSet(k(T), S) = SumFunctionOnSet(k(S), S)
  BY <1>4, <1>5, SumSame
<1>8. SumFunctionOnSet(k(T), T \ S) = SumFunctionOnSet(k(T \ S), T \ S)
  BY <1>4, <1>5, SumSame
<1> QED BY <1>1, <1>2, <1>6, <1>7, <1>8

(* One transfer, and one more.                                             *)
LEMMA KeptOne ==
  ASSUME NEW t, t.amount \in Nat, t.fee \in 0 .. t.amount
  PROVE  Kept({t}) = t.amount - t.fee /\ Fees({t}) = t.fee
<1> DEFINE k == [u \in {t} |-> u.amount - u.fee]
           f == [u \in {t} |-> u.fee]
<1>1. Kept({t}) = SumFunctionOnSet(k, {t}) /\ Fees({t}) = SumFunctionOnSet(f, {t})
  <2>1. DOMAIN k = {t} /\ DOMAIN f = {t}
    OBVIOUS
  <2> QED BY <2>1 DEF Kept, Fees, SumFunction
<1>2. k[t] = t.amount - t.fee /\ f[t] = t.fee
  OBVIOUS
<1> HIDE DEF k, f
<1>3. k[t] \in Int /\ f[t] \in Int
  BY <1>2
<1> QED BY <1>1, <1>2, <1>3, SumSingle

LEMMA KeptAdd ==
  ASSUME NEW T, Payable(T), NEW t, t \notin T,
         t.amount \in Nat, t.fee \in 0 .. t.amount
  PROVE  /\ Payable(T \cup {t})
         /\ Kept(T \cup {t}) = Kept(T) + (t.amount - t.fee)
<1> DEFINE U == T \cup {t}
<1>1. Payable(U)
  BY FS_AddElement DEF Payable
<1>2. {t} \in SUBSET U /\ U \ {t} = T
  OBVIOUS
<1>3. Kept(U) = Kept({t}) + Kept(U \ {t})
  BY <1>1, <1>2, KeptSplit
<1>4. Kept(U) = (t.amount - t.fee) + Kept(T)
  BY <1>2, <1>3, KeptOne
<1>5. Kept(T) \in Nat
  BY KeptNat
<1> QED BY <1>1, <1>4, <1>5

(* A payment out of a sufficient balance.                                  *)
LEMMA PayStep ==
  ASSUME NEW b \in [Holders -> Nat], NEW from \in Holders, NEW to \in Holders \ {from},
         NEW amount \in Nat, amount <= b[from]
  PROVE  /\ Pay(b, from, to, amount) \in [Holders -> Nat]
         /\ Pay(b, from, to, amount)[from] = b[from] - amount
         /\ Pay(b, from, to, amount)[to] = b[to] + amount
         /\ \A h \in Holders \ {from, to} : Pay(b, from, to, amount)[h] = b[h]
BY DEF Pay

LEMMA HoldersDistinct ==
  /\ {Manager, Collector, Bridge, Wallet} \subseteq Holders
  /\ StrategyManagers \subseteq Holders
  /\ Manager # Wallet /\ Manager # Bridge /\ Manager # Collector
  /\ Wallet # Bridge /\ Wallet # Collector /\ Bridge # Collector
  /\ Manager \notin StrategyManagers /\ Wallet \notin StrategyManagers
BY HoldersAssumption DEF Holders, Manager, Wallet, Bridge, Collector

(* A disbursement takes nothing of what the manager held before.           *)
LEMMA DisbursedStep ==
  ASSUME NEW b \in [Holders -> Nat], NEW from \in Holders \ {Manager},
         NEW amount \in Nat, amount <= b[from], NEW chain
  PROVE  /\ Disbursed(b, from, amount, chain) \in [Holders -> Nat]
         /\ Disbursed(b, from, amount, chain)[Manager] = b[Manager]
<1> DEFINE r == Pay(b, from, Manager, amount)
           fee == Fee(amount)
           c == Pay(r, Manager, Collector, fee)
<1>1. /\ r \in [Holders -> Nat] /\ r[Manager] = b[Manager] + amount
      /\ b[Manager] \in Nat
  BY PayStep, HoldersDistinct
<1>2. fee \in 0 .. amount
  <2>1. FeeNum \in Nat /\ FeeDen \in Nat /\ FeeDen > 0 /\ FeeNum <= FeeDen
    BY NumbersAssumption
  <2> QED BY <2>1 DEF Fee
<1> HIDE DEF r, fee
<1>3. CASE chain = TERRA_CHAIN_ID
  <2>1. Disbursed(b, from, amount, chain) = Pay(r, Manager, Wallet, amount)
    BY <1>3 DEF Disbursed, r
  <2> QED BY <2>1, <1>1, PayStep, HoldersDistinct
<1>4. CASE chain # TERRA_CHAIN_ID
  <2>1. c \in [Holders -> Nat] /\ c[Manager] = r[Manager] - fee
    <3>1. fee \in Nat /\ fee <= r[Manager] /\ Collector \in Holders \ {Manager}
      BY <1>1, <1>2, HoldersDistinct
    <3> QED BY <3>1, <1>1, PayStep, HoldersDistinct
  <2> DEFINE cross == amount - fee
  <2>2. Disbursed(b, from, amount, chain) = Pay(c, Manager, Bridge, cross)
    BY <1>4 DEF Disbursed, r, c, fee
  <2> HIDE DEF c
  <2>3. cross \in Nat /\ cross <= c[Manager] /\ c[Manager] - cross = b[Manager]
    BY <2>1, <1>1, <1>2
  <2>4. Bridge \in Holders \ {Manager} /\ Manager \in Holders
    BY HoldersDistinct
  <2> HIDE DEF cross
  <2>5. /\ Pay(c, Manager, Bridge, cross) \in [Holders -> Nat]
        /\ Pay(c, Manager, Bridge, cross)[Manager] = c[Manager] - cross
    BY <2>1, <2>3, <2>4, PayStep
  <2> QED BY <2>2, <2>3, <2>5
<1> QED BY <1>3, <1>4

(* Nor does a strategy's action.                                           *)
LEMMA PerformBank ==
  ASSUME NEW b \in [Holders -> Nat], NEW s \in StrategyManagers, NEW kind,
         NEW n, NEW payout, NEW chain, Perform(kind, n, s, b, payout, chain)
  PROVE  bank' \in [Holders -> Nat] /\ bank'[Manager] = b[Manager]
<1>1. CASE bank' = b
  BY <1>1
<1>2. CASE payout \in 1 .. b[s] /\ bank' = Disbursed(b, s, payout, chain)
  <2>1. s \in Holders \ {Manager} /\ payout \in Nat /\ payout <= b[s]
    BY <1>2, HoldersDistinct
  <2> QED BY <1>2, <2>1, DisbursedStep
<1> QED BY <1>1, <1>2 DEF Perform

(* A user's assets only pass through the manager.                          *)
LEMMA ForwardedBank ==
  ASSUME NEW b \in [Holders -> Nat], NEW s \in StrategyManagers,
         NEW sent \in Nat, NEW listed \in Nat, ValidAssets(sent, listed),
         sent <= b[Wallet]
  PROVE  /\ Forwarded(b, sent, listed, s) \in [Holders -> Nat]
         /\ Forwarded(b, sent, listed, s)[Manager] >= b[Manager]
<1> DEFINE r == Pay(b, Wallet, Manager, sent)
<1>1. /\ r \in [Holders -> Nat] /\ r[Manager] = b[Manager] + sent
      /\ b[Manager] \in Nat
  BY PayStep, HoldersDistinct
<1>2. listed <= sent
  BY DEF ValidAssets
<1>3. Forwarded(b, sent, listed, s) = Pay(r, Manager, s, listed)
  BY DEF Forwarded
<1> HIDE DEF r
<1>4. s \in Holders \ {Manager} /\ Manager \in Holders /\ listed <= r[Manager]
  BY <1>1, <1>2, HoldersDistinct
<1>5. /\ Pay(r, Manager, s, listed) \in [Holders -> Nat]
      /\ Pay(r, Manager, s, listed)[Manager] = r[Manager] - listed
  BY <1>1, <1>4, PayStep
<1>6. r[Manager] - listed >= b[Manager]
  BY <1>1, <1>2
<1> QED BY <1>3, <1>5, <1>6

-----------------------------------------------------------------------------
(* The invariant behind it.                                                *)

(* A transfer's fee is a part of it; finitely many have arrived.           *)
TransfersPayable ==
  /\ \A t \in transfers : t.amount \in Nat /\ t.fee \in 0 .. t.amount
  /\ IsFiniteSet(completedTransfers)

SolvencyInv == TransfersPayable /\ Solvent

(* What has arrived for instructions still to come.                        *)
Unpaid ==
  completedTransfers \ UNION {TransfersOf(v) : v \in completedInstructions}

LEMMA UnpaidPayable ==
  ASSUME IInv, SolvencyInv
  PROVE  Payable(Unpaid) /\ Owed = Kept(Unpaid) /\ Owed \in Nat
<1>1. Unpaid \subseteq completedTransfers /\ completedTransfers \subseteq transfers
  BY DEF Unpaid, IInv, TypeOK
<1>2. IsFiniteSet(Unpaid)
  BY <1>1, FS_Subset DEF SolvencyInv, TransfersPayable
<1>3. Payable(Unpaid)
  BY <1>1, <1>2 DEF SolvencyInv, TransfersPayable, Payable
<1>4. Owed = Kept(Unpaid)
  BY DEF Owed, Unpaid
<1> QED BY <1>3, <1>4, KeptNat

(* Nothing is owed at the start.                                           *)
LEMMA SolvencyInit == Init => SolvencyInv
<1> SUFFICES ASSUME Init PROVE SolvencyInv
  OBVIOUS
<1>1. transfers = {} /\ completedTransfers = {} /\ completedInstructions = {}
  BY DEF Init
<1>2. TransfersPayable
  BY <1>1, FS_EmptySet DEF TransfersPayable
<1>3. bank \in [Holders -> Nat] /\ bank[Manager] = 0
  <2>1. Cardinality(ExternalChains) \in Nat
    BY ChainsAssumption, FS_CardinalityType
  <2>2. InitialWallet \in Nat /\ InitialWrapped \in Nat
    BY NumbersAssumption
  <2>3. InitialWrapped * Cardinality(ExternalChains) \in Nat
    BY <2>1, <2>2
  <2> QED BY <2>2, <2>3, HoldersDistinct DEF Init
<1>4. Owed = 0
  <2> DEFINE k == [t \in {} |-> t.amount - t.fee]
  <2>1. Owed = Kept({})
    BY <1>1 DEF Owed
  <2>2. Kept({}) = SumFunctionOnSet(k, {})
    <3>1. DOMAIN k = {}
      OBVIOUS
    <3> QED BY <3>1 DEF Kept, SumFunction
  <2> HIDE DEF k
  <2> QED BY <2>1, <2>2, SumEmpty
<1> QED BY <1>2, <1>3, <1>4 DEF SolvencyInv, Solvent

(* While nothing arrives and nothing is performed, nothing more is owed.   *)
LEMMA OwedSettled ==
  ASSUME IInv, [Next]_vars, UNCHANGED <<completedInstructions, completedTransfers>>
  PROVE  Owed' = Owed
<1>1. \A v \in completedInstructions : TransfersOf(v)' = TransfersOf(v)
  BY TransfersSettled DEF IInv, TypeOK
<1>2. {TransfersOf(v) : v \in completedInstructions}'
        = {TransfersOf(v) : v \in completedInstructions}
  BY <1>1
<1> QED BY <1>2 DEF Owed

(* Steps by which the manager keeps what it had.                           *)
LEMMA SolvencyKept ==
  ASSUME IInv, [Next]_vars, SolvencyInv,
         UNCHANGED <<completedInstructions, completedTransfers, transfers>>,
         bank' \in [Holders -> Nat], bank'[Manager] >= bank[Manager]
  PROVE  SolvencyInv'
<1>1. Owed' = Owed
  BY OwedSettled
<1>2. Owed \in Nat /\ bank[Manager] \in Nat /\ bank'[Manager] \in Nat
      /\ bank[Manager] >= Owed
  BY UnpaidPayable, HoldersDistinct DEF SolvencyInv, Solvent
<1>3. bank'[Manager] >= Owed'
  BY <1>1, <1>2
<1>4. TransfersPayable'
  BY DEF SolvencyInv, TransfersPayable
<1> QED BY <1>3, <1>4 DEF SolvencyInv, Solvent

LEMMA UserSolvency ==
  ASSUME IInv, SolvencyInv, [Next]_vars, UserStep
  PROVE  SolvencyInv'
<1>1. bank \in [Holders -> Nat]
  BY DEF SolvencyInv, Solvent
<1>2. UNCHANGED <<completedInstructions, completedTransfers, transfers>>
  <2>1. ASSUME NEW sender, NEW c, NEW id, NEW sent, NEW listed,
               CreatePosition(sender, c, id, sent, listed)
        PROVE  UNCHANGED <<inVars, extVars>>
    BY <2>1 DEF CreatePosition
  <2>2. ASSUME NEW sender, NEW id, NEW kind, NEW sent, NEW listed, NEW payout,
               NEW c, ExecuteStrategy(sender, id, kind, sent, listed, payout, c)
        PROVE  UNCHANGED <<inVars, extVars>>
    BY <2>2 DEF ExecuteStrategy
  <2> QED BY <2>1, <2>2 DEF UserStep, inVars, extVars
<1>3. ASSUME NEW sent \in Amounts \cup {0}, NEW listed \in Amounts \cup {0},
             NEW sender, NEW c, NEW id, CreatePosition(sender, c, id, sent, listed)
      PROVE  bank' \in [Holders -> Nat] /\ bank'[Manager] >= bank[Manager]
  <2>1. sent \in Nat /\ listed \in Nat
    BY NumbersAssumption
  <2>2. strategyMetadata[id] \in StrategyManagers
    BY <1>3 DEF CreatePosition, IInv, TypeOK
  <2>3. /\ ValidAssets(sent, listed) /\ sent <= bank[Wallet]
        /\ bank' = Forwarded(bank, sent, listed, strategyMetadata[id])
    BY <1>1, <1>3, HoldersDistinct DEF CreatePosition, Perform
  <2> QED BY <1>1, <2>1, <2>2, <2>3, ForwardedBank
<1>4. ASSUME NEW sent \in Amounts \cup {0}, NEW listed \in Amounts \cup {0},
             NEW sender, NEW id, NEW kind, NEW payout, NEW c,
             ExecuteStrategy(sender, id, kind, sent, listed, payout, c)
      PROVE  bank' \in [Holders -> Nat] /\ bank'[Manager] >= bank[Manager]
  <2> DEFINE s == strategyMetadata[strategyLocation[<<TERRA_CHAIN_ID, id>>]]
             f == Forwarded(bank, sent, listed, s)
  <2>1. sent \in Nat /\ listed \in Nat
    BY NumbersAssumption
  <2>2. s \in StrategyManagers
    BY <1>4 DEF ExecuteStrategy, IInv, TypeOK
  <2>3. /\ ValidAssets(sent, listed) /\ sent <= bank[Wallet]
        /\ Perform(kind, Assets(listed), s, f, payout, c)
    BY <1>1, <1>4, HoldersDistinct DEF ExecuteStrategy
  <2> HIDE DEF s
  <2>4. f \in [Holders -> Nat] /\ f[Manager] >= bank[Manager]
    BY <1>1, <2>1, <2>2, <2>3, ForwardedBank
  <2> HIDE DEF f
  <2> QED BY <2>2, <2>3, <2>4, PerformBank
<1> QED BY <1>2, <1>3, <1>4, SolvencyKept DEF UserStep

LEMMA TransferSolvency ==
  ASSUME IInv, SolvencyInv, [Next]_vars, TransferStep
  PROVE  SolvencyInv'
<1>1. bank \in [Holders -> Nat]
  BY DEF SolvencyInv, Solvent
<1>2. UNCHANGED <<completedInstructions, completedTransfers, transfers>>
  BY DEF TransferStep, InitiateOutgoingTokenTransfer, OtherOutgoingTransfer,
         inVars, extVars
<1>3. ASSUME NEW sent \in Amounts \cup {0}, NEW listed \in Amounts \cup {0}, NEW c,
             InitiateOutgoingTokenTransfer(sent, listed, c)
      PROVE  bank' \in [Holders -> Nat] /\ bank'[Manager] >= bank[Manager]
  <2> DEFINE kept == sent - listed
             b == Pay(bank, Wallet, Manager, kept)
  <2>1. sent \in Nat /\ listed \in Nat
    BY NumbersAssumption
  <2>2. kept \in Nat /\ kept <= bank[Wallet] /\ listed <= bank[Wallet] - kept
        /\ bank[Wallet] \in Nat /\ bank[Manager] \in Nat
    BY <1>1, <1>3, <2>1, HoldersDistinct DEF InitiateOutgoingTokenTransfer, ValidAssets
  <2>3. bank' = Disbursed(b, Wallet, listed, c)
    BY <1>3 DEF InitiateOutgoingTokenTransfer
  <2> HIDE DEF kept
  <2>4. Wallet \in Holders /\ Manager \in Holders \ {Wallet}
    BY HoldersDistinct
  <2>5. /\ b \in [Holders -> Nat] /\ b[Manager] = bank[Manager] + kept
        /\ b[Wallet] = bank[Wallet] - kept
    BY <1>1, <2>2, <2>4, PayStep
  <2> HIDE DEF b
  <2>6. bank' \in [Holders -> Nat] /\ bank'[Manager] = b[Manager]
    BY <2>1, <2>2, <2>3, <2>4, <2>5, DisbursedStep
  <2> QED BY <2>2, <2>5, <2>6
<1>4. ASSUME NEW amount \in Amounts, NEW c, OtherOutgoingTransfer(amount, c)
      PROVE  bank' \in [Holders -> Nat] /\ bank'[Manager] >= bank[Manager]
  <2>1. amount \in Nat /\ amount <= bank[Wallet] /\ bank[Manager] \in Nat
    BY <1>1, <1>4, NumbersAssumption, HoldersDistinct DEF OtherOutgoingTransfer
  <2>2. bank' = Pay(bank, Wallet, Bridge, amount)
    BY <1>4 DEF OtherOutgoingTransfer
  <2>3. Wallet \in Holders /\ Bridge \in Holders \ {Wallet}
        /\ Manager \in Holders \ {Wallet, Bridge}
    BY HoldersDistinct
  <2>4. bank' \in [Holders -> Nat] /\ bank'[Manager] = bank[Manager]
    BY <1>1, <2>1, <2>2, <2>3, PayStep
  <2> QED BY <2>1, <2>4
<1> QED BY <1>2, <1>3, <1>4, SolvencyKept DEF TransferStep

(* A publication announces transfers whose fee is a part of them.          *)
LEMMA PublishSolvency ==
  ASSUME IInv, SolvencyInv, [Next]_vars, PublishStep
  PROVE  SolvencyInv'
<1>1. UNCHANGED <<completedInstructions, completedTransfers, bank>>
  <2>1. ASSUME NEW c, NEW e, NEW sc, NEW id, NEW amounts, NEW fee,
               PublishOpen(c, e, sc, id, amounts, fee)
        PROVE  UNCHANGED <<inVars, bank>>
    BY <2>1 DEF PublishOpen, Publish
  <2>2. ASSUME NEW c, NEW e, NEW kind, NEW id, NEW amounts, NEW fee, NEW to,
               PublishExecute(c, e, kind, id, amounts, fee, to)
        PROVE  UNCHANGED <<inVars, bank>>
    BY <2>2 DEF PublishExecute, Publish
  <2> QED BY <2>1, <2>2 DEF PublishStep, inVars
<1>2. ASSUME NEW c, NEW sc, NEW amounts \in Lists(Amounts), NEW fee \in RelayerFees,
             transfers' = transfers \cup PublishedTransfers(c, sc, amounts, fee)
      PROVE  TransfersPayable'
  <2>1. \A t \in PublishedTransfers(c, sc, amounts, fee) :
          t.amount \in Nat /\ t.fee \in 0 .. t.amount
    <3> SUFFICES ASSUME NEW i \in DOMAIN amounts
                 PROVE  amounts[i] \in Nat /\ fee \in 0 .. amounts[i]
      BY DEF PublishedTransfers
    <3>1. amounts[i] \in Amounts
      BY ListSeq
    <3>2. /\ Amounts \subseteq Nat \ {0} /\ RelayerFees \subseteq Nat
          /\ \A a \in Amounts, f \in RelayerFees : f <= a
      BY NumbersAssumption
    <3>3. /\ amounts[i] \in Nat /\ fee \in Nat /\ fee <= amounts[i]
      BY <3>1, <3>2
    <3> QED BY <3>3
  <2>2. IsFiniteSet(completedTransfers')
    BY <1>1 DEF SolvencyInv, TransfersPayable
  <2>3. \A t \in transfers' : t.amount \in Nat /\ t.fee \in 0 .. t.amount
    BY <1>2, <2>1 DEF SolvencyInv, TransfersPayable
  <2> QED BY <2>2, <2>3 DEF TransfersPayable
<1>3. TransfersPayable'
  <2>1. ASSUME NEW c, NEW e, NEW fee \in RelayerFees, NEW amounts \in Lists(Amounts),
               NEW sc, NEW id, PublishOpen(c, e, sc, id, amounts, fee)
        PROVE  TransfersPayable'
    BY <1>2, <2>1 DEF PublishOpen, Publish
  <2>2. ASSUME NEW c, NEW e, NEW fee \in RelayerFees, NEW amounts \in Lists(Amounts),
               NEW kind, NEW id, NEW to, PublishExecute(c, e, kind, id, amounts, fee, to)
        PROVE  TransfersPayable'
    BY <1>2, <2>2 DEF PublishExecute, Publish
  <2> QED BY <2>1, <2>2 DEF PublishStep
<1>4. Owed' = Owed
  BY <1>1, OwedSettled
<1> QED BY <1>1, <1>3, <1>4 DEF SolvencyInv, Solvent

(* A completed transfer brings what it adds to the debt.                   *)
LEMMA SubmitSolvency ==
  ASSUME IInv, SolvencyInv, [Next]_vars, NEW t \in transfers, SubmitVaa(t)
  PROVE  SolvencyInv'
<1> DEFINE kept == t.amount - t.fee
           b == Pay(bank, Bridge, Manager, kept)
           Paid0 == UNION {TransfersOf(v) : v \in completedInstructions}
<1>1. /\ bank \in [Holders -> Nat] /\ bank[Manager] >= Owed
      /\ t.amount \in Nat /\ t.fee \in 0 .. t.amount
  BY DEF SolvencyInv, Solvent, TransfersPayable
<1>2. /\ t \notin completedTransfers /\ bank[Bridge] >= t.amount
      /\ completedTransfers' = completedTransfers \cup {t}
      /\ bank' = Completed({t}, Wallet)
      /\ UNCHANGED <<completedInstructions, transfers>>
  BY DEF SubmitVaa, extVars
<1>3. Kept({t}) = kept /\ Fees({t}) = t.fee
  BY <1>1, KeptOne
<1>4. bank' = Pay(b, Bridge, Wallet, t.fee)
  BY <1>2, <1>3 DEF Completed
<1>5. /\ kept \in Nat /\ kept <= bank[Bridge] /\ t.fee \in Nat
      /\ t.fee <= bank[Bridge] - kept
      /\ bank[Bridge] \in Nat /\ bank[Manager] \in Nat
  BY <1>1, <1>2, HoldersDistinct
<1> HIDE DEF kept
<1>6. Bridge \in Holders /\ Manager \in Holders \ {Bridge}
      /\ Wallet \in Holders \ {Bridge} /\ Manager \in Holders \ {Bridge, Wallet}
  BY HoldersDistinct
<1>7. /\ b \in [Holders -> Nat] /\ b[Manager] = bank[Manager] + kept
      /\ b[Bridge] = bank[Bridge] - kept
  BY <1>1, <1>5, <1>6, PayStep
<1> HIDE DEF b
<1>8. bank' \in [Holders -> Nat] /\ bank'[Manager] = bank[Manager] + kept
  BY <1>4, <1>5, <1>6, <1>7, PayStep
<1>9. \A v \in completedInstructions : TransfersOf(v)' = TransfersOf(v)
  BY TransfersSettled DEF IInv, TypeOK
<1>10. Owed' = Kept((completedTransfers \cup {t}) \ Paid0)
  <2>1. {TransfersOf(v) : v \in completedInstructions}'
          = {TransfersOf(v) : v \in completedInstructions}
    BY <1>2, <1>9
  <2> QED BY <2>1, <1>2 DEF Owed
<1>11. Payable(Unpaid) /\ Owed = Kept(Unpaid) /\ Owed \in Nat
  BY UnpaidPayable
<1>12. Unpaid = completedTransfers \ Paid0
  BY DEF Unpaid
<1> HIDE DEF Paid0
<1>13. Owed' = Owed \/ Owed' = Owed + kept
  <2>1. CASE t \in Paid0
    <3>1. (completedTransfers \cup {t}) \ Paid0 = Unpaid
      BY <2>1, <1>12
    <3> QED BY <3>1, <1>10, <1>11
  <2>2. CASE t \notin Paid0
    <3>1. (completedTransfers \cup {t}) \ Paid0 = Unpaid \cup {t} /\ t \notin Unpaid
      BY <2>2, <1>2, <1>12
    <3>2. Kept(Unpaid \cup {t}) = Kept(Unpaid) + kept
      BY <3>1, <1>1, <1>11, KeptAdd DEF kept
    <3> QED BY <3>1, <3>2, <1>10, <1>11
  <2> QED BY <2>1, <2>2
<1>14. bank'[Manager] >= Owed'
  BY <1>1, <1>5, <1>8, <1>11, <1>13
<1>15. TransfersPayable'
  <2>1. IsFiniteSet(completedTransfers')
    BY <1>2, FS_AddElement DEF SolvencyInv, TransfersPayable
  <2> QED BY <2>1, <1>2 DEF SolvencyInv, TransfersPayable
<1> QED BY <1>8, <1>14, <1>15 DEF SolvencyInv, Solvent

(* The transfers that come with an instruction are the ones it announced.  *)
LEMMA VaasOwn ==
  ASSUME IInv, NEW v \in instructions, NEW vaas \in Lists(transfers), Acceptable(v, vaas)
  PROVE  /\ Range(vaas) = TransfersOf(v) /\ IsFiniteSet(Range(vaas))
         /\ Range(vaas) \subseteq transfers
<1>1. TransfersOf(v) \subseteq Range(vaas)
  BY TransfersOwn
<1>2. Range(vaas) \subseteq transfers
  BY ListSeq DEF Range
<1>3. Range(vaas) \subseteq TransfersOf(v)
  <2> SUFFICES ASSUME NEW i \in DOMAIN vaas PROVE vaas[i] \in TransfersOf(v)
    BY DEF Range
  <2>1. vaas[i] \in transfers
    BY ListSeq
  <2>2. vaas[i].chain = v.emitterChain /\ vaas[i].sequence = v.sequences[i]
    BY DEF Acceptable, MatchesSequence
  <2>3. i \in DOMAIN v.sequences
    <3>1. v.sequences \in Seq(Nat)
      BY DEF IInv, TypeOK, InstructionType
    <3>2. DOMAIN v.sequences = 1 .. Len(v.sequences) /\ Len(v.sequences) = Len(vaas)
      BY <3>1 DEF Acceptable
    <3> QED BY <3>2, ListSeq
  <2> QED BY <2>1, <2>2, <2>3 DEF TransfersOf, Range
<1>4. IsFiniteSet(Range(vaas))
  <2>1. DOMAIN vaas = 1 .. Len(vaas) /\ Len(vaas) \in Nat
    BY ListSeq
  <2>2. IsFiniteSet(DOMAIN vaas)
    BY <2>1, FS_Interval
  <2>3. vaas \in Surjection(DOMAIN vaas, Range(vaas))
    BY ListSeq DEF Surjection, Range
  <2> QED BY <2>2, <2>3, FS_Surjection
<1> QED BY <1>1, <1>2, <1>3, <1>4

(* Processing an instruction pays what had arrived for it, and what its    *)
(* own submissions bring.                                                  *)
LEMMA ProcessSolvency ==
  ASSUME IInv, SolvencyInv, [Next]_vars, NEW v \in instructions,
         NEW vaas \in Lists(transfers), NEW payout,
         ProcessCrossChainInstruction(v, vaas, payout)
  PROVE  SolvencyInv'
<1> DEFINE T == Range(vaas)
           N == T \ completedTransfers
           A == T \cap completedTransfers
           position == <<v.emitterChain, v.positionId>>
           located == IF v.kind = "open"
                      THEN Save(strategyLocation, position, v.strategyId)
                      ELSE strategyLocation
           s == strategyMetadata[located[position]]
           kept == Kept(N)
           fees == Fees(N)
           b == Pay(bank, Bridge, Manager, kept)
           received == Pay(b, Bridge, Manager, fees)
           forwarded == Pay(received, Manager, s, Kept(T))
           Paid0 == UNION {TransfersOf(w) : w \in completedInstructions}
<1>1. bank \in [Holders -> Nat] /\ bank[Manager] >= Owed
  BY DEF SolvencyInv, Solvent
<1>2. /\ Acceptable(v, vaas) /\ SubmitOrAlreadyExecuted(T)
      /\ located[position] \in DOMAIN strategyMetadata
      /\ Perform(v.kind, Len(vaas), s, forwarded, payout, v.recipientChain)
      /\ completedInstructions' = completedInstructions \cup {v}
      /\ completedTransfers' = completedTransfers \cup T
      /\ UNCHANGED transfers
  BY DEF ProcessCrossChainInstruction, Completed, extVars
<1>3. T = TransfersOf(v) /\ IsFiniteSet(T) /\ T \subseteq transfers
  BY <1>2, VaasOwn
<1>4. \A w \in completedInstructions : T \cap TransfersOf(w) = {}
  BY <1>2, <1>3, TransfersOwn
<1>5. s \in StrategyManagers
  BY <1>2 DEF IInv, TypeOK
<1>6. /\ IsFiniteSet(completedTransfers) /\ completedTransfers \subseteq transfers
      /\ \A t \in transfers : t.amount \in Nat /\ t.fee \in 0 .. t.amount
  BY DEF SolvencyInv, TransfersPayable, IInv, TypeOK
<1>7. bank[Bridge] >= kept + fees
  BY <1>2 DEF SubmitOrAlreadyExecuted
<1>8. Owed' = Kept((completedTransfers \cup T) \ (Paid0 \cup T))
  <2>1. \A w \in completedInstructions \cup {v} : TransfersOf(w)' = TransfersOf(w)
    BY TransfersSettled DEF IInv, TypeOK
  <2>2. {TransfersOf(w) : w \in completedInstructions}'
          = {TransfersOf(w) : w \in completedInstructions \cup {v}}
    BY <1>2, <2>1
  <2>3. UNION {TransfersOf(w) : w \in completedInstructions \cup {v}}
          = Paid0 \cup TransfersOf(v)
    OBVIOUS
  <2> QED BY <1>2, <1>3, <2>2, <2>3 DEF Owed
<1>9. T \cap Paid0 = {}
  BY <1>4
<1>10. Unpaid = completedTransfers \ Paid0
  BY DEF Unpaid
<1>11. Payable(Unpaid) /\ Owed = Kept(Unpaid) /\ Owed \in Nat
  BY UnpaidPayable
<1> HIDE DEF Paid0, located, s
<1>12. A \in SUBSET T /\ T \ A = N /\ A \in SUBSET Unpaid
       /\ (completedTransfers \cup T) \ (Paid0 \cup T) = Unpaid \ A
  BY <1>9, <1>10
<1>13. Payable(T)
  BY <1>3, <1>6 DEF Payable
<1> HIDE DEF T, N, A
<1>14. /\ Payable(A) /\ Payable(N) /\ Kept(T) = Kept(A) + Kept(N)
       /\ Payable(Unpaid \ A) /\ Kept(Unpaid) = Kept(A) + Kept(Unpaid \ A)
  BY <1>11, <1>12, <1>13, KeptSplit
<1>15. /\ kept \in Nat /\ fees \in Nat /\ Kept(A) \in Nat /\ Kept(T) \in Nat
       /\ Kept(Unpaid \ A) \in Nat
  BY <1>13, <1>14, KeptNat
<1>16. Kept(T) = Kept(A) + kept
  BY <1>14
<1> HIDE DEF kept, fees
<1>17. /\ Bridge \in Holders /\ Manager \in Holders \ {Bridge} /\ Manager \in Holders
       /\ s \in Holders \ {Manager} /\ bank[Bridge] \in Nat /\ bank[Manager] \in Nat
  BY <1>1, <1>5, HoldersDistinct
<1>18. /\ b \in [Holders -> Nat] /\ b[Bridge] = bank[Bridge] - kept
       /\ b[Manager] = bank[Manager] + kept
  <2>1. kept <= bank[Bridge]
    BY <1>7, <1>15, <1>17
  <2> QED BY <2>1, <1>1, <1>15, <1>17, PayStep
<1> HIDE DEF b
<1>19. /\ received \in [Holders -> Nat]
       /\ received[Manager] = bank[Manager] + kept + fees
  <2>1. fees <= b[Bridge]
    BY <1>7, <1>15, <1>17, <1>18
  <2>2. /\ received \in [Holders -> Nat]
        /\ received[Manager] = b[Manager] + fees
    BY <2>1, <1>15, <1>17, <1>18, PayStep
  <2> QED BY <2>2, <1>18
<1> HIDE DEF received
<1>20. /\ forwarded \in [Holders -> Nat]
       /\ forwarded[Manager] = received[Manager] - Kept(T)
  <2>1. Kept(T) <= received[Manager]
    BY <1>1, <1>11, <1>14, <1>15, <1>16, <1>17, <1>19
  <2> QED BY <2>1, <1>15, <1>17, <1>19, PayStep
<1> HIDE DEF forwarded
<1>21. bank' \in [Holders -> Nat] /\ bank'[Manager] = forwarded[Manager]
  BY <1>2, <1>5, <1>20, PerformBank
<1>22. Owed' = Kept(Unpaid \ A)
  BY <1>8, <1>12
<1>23. bank'[Manager] >= Owed'
  BY <1>1, <1>11, <1>14, <1>15, <1>16, <1>17, <1>19, <1>20, <1>21, <1>22
<1>24. TransfersPayable'
  <2>1. IsFiniteSet(completedTransfers')
    BY <1>2, <1>3, <1>6, FS_Union
  <2> QED BY <2>1, <1>2, <1>6 DEF TransfersPayable
<1> QED BY <1>21, <1>23, <1>24 DEF SolvencyInv, Solvent

LEMMA SolvencyStep ==
  ASSUME IInv, SolvencyInv, [Next]_vars
  PROVE  SolvencyInv'
<1>1. bank \in [Holders -> Nat] /\ bank[Manager] \in Nat
  BY HoldersDistinct DEF SolvencyInv, Solvent
<1>2. CASE AdminStep
  <2>1. UNCHANGED <<inVars, extVars, bank>>
    BY <1>2 DEF AdminStep, UpdateAdmin, AddStrategy, RemoveStrategy,
                RegisterExternalChainManager, UpdateStrategy
  <2> QED BY <1>1, <2>1, SolvencyKept DEF inVars, extVars
<1>3. CASE UNCHANGED vars
  BY <1>1, <1>3, SolvencyKept DEF vars, inVars, extVars
<1>4. CASE ProcessStep
  BY <1>4, ProcessSolvency DEF ProcessStep
<1> QED BY <1>2, <1>3, <1>4, UserSolvency, TransferSolvency, PublishSolvency,
           SubmitSolvency DEF Next

(* The manager always holds what has arrived for the instructions it has   *)
(* not performed: no strategy is paid from another instruction's tokens.   *)
THEOREM ManagerSolvent == Spec => []Solvent
<1>1. Init => SolvencyInv
  BY SolvencyInit
<1>2. IInv /\ SolvencyInv /\ [Next]_vars => SolvencyInv'
  BY SolvencyStep
<1>3. SolvencyInv => Solvent
  BY DEF SolvencyInv
<1> QED BY <1>1, <1>2, <1>3, Invariance, PTL DEF Spec

=============================================================================
