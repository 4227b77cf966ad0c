---------------------------- MODULE TerraManager ----------------------------
(***************************************************************************)
(* The Aperture manager contract on Terra (terra_manager): the registry of *)
(* strategies, the positions of Terra users and of users of other chains,  *)
(* the processing of instructions that arrive as Wormhole messages, and    *)
(* outgoing token transfers.                                               *)
(*                                                                         *)
(* A Terra transaction is atomic: the handler and every message it sends   *)
(* run depth first, and an error in any of them reverts all of them, so a  *)
(* transaction is one action here and a failing one is no step.  Between   *)
(* transactions anything may happen: other users' transactions, admin      *)
(* changes, publications on other chains, and VAAs (Wormhole's signed      *)
(* messages) submitted in any order, by anyone, any number of times.       *)
(***************************************************************************)
EXTENDS Integers, Sequences, FiniteSets, Functions

CONSTANTS
  TERRA_CHAIN_ID,    \* Wormhole id of Terra
  ExternalChains,    \* Wormhole ids of the other chains
  Accounts,          \* Terra accounts: users and admins
  StrategyManagers,  \* contracts that manage a strategy's positions
  Publishers,        \* contracts of an external chain that publish messages in
                     \* Aperture's format: its manager, earlier deployments
  Deployed,          \* the one the admin registers for that chain
  Amounts,           \* token amounts of a request
  RelayerFees,       \* fees a token transfer may promise its relayer
  Refusals,          \* requests <<strategy manager, action, number of assets>>
                     \* that a strategy may come to refuse
  FeeNum, FeeDen,    \* cross-chain outgoing fee rate: FeeNum / FeeDen
  InitialWallet,     \* tokens of the Terra users at the start
  InitialWrapped     \* wrapped tokens on each external chain at the start

(* Bounds that make the state space finite.                                *)
CONSTANTS MaxStrategies, MaxTerraPositions, MaxInstructions, MaxOutgoing,
          MaxAssets          \* transfers per instruction

(* Holders of the token besides the strategies.                            *)
Manager   == "manager"
Collector == "fee_collector"
Bridge    == "token_bridge"
Wallet    == "wallet"
Holders   == {Manager, Collector, Bridge, Wallet} \cup StrategyManagers

Chains == ExternalChains \cup {TERRA_CHAIN_ID}

(* A chain id is a 16-bit number.                                          *)
ASSUME ChainsAssumption ==
  TERRA_CHAIN_ID \notin ExternalChains /\ IsFiniteSet(ExternalChains)
ASSUME DeployedAssumption == Deployed \in Publishers
ASSUME HoldersAssumption ==
  {Manager, Collector, Bridge, Wallet} \cap StrategyManagers = {}
ASSUME NumbersAssumption ==
  /\ Amounts \subseteq Nat \ {0}
  /\ RelayerFees \subseteq Nat
  /\ \A a \in Amounts, f \in RelayerFees : f <= a
  /\ FeeNum \in Nat /\ FeeDen \in Nat \ {0} /\ FeeNum <= FeeDen
  /\ InitialWallet \in Nat /\ InitialWrapped \in Nat
ASSUME RefusalsAssumption ==
  Refusals \subseteq
    StrategyManagers \X {"open", "increase", "decrease", "close"} \X Nat
ASSUME BoundsAssumption ==
  {MaxStrategies, MaxTerraPositions, MaxInstructions, MaxOutgoing, MaxAssets}
    \subseteq Nat

VARIABLES
  admin,                   \* ADMIN
  nextStrategyId,          \* NEXT_STRATEGY_ID
  strategyMetadata,        \* STRATEGY_ID_TO_METADATA_MAP: id -> manager_addr
  nextPositionId,          \* NEXT_POSITION_ID
  positionHolder,          \* POSITION_ID_TO_HOLDER
  holderPairs,             \* HOLDER_POSITION_ID_PAIR_SET
  strategyLocation,        \* POSITION_TO_STRATEGY_LOCATION_MAP
  externalManager,         \* CHAIN_ID_TO_APERTURE_MANAGER_ADDRESS_MAP
  refusing,                \* what the strategies' own contracts now refuse
  completedInstructions    \* COMPLETED_INSTRUCTIONS

VARIABLES
  bank,                    \* token balances on Terra
  completedTransfers,      \* transfers the Terra token bridge has completed
  performed,               \* instruction -> times its action reached a strategy
  nextTransferSequence,    \* the Terra token bridge's next sequence
  outTransfers,            \* transfers initiated on Terra
  outInstructions          \* SingleTokenDisbursement messages posted on Terra

VARIABLES
  wrapped,                 \* the token's wrapped supply, per external chain
  extSequence,             \* next sequence of each chain's token bridge
  nextMessage,             \* number of instructions published so far
  extPositions,            \* positions recorded by each publisher, in order
  transfers,               \* transfers towards other chains, published
  instructions             \* instructions published on external chains

registryVars == <<nextStrategyId, strategyMetadata, externalManager, admin,
                  refusing>>
positionVars == <<nextPositionId, positionHolder, holderPairs>>
outVars      == <<nextTransferSequence, outTransfers, outInstructions>>
inVars       == <<completedInstructions, completedTransfers, performed>>
extVars      == <<wrapped, extSequence, nextMessage, extPositions, transfers,
                  instructions>>
vars == <<registryVars, positionVars, strategyLocation, inVars, bank, outVars,
          extVars>>

-----------------------------------------------------------------------------
(* Storage and balances.                                                   *)

(* A storage map (cw_storage_plus) after save: overwrites or inserts.      *)
Save(map, key, value) ==
  [k \in DOMAIN map \cup {key} |-> IF k = key THEN value ELSE map[k]]

Remove(map, key) == [k \in DOMAIN map \ {key} |-> map[k]]

Pay(b, from, to, amount) ==
  [b EXCEPT ![from] = @ - amount, ![to] = @ + amount]

Empty == [x \in {} |-> x]

-----------------------------------------------------------------------------
Init ==
  /\ admin \in Accounts
  /\ nextStrategyId = 0 /\ strategyMetadata = Empty
  /\ nextPositionId = 0 /\ positionHolder = Empty /\ holderPairs = {}
  /\ strategyLocation = Empty
  /\ externalManager = Empty
  /\ refusing \in SUBSET Refusals
  /\ completedInstructions = {} /\ completedTransfers = {}
  /\ performed = Empty
  /\ bank = [h \in Holders |->
               IF h = Wallet THEN InitialWallet
               ELSE IF h = Bridge
                    THEN InitialWrapped * Cardinality(ExternalChains) ELSE 0]
  /\ nextTransferSequence = 0 /\ outTransfers = {} /\ outInstructions = <<>>
  /\ wrapped = [c \in ExternalChains |-> InitialWrapped]
  /\ extSequence = [c \in ExternalChains |-> 0]
  /\ extPositions = [c \in ExternalChains |-> [e \in Publishers |-> <<>>]]
  /\ transfers = {} /\ instructions = {} /\ nextMessage = 0

-----------------------------------------------------------------------------
(* Administration.                                                         *)

UpdateAdmin(sender, newAdmin) ==
  /\ sender = admin
  /\ admin' = newAdmin
  /\ UNCHANGED <<nextStrategyId, strategyMetadata, externalManager, refusing,
                 positionVars, strategyLocation, inVars, bank, outVars, extVars>>

AddStrategy(sender, managerAddr) ==
  /\ sender = admin
  /\ nextStrategyId < MaxStrategies
  /\ nextStrategyId' = nextStrategyId + 1
  /\ strategyMetadata' = Save(strategyMetadata, nextStrategyId, managerAddr)
  /\ UNCHANGED <<externalManager, refusing, admin, positionVars,
                 strategyLocation, inVars, bank, outVars, extVars>>

RemoveStrategy(sender, id) ==
  /\ sender = admin
  /\ strategyMetadata' = Remove(strategyMetadata, id)
  /\ UNCHANGED <<nextStrategyId, externalManager, refusing, admin, positionVars,
                 strategyLocation, inVars, bank, outVars, extVars>>

RegisterExternalChainManager(sender, chain, managerAddr) ==
  /\ sender = admin
  /\ externalManager' = Save(externalManager, chain, managerAddr)
  /\ UNCHANGED <<nextStrategyId, strategyMetadata, refusing, admin, positionVars,
                 strategyLocation, inVars, bank, outVars, extVars>>

(* The strategies' own admins change what their contracts accept: the      *)
(* least amount, the mirror assets and parameters allowed.                 *)
UpdateStrategy ==
  /\ refusing' \in SUBSET Refusals
  /\ UNCHANGED <<nextStrategyId, strategyMetadata, externalManager, admin,
                 positionVars, strategyLocation, inVars, bank, outVars, extVars>>

-----------------------------------------------------------------------------
(* Assets.                                                                 *)

(* A request lists at most one asset (0: none) and attaches coins: a       *)
(* listed amount must be the attached one, unlisted coins are just kept.   *)
ValidAssets(sent, listed) == listed # 0 => sent = listed

(* The number of assets that a request lists.                              *)
Assets(listed) == IF listed = 0 THEN 0 ELSE 1

(* The balances b after the sender's coins and then the listed assets have *)
(* moved: sender, manager, strategy.                                       *)
Forwarded(b, sent, listed, s) ==
  Pay(Pay(b, Wallet, Manager, sent), Manager, s, listed)

Fee(amount) == (amount * FeeNum) \div FeeDen

(* The balances b after the manager has passed `amount`, just received     *)
(* from `from`, on to a recipient on the given chain.                      *)
Disbursed(b, from, amount, chain) ==
  LET received == Pay(b, from, Manager, amount)
      cross    == amount - Fee(amount)
  IN IF chain = TERRA_CHAIN_ID
     THEN Pay(received, Manager, Wallet, amount)
     ELSE Pay(Pay(received, Manager, Collector, Fee(amount)),
              Manager, Bridge, cross)

(* Mutant: the sequence of the transfer after the next one.                *)
get_next_sequence_off_by_one == nextTransferSequence + 1

(* The sequence the instruction announces is the token bridge's next one.  *)
get_next_sequence == nextTransferSequence

(* The messages a disbursement posts: none on Terra; towards another chain *)
(* an instruction that names the sequence of the transfer following it.    *)
DisbursementMessages(amount, chain) ==
  \/ /\ chain = TERRA_CHAIN_ID
     /\ UNCHANGED outVars
  \/ /\ chain \in DOMAIN externalManager
     /\ amount - Fee(amount) > 0
     /\ nextTransferSequence < MaxOutgoing
     /\ outInstructions' = Append(outInstructions,
          [sequence |-> get_next_sequence, recipientChain |-> chain])
     /\ outTransfers' = outTransfers \cup
          {[sequence |-> nextTransferSequence, recipientChain |-> chain,
            recipient |-> externalManager[chain],
            amount |-> amount - Fee(amount)]}
     /\ nextTransferSequence' = nextTransferSequence + 1

(* A call of the manager by a Terra account; a strategy's call is part of  *)
(* the transaction it happens in, see Perform.  Unlisted coins are kept.   *)
InitiateOutgoingTokenTransfer(sent, listed, chain) ==
  /\ ValidAssets(sent, listed)
  /\ bank[Wallet] >= sent
  /\ bank' = Disbursed(Pay(bank, Wallet, Manager, sent - listed),
                       Wallet, listed, chain)
  /\ DisbursementMessages(listed, chain)
  /\ UNCHANGED <<registryVars, positionVars, strategyLocation, inVars, extVars>>

(* Somebody else's transfer through the token bridge.                      *)
OtherOutgoingTransfer(amount, chain) ==
  /\ bank[Wallet] >= amount
  /\ nextTransferSequence < MaxOutgoing
  /\ bank' = Pay(bank, Wallet, Bridge, amount)
  /\ outTransfers' = outTransfers \cup
       {[sequence |-> nextTransferSequence, recipientChain |-> chain,
         recipient |-> Wallet, amount |-> amount]}
  /\ nextTransferSequence' = nextTransferSequence + 1
  /\ UNCHANGED <<registryVars, positionVars, strategyLocation, inVars,
                 outInstructions, extVars>>

-----------------------------------------------------------------------------
(* Positions.                                                              *)

(* Mutants: the position key's parts in the wrong order; the strategy id    *)
(* where the position id belongs.                                          *)
LocateSwapped(position, strategyId) ==
  strategyLocation' = Save(strategyLocation, <<position[2], position[1]>>, strategyId)
LocateByStrategy(position, strategyId) ==
  strategyLocation' = Save(strategyLocation, <<position[1], strategyId>>, strategyId)

(* The position -> strategy mapping of a new position.                     *)
Locate(position, strategyId) ==
  strategyLocation' = Save(strategyLocation, position, strategyId)

(* Strategy manager s performs a request that comes with this many assets; *)
(* an error of it reverts the whole transaction.                           *)
Accepts(s, kind, assets) == <<s, kind, assets>> \notin refusing

(* PerformAction at strategy manager s, which the listed assets have       *)
(* reached in balances b: an opening or an increase keeps them; a decrease *)
(* or a close also pays `payout` out through the manager.                  *)
Perform(kind, assets, s, b, payout, chain) ==
  /\ Accepts(s, kind, assets)
  /\ \/ /\ kind \in {"open", "increase"}
        /\ bank' = b
        /\ UNCHANGED outVars
     \/ /\ kind \in {"decrease", "close"}
        /\ payout \in 1 .. b[s]
        /\ bank' = Disbursed(b, s, payout, chain)
        /\ DisbursementMessages(payout, chain)

CreatePosition(sender, strategyChain, strategyId, sent, listed) ==
  /\ strategyChain = TERRA_CHAIN_ID
  /\ strategyId \in DOMAIN strategyMetadata
  /\ ValidAssets(sent, listed)
  /\ bank[Wallet] >= sent
  /\ nextPositionId < MaxTerraPositions
  /\ nextPositionId' = nextPositionId + 1
  /\ positionHolder' = Save(positionHolder, nextPositionId, sender)
  /\ holderPairs' = holderPairs \cup {<<sender, nextPositionId>>}
  /\ Locate(<<TERRA_CHAIN_ID, nextPositionId>>, strategyId)
  /\ LET s == strategyMetadata[strategyId]
         forwarded == Forwarded(bank, sent, listed, s)
     IN /\ forwarded[Manager] >= 0
        /\ Perform("open", Assets(listed), s, forwarded, 0, TERRA_CHAIN_ID)
  /\ UNCHANGED <<registryVars, inVars, extVars>>

ExecuteStrategy(sender, id, kind, sent, listed, payout, chain) ==
  LET position == <<TERRA_CHAIN_ID, id>>
  IN /\ id \in DOMAIN positionHolder
     /\ positionHolder[id] = sender
     /\ position \in DOMAIN strategyLocation
     /\ strategyLocation[position] \in DOMAIN strategyMetadata
     /\ ValidAssets(sent, listed)
     /\ bank[Wallet] >= sent
     /\ LET s == strategyMetadata[strategyLocation[position]]
            forwarded == Forwarded(bank, sent, listed, s)
        IN /\ forwarded[Manager] >= 0
           /\ Perform(kind, Assets(listed), s, forwarded, payout, chain)
     /\ UNCHANGED <<registryVars, positionVars, strategyLocation, inVars, extVars>>

-----------------------------------------------------------------------------
(* The external chains, as the Ethereum manager publishes to them.         *)

(* The transfers of one publication, in the order of its assets.           *)
PublishedTransfers(c, toChain, amounts, fee) ==
  {[chain |-> c, sequence |-> extSequence[c] + i, toChain |-> toChain,
    amount |-> amounts[i], fee |-> fee] : i \in DOMAIN amounts}

Publish(c, e, kind, id, strategyChain, strategyId, amounts, fee, recipient) ==
  LET total == SumFunction(amounts)
  IN /\ nextMessage < MaxInstructions
     /\ nextMessage' = nextMessage + 1
     /\ total <= wrapped[c]
     /\ wrapped' = [wrapped EXCEPT ![c] = @ - total]
     /\ transfers' = transfers \cup
          PublishedTransfers(c, strategyChain, amounts, fee)
     /\ extSequence' = [extSequence EXCEPT ![c] = @ + Len(amounts)]
     /\ instructions' = instructions \cup
          {[emitterChain |-> c, emitter |-> e,
            hash |-> nextMessage, kind |-> kind,
            positionId |-> id, strategyChain |-> strategyChain,
            strategyId |-> strategyId, recipientChain |-> recipient,
            sequences |-> [i \in DOMAIN amounts |-> extSequence[c] + i]]}
     /\ UNCHANGED <<registryVars, positionVars, strategyLocation, inVars, bank,
                    outVars>>

PublishOpen(c, e, strategyChain, strategyId, amounts, fee) ==
  /\ Publish(c, e, "open", Len(extPositions[c][e]), strategyChain, strategyId,
             amounts, fee, c)
  /\ extPositions' = [extPositions EXCEPT ![c][e] =
       Append(@, [strategyChain |-> strategyChain, strategyId |-> strategyId])]

PublishExecute(c, e, kind, id, amounts, fee, recipient) ==
  /\ id < Len(extPositions[c][e])
  /\ LET info == extPositions[c][e][id + 1]
     IN Publish(c, e, kind, id, info.strategyChain, info.strategyId, amounts,
                fee, recipient)
  /\ UNCHANGED extPositions

-----------------------------------------------------------------------------
(* Instructions from external chains.                                      *)

Kept(T) == SumFunction([t \in T |-> t.amount - t.fee])
Fees(T) == SumFunction([t \in T |-> t.fee])

(* The balances after `submitter` has the token bridge complete transfers  *)
(* T: each amount less its fee to the manager, the fee to the submitter.   *)
Completed(T, submitter) ==
  Pay(Pay(bank, Bridge, Manager, Kept(T)), Bridge, submitter, Fees(T))

(* Anybody may submit a transfer's VAA to the token bridge, once.          *)
SubmitVaa(t) ==
  /\ t.toChain = TERRA_CHAIN_ID
  /\ t \notin completedTransfers
  /\ bank[Bridge] >= t.amount
  /\ completedTransfers' = completedTransfers \cup {t}
  /\ bank' = Completed({t}, Wallet)
  /\ UNCHANGED <<registryVars, positionVars, strategyLocation,
                 completedInstructions, performed, outVars, extVars>>

(* Mutant: any transfer from the instruction's chain will do.              *)
MatchesAnySequence(t, v, sequence) ==
  /\ t.chain = v.emitterChain
  /\ t.toChain = TERRA_CHAIN_ID

(* process_token_transfer_message: t is the transfer the instruction names *)
MatchesSequence(t, v, sequence) ==
  /\ t.chain = v.emitterChain
  /\ t.sequence = sequence
  /\ t.toChain = TERRA_CHAIN_ID

(* Mutant: reply() reverts on VaaAlreadyExecuted like on any other error.  *)
SubmitAll(T) ==
  /\ T \cap completedTransfers = {}
  /\ bank[Bridge] >= Kept(T) + Fees(T)

(* The SubmitVaa messages and reply(): the bridge completes the transfers  *)
(* of T it has not completed yet, an error otherwise counts as a success.  *)
SubmitOrAlreadyExecuted(T) ==
  bank[Bridge] >= Kept(T \ completedTransfers) + Fees(T \ completedTransfers)

(* Mutants: instructions of any contract on the chain; completed ones again *)
AcceptableFromAnyone(v, vaas) ==
  /\ v.emitterChain \in DOMAIN externalManager
  /\ v \notin completedInstructions
  /\ v.strategyChain = TERRA_CHAIN_ID
  /\ Len(vaas) = Len(v.sequences)
  /\ \A i \in DOMAIN vaas : MatchesSequence(vaas[i], v, v.sequences[i])
AcceptableAgain(v, vaas) ==
  /\ v.emitterChain \in DOMAIN externalManager
  /\ externalManager[v.emitterChain] = v.emitter
  /\ v.strategyChain = TERRA_CHAIN_ID
  /\ Len(vaas) = Len(v.sequences)
  /\ \A i \in DOMAIN vaas : MatchesSequence(vaas[i], v, v.sequences[i])

(* The checks that precede the messages of process_cross_chain_instruction *)
Acceptable(v, vaas) ==
  /\ v.emitterChain \in DOMAIN externalManager
  /\ externalManager[v.emitterChain] = v.emitter
  /\ v \notin completedInstructions
  /\ v.strategyChain = TERRA_CHAIN_ID
  /\ Len(vaas) = Len(v.sequences)
  /\ \A i \in DOMAIN vaas : MatchesSequence(vaas[i], v, v.sequences[i])

ProcessCrossChainInstruction(v, vaas, payout) ==
  LET T        == Range(vaas)
      position == <<v.emitterChain, v.positionId>>
      located  == IF v.kind = "open" THEN Save(strategyLocation, position, v.strategyId)
                  ELSE strategyLocation
  IN /\ Acceptable(v, vaas)
     /\ SubmitOrAlreadyExecuted(T)
     /\ position \in DOMAIN located
     /\ located[position] \in DOMAIN strategyMetadata
     /\ LET s == strategyMetadata[located[position]]
            received == Completed(T \ completedTransfers, Manager)
            forwarded == Pay(received, Manager, s, Kept(T))
        IN /\ forwarded[Manager] >= 0
           /\ Perform(v.kind, Len(vaas), s, forwarded, payout,
                      v.recipientChain)
     /\ strategyLocation' = located
     /\ completedInstructions' = completedInstructions \cup {v}
     /\ completedTransfers' = completedTransfers \cup T
     /\ performed' = Save(performed, v,
                          IF v \in DOMAIN performed THEN performed[v] + 1 ELSE 1)
     /\ UNCHANGED <<registryVars, positionVars, extVars>>

-----------------------------------------------------------------------------
Actions == {"increase", "decrease", "close"}
Ids == 0 .. MaxTerraPositions
Lists(S) == UNION {[1 .. n -> S] : n \in 0 .. MaxAssets}

(* An admin who knows what the ids of positions mean registers a chain's    *)
(* one deployment: another contract would number its positions anew.       *)
AdminStep ==
  \/ \E sender \in Accounts :
       \/ \E a \in Accounts : UpdateAdmin(sender, a)
       \/ \E m \in StrategyManagers : AddStrategy(sender, m)
       \/ \E id \in 0 .. MaxStrategies - 1 : RemoveStrategy(sender, id)
       \/ \E c \in ExternalChains : RegisterExternalChainManager(sender, c, Deployed)
  \/ UpdateStrategy

UserStep ==
  \E sent, listed \in Amounts \cup {0} :
    \/ \E sender \in Accounts, c \in Chains, id \in 0 .. MaxStrategies - 1 :
         CreatePosition(sender, c, id, sent, listed)
    \/ \E sender \in Accounts, id \in Ids, kind \in Actions,
          payout \in Amounts, c \in Chains :
         ExecuteStrategy(sender, id, kind, sent, listed, payout, c)

TransferStep ==
  \/ \E sent, listed \in Amounts \cup {0}, c \in Chains :
       InitiateOutgoingTokenTransfer(sent, listed, c)
  \/ \E amount \in Amounts, c \in ExternalChains :
       OtherOutgoingTransfer(amount, c)

PublishStep ==
  \E c \in ExternalChains, e \in Publishers, fee \in RelayerFees,
    amounts \in Lists(Amounts) :
    \/ \E sc \in Chains \ {c}, id \in 0 .. MaxStrategies - 1 :
         PublishOpen(c, e, sc, id, amounts, fee)
    \/ \E kind \in Actions, id \in 0 .. MaxInstructions, to \in Chains :
         PublishExecute(c, e, kind, id, amounts, fee, to)

ProcessStep ==
  \E v \in instructions, vaas \in Lists(transfers), payout \in Amounts :
    ProcessCrossChainInstruction(v, vaas, payout)

Next ==
  \/ AdminStep \/ UserStep \/ TransferStep \/ PublishStep
  \/ \E t \in transfers : SubmitVaa(t)
  \/ ProcessStep

Spec == Init /\ [][Next]_vars

-----------------------------------------------------------------------------
(* Properties.                                                             *)

Positions == Chains \X Nat
TransferType == [chain: ExternalChains, sequence: Nat, toChain: Chains,
                 amount: Nat, fee: Nat]
InstructionType ==
  [emitterChain: ExternalChains, emitter: Publishers, hash: Nat,
   kind: Actions \cup {"open"}, positionId: Nat, strategyChain: Chains,
   strategyId: Nat, recipientChain: Chains, sequences: Seq(Nat)]
PositionRecords == Seq([strategyChain: Chains, strategyId: Nat])

(* Type invariant of the contract's storage, of the messages and of the    *)
(* external chains; balances are the subject of Solvent.                   *)
TypeOK ==
  /\ admin \in Accounts
  /\ nextStrategyId \in Nat
  /\ DOMAIN strategyMetadata \subseteq Nat
  /\ strategyMetadata \in [DOMAIN strategyMetadata -> StrategyManagers]
  /\ nextPositionId \in Nat
  /\ DOMAIN positionHolder \subseteq Nat
  /\ positionHolder \in [DOMAIN positionHolder -> Accounts]
  /\ holderPairs \subseteq Accounts \X Nat
  /\ DOMAIN strategyLocation \subseteq Positions
  /\ strategyLocation \in [DOMAIN strategyLocation -> Nat]
  /\ DOMAIN externalManager \subseteq ExternalChains
  /\ externalManager \in [DOMAIN externalManager -> Publishers]
  /\ refusing \subseteq Refusals
  /\ instructions \subseteq InstructionType
  /\ completedInstructions \subseteq instructions
  /\ transfers \subseteq TransferType
  /\ completedTransfers \subseteq transfers
  /\ nextTransferSequence \in Nat
  /\ nextMessage \in Nat
  /\ extSequence \in [ExternalChains -> Nat]
  /\ extPositions \in [ExternalChains -> [Publishers -> PositionRecords]]
  /\ outInstructions \in Seq([sequence: Nat, recipientChain: ExternalChains])
  /\ \A t \in outTransfers : t.sequence \in Nat

(* The holder index and the position maps agree: a query of a holder's     *)
(* positions finds each of them exactly once and never fails on one        *)
(* (contract.rs, GetTerraPositionsByHolder loads a location for each pair).*)
HolderIndexConsistent ==
  /\ DOMAIN positionHolder = 0 .. nextPositionId - 1
  /\ holderPairs = {<<positionHolder[i], i>> : i \in DOMAIN positionHolder}
  /\ {p \in DOMAIN strategyLocation : p[1] = TERRA_CHAIN_ID}
       = {<<TERRA_CHAIN_ID, i>> : i \in DOMAIN positionHolder}

(* Every position Terra keeps for another chain is one that the registered *)
(* manager of that chain recorded for Terra, with the same strategy, even  *)
(* when other contracts there publish look-alike instructions with the     *)
(* same position ids (process_cross_chain_instruction's emitter and        *)
(* strategy_chain_id checks).                                              *)
ExternalPositionsAuthentic ==
  \A p \in DOMAIN strategyLocation :
    p[1] # TERRA_CHAIN_ID =>
      LET recorded == extPositions[p[1]][Deployed]
      IN /\ p[2] < Len(recorded)
         /\ recorded[p[2] + 1] = [strategyChain |-> TERRA_CHAIN_ID,
                                  strategyId |-> strategyLocation[p]]

(* The transfers an instruction announced.                                 *)
TransfersOf(v) ==
  {t \in transfers : /\ t.chain = v.emitterChain
                     /\ t.sequence \in Range(v.sequences)}

(* The tokens that have reached the manager for instructions that it has   *)
(* not performed.                                                          *)
Owed == Kept(completedTransfers \
             UNION {TransfersOf(v) : v \in completedInstructions})

(* The manager always holds what it owes to instructions still to come,    *)
(* whoever submitted their transfers, in whatever order, and whatever was  *)
(* paid out meanwhile: no request is served from another one's tokens.     *)
Solvent ==
  /\ bank \in [Holders -> Nat]
  /\ bank[Manager] >= Owed

(* Each disbursement instruction posted for another chain announces the    *)
(* sequence of a transfer of its own to that chain's manager, although the *)
(* sequence is read before the transfer exists and other users' transfers  *)
(* take sequences too (cross_chain.rs, initiate_outgoing_token_transfer).  *)
DisbursementsBacked ==
  /\ \A i \in 1 .. Len(outInstructions) :
       \E t \in outTransfers :
         /\ t.sequence = outInstructions[i].sequence
         /\ t.recipientChain = outInstructions[i].recipientChain
         /\ t.recipient = Deployed
         /\ \A u \in outTransfers : u.sequence = t.sequence => u = t
  /\ \A i, j \in 1 .. Len(outInstructions) :
       outInstructions[i].sequence = outInstructions[j].sequence => i = j

(* The contract keeps the promises of PositionLedger: an opened position   *)
(* is never opened again or moved to another strategy, an instruction is   *)
(* performed once, and pays with transfers of its own that have arrived.   *)
Ledger == INSTANCE PositionLedger WITH
  opened    <- strategyLocation,
  arrived   <- completedTransfers,
  paid      <- [v \in completedInstructions |-> TransfersOf(v)],
  performed <- performed

ImplementsLedger == Ledger!Spec

-----------------------------------------------------------------------------
(* The inductive invariant behind these properties.                        *)

ManagersDeployed ==
  \A c \in DOMAIN externalManager : externalManager[c] = Deployed

(* What an instruction says of its position is what its publisher recorded,*)
(* and a publisher announces each position once.                           *)
InstructionsRecorded ==
  /\ \A v \in instructions :
       LET recorded == extPositions[v.emitterChain][v.emitter]
       IN /\ v.positionId < Len(recorded)
          /\ recorded[v.positionId + 1] = [strategyChain |-> v.strategyChain,
                                           strategyId |-> v.strategyId]
  /\ \A v, w \in instructions :
       /\ v.kind = "open" /\ w.kind = "open"
       /\ v.emitterChain = w.emitterChain /\ v.emitter = w.emitter
       /\ v.positionId = w.positionId
       => v = w

(* Sequences of a chain's token bridge are used once: by one transfer, and *)
(* named by one instruction.                                               *)
SequencesUnique ==
  /\ \A t \in transfers : t.sequence <= extSequence[t.chain]
  /\ \A t, u \in transfers :
       t.chain = u.chain /\ t.sequence = u.sequence => t = u
  /\ \A v \in instructions : \A i \in DOMAIN v.sequences :
       v.sequences[i] <= extSequence[v.emitterChain]
  /\ \A v, w \in instructions :
       v # w /\ v.emitterChain = w.emitterChain
       => Range(v.sequences) \cap Range(w.sequences) = {}

(* An external position is there because its opening was performed.        *)
LocationsOpened ==
  \A p \in DOMAIN strategyLocation :
    p[1] # TERRA_CHAIN_ID =>
      \E v \in completedInstructions :
        /\ v.kind = "open" /\ v.emitter = Deployed
        /\ p = <<v.emitterChain, v.positionId>>

(* What reaches a strategy is recorded as completed in the same step.      *)
PerformedCompleted == DOMAIN performed = completedInstructions

(* The Terra token bridge numbers its transfers.                           *)
OutSequences ==
  /\ \A t \in outTransfers : t.sequence < nextTransferSequence
  /\ \A t, u \in outTransfers : t.sequence = u.sequence => t = u

IInv ==
  /\ TypeOK
  /\ ManagersDeployed
  /\ InstructionsRecorded
  /\ SequencesUnique
  /\ LocationsOpened
  /\ PerformedCompleted
  /\ OutSequences
  /\ HolderIndexConsistent
  /\ ExternalPositionsAuthentic
  /\ DisbursementsBacked

-----------------------------------------------------------------------------
(* Liveness: the VAAs stay available and a failed transaction leaves no    *)
(* trace, so Aperture's controller, or anybody else, can submit an         *)
(* instruction until it succeeds: weak fairness of each open instruction.  *)

ProcessOpen(n) ==
  \E v \in instructions, vaas \in Lists(transfers) :
    /\ v.hash = n /\ v.kind = "open"
    /\ ProcessCrossChainInstruction(v, vaas, 0)

FairSpec ==
  Spec /\ \A n \in 0 .. MaxInstructions - 1 : WF_vars(ProcessOpen(n))

(* The instruction opens a position for a strategy on Terra, comes from    *)
(* the chain's registered manager, and the strategy would accept it.       *)
ValidOpen(v) ==
  /\ v.kind = "open" /\ v.strategyChain = TERRA_CHAIN_ID
  /\ v.emitterChain \in DOMAIN externalManager
  /\ externalManager[v.emitterChain] = v.emitter
  /\ v.strategyId \in DOMAIN strategyMetadata
  /\ Accepts(strategyMetadata[v.strategyId], "open", Len(v.sequences))

(* A position opened on another chain for a strategy that Terra has and    *)
(* that accepts it is eventually opened on Terra, unless the strategy is   *)
(* removed or comes to refuse such positions (its contract's error reverts *)
(* the transaction, whoever submits it, terra_chain.rs:193): early or      *)
(* separate submission of its token transfers cannot block it (reply()).   *)
OpenEventuallyProcessed ==
  \A n \in 0 .. MaxInstructions - 1 :
    (\E v \in instructions : v.hash = n /\ ValidOpen(v)) ~>
      \E v \in instructions :
        v.hash = n /\ (v \in completedInstructions \/ ~ValidOpen(v))

=============================================================================
