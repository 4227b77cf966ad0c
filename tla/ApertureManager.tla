-------------------------- MODULE ApertureManager --------------------------
(***************************************************************************)
(* The Aperture manager contract on an EVM chain (ApertureManager.sol with *)
(* CrossChainLib and CurveRouterLib): the registry of managers, strategies *)
(* and tokens, the positions of this chain's users, the instructions it    *)
(* publishes to other chains and those it receives from them.              *)
(*                                                                         *)
(* An Ethereum transaction is atomic and the entry points are nonReentrant,*)
(* so a call is one action and a reverting one is no step.  A strategy is  *)
(* a contract that keeps tokens for position keys, as HomoraPDNVault does. *)
(***************************************************************************)
EXTENDS Integers, Sequences, FiniteSets, Functions

CONSTANTS
  thisChainId,       \* Wormhole id of this chain
  OtherChains,       \* Wormhole ids of the others
  Publishers,        \* contracts of another chain that publish messages in
                     \* Aperture's format: its manager, earlier deployments
  Users,             \* accounts of this chain
  StrategyManagers,  \* contracts that manage a strategy's positions
  Tokens, weth,      \* ERC-20 tokens; the wrapped ether among them
  WethUnit,          \* the least amount of WETH the token bridge carries
  Assets,            \* tokens and amounts of a request
  Incoming,          \* those that other chains send
  BPS, MAX_FEE_BPS,  \* the fee's denominator and greatest numerator
  FeeChoices         \* fees the owner tries; initialize takes any of them

(* Bounds that make the state space finite.                                *)
CONSTANTS
  Whitelistable,     \* triples <<chain, strategy id, token>> the owner lists
  Routable,          \* pairs of tokens the owner sets Curve routes for
  MaxStrategies, MaxPositions, MaxInstructions, MaxPublished,
  MaxRequests,       \* positions and instructions of others together
  MaxAssets          \* assets per request and transfers per instruction

TokenBridge == "token_bridge"
Chains      == OtherChains \cup {thisChainId}
Spenders    == StrategyManagers \cup {TokenBridge}

ASSUME ChainsAssumption == thisChainId \notin OtherChains
ASSUME SpendersAssumption == TokenBridge \notin StrategyManagers
ASSUME TokensAssumption == weth \in Tokens
ASSUME NumbersAssumption ==
  /\ Assets \subseteq [token : Tokens, amount : Nat \ {0}]
  /\ Incoming \subseteq Assets
  /\ WethUnit \in Nat \ {0}
  /\ BPS \in Nat \ {0} /\ MAX_FEE_BPS \in 0 .. BPS
  /\ FeeChoices \subseteq 0 .. BPS
ASSUME BoundsAssumption ==
  /\ {MaxStrategies, MaxPositions, MaxInstructions, MaxPublished, MaxRequests,
       MaxAssets} \subseteq Nat
  /\ Whitelistable \subseteq Chains \X Nat \X Tokens
  /\ Routable \subseteq Tokens \X Tokens

VARIABLES
  chainIdToApertureManager,       \* registered managers of other chains
  feeBps,                         \* cross-chain fee, of BPS
  nextStrategyId,
  strategyIdToMetadata,           \* id -> strategy manager, where not deleted
  allowedToDisburseAssets,        \* contracts that may call disburseAssets
  isTokenWhitelistedForStrategy,  \* triples <<chain, strategy id, token>>
  routes                          \* pairs <<from, to>> with a Curve route

VARIABLES
  nextPositionId,
  positionIdToInfo,               \* id -> owner, strategy chain, strategy id
  balance,                        \* the manager's tokens
  allowance,                      \* what others may take of them
  held                            \* tokens a strategy keeps for position keys

VARIABLES
  published,                      \* instructions published, in order
  processedInstructions,          \* instructions of other chains processed
  performed,                      \* instruction -> times it was carried out
  completedTransfers              \* transfers the token bridge has completed

VARIABLES
  extSequence,                    \* next sequence of each chain's token bridge
  nextMessage,                    \* number of instructions of other chains
  extPositions,                   \* positions opened so far by each publisher
  transfers, instructions         \* what other chains have published

registryVars == <<chainIdToApertureManager, feeBps, nextStrategyId,
                  strategyIdToMetadata, allowedToDisburseAssets,
                  isTokenWhitelistedForStrategy, routes>>
positionVars == <<nextPositionId, positionIdToInfo>>
tokenVars    == <<balance, allowance, held>>
inVars       == <<processedInstructions, performed, completedTransfers>>
extVars      == <<extSequence, nextMessage, extPositions, transfers, instructions>>
vars == <<registryVars, positionVars, tokenVars, published, inVars, extVars>>

-----------------------------------------------------------------------------
(* Mappings and amounts.                                                   *)

None == "none"
Empty == [x \in {} |-> x]
Set(map, key, value) ==
  [k \in DOMAIN map \cup {key} |-> IF k = key THEN value ELSE map[k]]
Delete(map, key) == [k \in DOMAIN map \ {key} |-> map[k]]

Nothing == [t \in Tokens |-> 0]
Plus(f, g)  == [t \in Tokens |-> f[t] + g[t]]
Minus(f, g) == [t \in Tokens |-> f[t] - g[t]]

Asset(t, a) == [token |-> t, amount |-> a]

AmountIn(a, t) == IF a.token = t THEN a.amount ELSE 0

(* How much of each token a list of assets holds.                          *)
Total(assets) ==
  [t \in Tokens |-> SumFunction([i \in DOMAIN assets |-> AmountIn(assets[i], t)])]

(* What the mapping of holdings has for a position key, zero by default.   *)
HeldFor(s, key) == IF key \in DOMAIN held[s] THEN held[s][key] ELSE Nothing

-----------------------------------------------------------------------------
(* The bound on positions and on instructions of other chains together.    *)
MoreRequests == nextPositionId + nextMessage < MaxRequests

Init ==
  /\ chainIdToApertureManager = Empty
  /\ feeBps \in FeeChoices
  /\ nextStrategyId = 0 /\ strategyIdToMetadata = Empty
  /\ allowedToDisburseAssets = {}
  /\ isTokenWhitelistedForStrategy = {} /\ routes = {}
  /\ nextPositionId = 0 /\ positionIdToInfo = Empty
  /\ balance = Nothing
  /\ allowance = [s \in Spenders |-> Nothing]
  /\ held = [s \in StrategyManagers |-> Empty]
  /\ published = <<>>
  /\ processedInstructions = {} /\ performed = Empty /\ completedTransfers = {}
  /\ extSequence = [c \in OtherChains |-> 0] /\ nextMessage = 0
  /\ extPositions = [c \in OtherChains |-> [e \in Publishers |-> <<>>]]
  /\ transfers = {} /\ instructions = {}

-----------------------------------------------------------------------------
(* The owner's calls.                                                      *)

updateCrossChainFeeContext(newFeeBps) ==
  /\ newFeeBps <= MAX_FEE_BPS
  /\ feeBps' = newFeeBps
  /\ UNCHANGED <<chainIdToApertureManager, nextStrategyId, strategyIdToMetadata,
                 allowedToDisburseAssets, isTokenWhitelistedForStrategy, routes,
                 positionVars, tokenVars, published, inVars, extVars>>

(* Registers a contract as the manager of another chain, or removes it.    *)
updateApertureManager(chain, manager) ==
  /\ chain # thisChainId
  /\ chainIdToApertureManager' =
       IF manager = None THEN Delete(chainIdToApertureManager, chain)
       ELSE Set(chainIdToApertureManager, chain, manager)
  /\ UNCHANGED <<feeBps, nextStrategyId, strategyIdToMetadata,
                 allowedToDisburseAssets, isTokenWhitelistedForStrategy, routes,
                 positionVars, tokenVars, published, inVars, extVars>>

(* A route may be replaced but never removed.                              *)
updateCurveRoute(pair) ==
  /\ routes' = routes \cup {pair}
  /\ UNCHANGED <<chainIdToApertureManager, feeBps, nextStrategyId,
                 strategyIdToMetadata, allowedToDisburseAssets,
                 isTokenWhitelistedForStrategy, positionVars, tokenVars,
                 published, inVars, extVars>>

addStrategy(s) ==
  /\ nextStrategyId < MaxStrategies
  /\ nextStrategyId' = nextStrategyId + 1
  /\ strategyIdToMetadata' = Set(strategyIdToMetadata, nextStrategyId, s)
  /\ allowedToDisburseAssets' = allowedToDisburseAssets \cup {s}
  /\ UNCHANGED <<chainIdToApertureManager, feeBps, isTokenWhitelistedForStrategy,
                 routes, positionVars, tokenVars, published, inVars, extVars>>

(* The manager address stored for a strategy id; {} where it is zero.      *)
StoredManager(map, id) == {map[i] : i \in DOMAIN map \cap {id}}

(* Mutant: the metadata is deleted before the address is read from it.     *)
removeStrategy_metadata_first(id) ==
  /\ strategyIdToMetadata' = Delete(strategyIdToMetadata, id)
  /\ allowedToDisburseAssets' =
       allowedToDisburseAssets \ StoredManager(strategyIdToMetadata', id)
  /\ UNCHANGED <<chainIdToApertureManager, feeBps, nextStrategyId,
                 isTokenWhitelistedForStrategy, routes, positionVars, tokenVars,
                 published, inVars, extVars>>

removeStrategy(id) ==
  /\ allowedToDisburseAssets' =
       allowedToDisburseAssets \ StoredManager(strategyIdToMetadata, id)
  /\ strategyIdToMetadata' = Delete(strategyIdToMetadata, id)
  /\ UNCHANGED <<chainIdToApertureManager, feeBps, nextStrategyId,
                 isTokenWhitelistedForStrategy, routes, positionVars, tokenVars,
                 published, inVars, extVars>>

updateIsTokenWhitelistedForStrategy(triple, isWhitelisted) ==
  /\ isTokenWhitelistedForStrategy' =
       IF isWhitelisted THEN isTokenWhitelistedForStrategy \cup {triple}
       ELSE isTokenWhitelistedForStrategy \ {triple}
  /\ UNCHANGED <<chainIdToApertureManager, feeBps, nextStrategyId,
                 strategyIdToMetadata, allowedToDisburseAssets, routes,
                 positionVars, tokenVars, published, inVars, extVars>>

-----------------------------------------------------------------------------
(* Tokens out of the manager.                                              *)

Fee(amount) == (amount * feeBps) \div BPS

(* The token bridge leaves what its eight decimals cannot carry.           *)
Carried(t, amount) ==
  IF t = weth THEN (amount \div WethUnit) * WethUnit ELSE amount

(* The amounts that leave for the bridge, of assets less their fees.       *)
Bridged(assets) ==
  [i \in DOMAIN assets |->
     Asset(assets[i].token,
           Carried(assets[i].token, assets[i].amount - Fee(assets[i].amount)))]
Fees(assets) ==
  [i \in DOMAIN assets |-> Asset(assets[i].token, Fee(assets[i].amount))]

(* Fee to the fee sink, the rest to the token bridge, from tokens b with   *)
(* allowances al: the bridge keeps one for what it could not carry.        *)
SendCrossChain(b, al, assets) ==
  /\ balance' = Minus(b, Plus(Total(Fees(assets)), Total(Bridged(assets))))
  /\ allowance' =
       [al EXCEPT ![TokenBridge] =
          Minus(Plus(@, Minus(Total(assets), Total(Fees(assets)))),
                Total(Bridged(assets)))]

(* Publishes an instruction to the manager of `chain` with the assets.     *)
publishInstruction(b, kind, chain, positionId, strategyId, assets) ==
  /\ chain \in DOMAIN chainIdToApertureManager
  /\ Len(published) < MaxPublished
  /\ SendCrossChain(b, allowance, assets)
  /\ published' = Append(published,
       [kind |-> kind, chain |-> chain, positionId |-> positionId,
        strategyId |-> strategyId, transfers |-> Bridged(assets)])
  /\ UNCHANGED held

(* The last amount of token t in a list, which is what its approvals leave.*)
LastAmount(assets, t) ==
  LET I == {i \in DOMAIN assets : assets[i].token = t}
  IN assets[CHOOSE i \in I : \A j \in I : j <= i].amount

(* Allowances after `approve` of each asset in turn.                       *)
Approved(s, assets) ==
  [allowance EXCEPT ![s] =
     [t \in Tokens |-> IF \E i \in DOMAIN assets : assets[i].token = t
                       THEN LastAmount(assets, t) ELSE @[t]]]

(* Strategy s takes the assets from tokens b, allowed by `approvals`, and  *)
(* keeps them for the position key.                                        *)
StrategyTakes(b, approvals, s, key, assets) ==
  /\ \A t \in Tokens : Total(assets)[t] <= approvals[s][t]
  /\ allowance' = [approvals EXCEPT ![s] = Minus(@, Total(assets))]
  /\ balance' = Minus(b, Total(assets))
  /\ held' = [held EXCEPT ![s] = Set(@, key, Plus(HeldFor(s, key), Total(assets)))]
  /\ UNCHANGED published

-----------------------------------------------------------------------------
(* Positions.                                                              *)

(* Mutant: the parts of the key change places.                             *)
PositionInfo_swapped(positionId, chain) == <<positionId, chain>>

(* The key a strategy knows a position by.                                 *)
PositionInfo(positionId, chain) == <<chain, positionId>>

createPositionInternal(b, positionId, chain, strategyId, assets) ==
  \/ /\ chain # thisChainId
     /\ publishInstruction(b, "open", chain, positionId, strategyId, assets)
  \/ /\ chain = thisChainId
     /\ strategyId \in DOMAIN strategyIdToMetadata
     /\ LET s == strategyIdToMetadata[strategyId]
        IN StrategyTakes(b, Approved(s, assets), s,
                         PositionInfo(positionId, chain), assets)

(* disburseAssets: tokens that strategy s has just moved to the manager,   *)
(* which had b before, go to an account here or to another chain's manager *)
disburseAssets(b, al, s, assets, recipientChain) ==
  /\ s \in allowedToDisburseAssets
  /\ \/ /\ recipientChain = thisChainId
        /\ balance' = b /\ allowance' = al
        /\ UNCHANGED published
     \/ /\ recipientChain # thisChainId
        /\ recipientChain \in DOMAIN chainIdToApertureManager
        /\ Len(published) < MaxPublished
        /\ SendCrossChain(Plus(b, Total(assets)), al, assets)
        /\ published' = Append(published,
             [kind |-> "disburse", chain |-> recipientChain, positionId |-> 0,
              strategyId |-> 0, transfers |-> Bridged(assets)])

(* The strategy an instruction for positionId is passed to: the one stored *)
(* for that id on this chain, zero by default.                             *)
StrategyOf(positionId) ==
  IF positionId \in DOMAIN positionIdToInfo
  THEN positionIdToInfo[positionId].strategyId ELSE 0

(* Mutant: the assets are approved, whether the action takes them or not.  *)
ExecuteAllowances_approved(s, assets) == Approved(s, assets)

(* The allowances when an existing position is used: unlike at its opening *)
(* the assets are not approved.                                            *)
ExecuteAllowances(s, assets) == allowance

executeStrategyInternal(b, positionId, chain, action, assets, payout, to) ==
  \/ /\ chain # thisChainId
     /\ publishInstruction(b, "execute", chain, positionId, 0, assets)
  \/ /\ chain = thisChainId
     /\ StrategyOf(positionId) \in DOMAIN strategyIdToMetadata
     /\ LET s   == strategyIdToMetadata[StrategyOf(positionId)]
            key == PositionInfo(positionId, chain)
            al  == ExecuteAllowances(s, assets)
        IN \/ /\ action = "increase"
              /\ StrategyTakes(b, al, s, key, assets)
           \/ /\ action \in {"decrease", "close"}
              /\ payout # <<>>
              /\ \A t \in Tokens : Total(payout)[t] <= HeldFor(s, key)[t]
              /\ action = "close" => Total(payout) = HeldFor(s, key)
              /\ held' = [held EXCEPT ![s] =
                            Set(@, key, Minus(HeldFor(s, key), Total(payout)))]
              /\ disburseAssets(b, al, s, payout, to)

NewPositionId == nextPositionId

(* Mutant: the counter is not increased.                                   *)
recordNewPositionInfo_same_id(sender, chain, strategyId) ==
  /\ nextPositionId < MaxPositions /\ MoreRequests
  /\ positionIdToInfo' = Set(positionIdToInfo, nextPositionId,
       [owner |-> sender, strategyChainId |-> chain, strategyId |-> strategyId])
  /\ UNCHANGED nextPositionId

recordNewPositionInfo(sender, chain, strategyId) ==
  /\ nextPositionId < MaxPositions /\ MoreRequests
  /\ nextPositionId' = nextPositionId + 1
  /\ positionIdToInfo' = Set(positionIdToInfo, nextPositionId,
       [owner |-> sender, strategyChainId |-> chain, strategyId |-> strategyId])

(* The assets listed in a call and the ether sent with it, which is wrapped*)
WithEther(assets, ether) ==
  IF ether = 0 THEN assets ELSE Append(assets, Asset(weth, ether))

(* All of them have to be whitelisted for the position's strategy.         *)
Whitelisted(chain, strategyId, assets) ==
  \A i \in DOMAIN assets :
    <<chain, strategyId, assets[i].token>> \in isTokenWhitelistedForStrategy

createPosition(sender, chain, strategyId, listed, ether) ==
  LET assets == WithEther(listed, ether)
  IN /\ Whitelisted(chain, strategyId, assets)
     /\ recordNewPositionInfo(sender, chain, strategyId)
     /\ createPositionInternal(Plus(balance, Total(assets)), NewPositionId,
                               chain, strategyId, assets)
     /\ UNCHANGED <<registryVars, inVars, extVars>>

(* The Curve pools of the route exchange one after the other; without a     *)
(* route the call reverts.                                                 *)
swapToken(fromToken, toToken) == <<fromToken, toToken>> \in routes

(* The sender's tokens are swapped for `out`, which the manager receives.  *)
swapTokenAndCreatePosition(sender, fromToken, chain, strategyId, out) ==
  /\ Whitelisted(chain, strategyId, <<out>>)
  /\ swapToken(fromToken, out.token)
  /\ recordNewPositionInfo(sender, chain, strategyId)
  /\ createPositionInternal(Plus(balance, Total(<<out>>)), NewPositionId,
                            chain, strategyId, <<out>>)
  /\ UNCHANGED <<registryVars, inVars, extVars>>

onlyPositionOwner(sender, positionId) ==
  /\ positionId \in DOMAIN positionIdToInfo
  /\ positionIdToInfo[positionId].owner = sender

executeStrategy(sender, positionId, action, listed, ether, payout, to) ==
  LET assets == WithEther(listed, ether)
      info   == positionIdToInfo[positionId]
  IN /\ onlyPositionOwner(sender, positionId)
     /\ Whitelisted(info.strategyChainId, info.strategyId, assets)
     /\ executeStrategyInternal(Plus(balance, Total(assets)), positionId,
                                info.strategyChainId, action, assets, payout, to)
     /\ UNCHANGED <<registryVars, positionVars, inVars, extVars>>

(* Unlike the others, without the whitelist.                               *)
swapTokenAndExecuteStrategy(sender, fromToken, positionId, action, out, payout, to) ==
  /\ onlyPositionOwner(sender, positionId)
  /\ swapToken(fromToken, out.token)
  /\ executeStrategyInternal(Plus(balance, Total(<<out>>)), positionId,
                             positionIdToInfo[positionId].strategyChainId,
                             action, <<out>>, payout, to)
  /\ UNCHANGED <<registryVars, positionVars, inVars, extVars>>

-----------------------------------------------------------------------------
(* The other chains: their managers publish as this one and Terra's do.    *)

Disbursements == {"single", "multi"}
Actions == {"increase", "decrease", "close"}

(* An instruction of kind `kind` for the manager of chain toChain, and the *)
(* transfers of its assets, which take the next sequences.                 *)
Publish(c, e, kind, id, toChain, strategyId, assets, swapTo, recipient) ==
  /\ nextMessage < MaxInstructions /\ MoreRequests
  /\ nextMessage' = nextMessage + 1
  /\ transfers' = transfers \cup
       {[chain |-> c, sequence |-> extSequence[c] + i, toChain |-> toChain,
         token |-> assets[i].token, amount |-> assets[i].amount] :
          i \in DOMAIN assets}
  /\ extSequence' = [extSequence EXCEPT ![c] = @ + Len(assets)]
  /\ instructions' = instructions \cup
       {[emitterChain |-> c, emitter |-> e, hash |-> nextMessage, kind |-> kind,
         positionId |-> id, toChain |-> toChain, strategyId |-> strategyId,
         swapTo |-> swapTo, recipientChain |-> recipient,
         sequences |-> [i \in DOMAIN assets |-> extSequence[c] + i]]}
  /\ UNCHANGED <<registryVars, positionVars, tokenVars, published, inVars>>

PublishOpen(c, e, toChain, strategyId, assets) ==
  /\ Publish(c, e, "open", Len(extPositions[c][e]), toChain, strategyId, assets,
             None, c)
  /\ extPositions' = [extPositions EXCEPT ![c][e] =
       Append(@, [strategyChain |-> toChain, strategyId |-> strategyId])]

PublishExecute(c, e, action, id, assets, recipient) ==
  /\ id < Len(extPositions[c][e])
  /\ LET info == extPositions[c][e][id + 1]
     IN Publish(c, e, action, id, info.strategyChain, info.strategyId, assets,
                None, recipient)
  /\ UNCHANGED extPositions

(* Terra sends one token and perhaps a wish to swap it, EVM chains several.*)
PublishDisbursement(c, e, kind, toChain, assets, swapTo) ==
  /\ kind = "single" => Len(assets) = 1
  /\ kind = "multi" => swapTo = None
  /\ Publish(c, e, kind, 0, toChain, 0, assets, swapTo, toChain)
  /\ UNCHANGED extPositions

-----------------------------------------------------------------------------
(* Instructions of other chains.                                           *)

TransferredAssets(ts) == [i \in DOMAIN ts |-> Asset(ts[i].token, ts[i].amount)]
TokensOf(T) == [t \in Tokens |-> SumFunction([x \in T |-> AmountIn(x, t)])]

(* Anybody may have the token bridge complete a transfer, once.            *)
CompleteTransfer(x) ==
  /\ x.toChain = thisChainId
  /\ x \notin completedTransfers
  /\ completedTransfers' = completedTransfers \cup {x}
  /\ balance' = Plus(balance, TokensOf({x}))
  /\ UNCHANGED <<registryVars, positionVars, allowance, held, published,
                 processedInstructions, performed, extVars>>

(* Mutant: any transfer from the instruction's chain will do.              *)
MatchesAnySequence(x, v, sequence) ==
  /\ x.chain = v.emitterChain
  /\ x.toChain = thisChainId

(* x is the transfer to this manager that the instruction names.           *)
MatchesSequence(x, v, sequence) ==
  /\ x.chain = v.emitterChain
  /\ x.sequence = sequence
  /\ x.toChain = thisChainId

(* Mutant: completeTransfer is called for completed transfers, and reverts.*)
ToComplete_all(ts) ==
  IF Range(ts) \cap completedTransfers = {} THEN {Range(ts)} ELSE {}

(* What is left to complete of the transfers, unless that reverts: {}.     *)
ToComplete(ts) == {Range(ts) \ completedTransfers}

(* Mutant: processed instructions are accepted.                            *)
decodeInstructionVM_again(v) ==
  /\ v.emitterChain \in DOMAIN chainIdToApertureManager
  /\ chainIdToApertureManager[v.emitterChain] = v.emitter

decodeInstructionVM(v) ==
  /\ v.emitterChain \in DOMAIN chainIdToApertureManager
  /\ chainIdToApertureManager[v.emitterChain] = v.emitter
  /\ v \notin processedInstructions

(* The exchanges' outcome is asked before they are made, along a route too.*)
simulateSwapToken(fromToken, toToken) == <<fromToken, toToken>> \in routes

(* A single token is paid out, after a swap if the instruction asks for it *)
(* and it yields enough; without a route the simulation reverts.           *)
processSingleTokenDisbursement(b, v, assets) ==
  /\ Len(assets) = 1
  /\ v.swapTo # None => simulateSwapToken(assets[1].token, v.swapTo)
  /\ balance' = Minus(b, Total(assets))
  /\ UNCHANGED <<allowance, held, published>>

(* Several tokens are paid out, WETH as ether: it is withdrawn, which sends*)
(* ether to the manager, and the manager has no function to receive it.    *)
processMultiTokenDisbursement(b, v, assets) ==
  /\ \A i \in DOMAIN assets : assets[i].token # weth
  /\ balance' = Minus(b, Total(assets))
  /\ UNCHANGED <<allowance, held, published>>

processApertureInstruction(v, ts, payout) ==
  /\ decodeInstructionVM(v)
  /\ v.toChain = thisChainId
  /\ Len(ts) = Len(v.sequences)
  /\ \A i \in DOMAIN ts : MatchesSequence(ts[i], v, v.sequences[i])
  /\ \E new \in ToComplete(ts) :
       LET b      == Plus(balance, TokensOf(new))
           assets == TransferredAssets(ts)
       IN \/ v.kind = "single" /\ processSingleTokenDisbursement(b, v, assets)
          \/ v.kind = "multi" /\ processMultiTokenDisbursement(b, v, assets)
          \/ /\ v.kind = "open"
             /\ createPositionInternal(b, v.positionId, thisChainId,
                                       v.strategyId, assets)
          \/ /\ v.kind \in Actions
             /\ executeStrategyInternal(b, v.positionId, thisChainId, v.kind,
                                        assets, payout, v.recipientChain)
  /\ processedInstructions' = processedInstructions \cup {v}
  /\ completedTransfers' = completedTransfers \cup Range(ts)
  /\ performed' = Set(performed, v,
                      IF v \in DOMAIN performed THEN performed[v] + 1 ELSE 1)
  /\ UNCHANGED <<registryVars, positionVars, extVars>>

-----------------------------------------------------------------------------
StrategyIds == 0 .. MaxStrategies - 1
Lists(S) == UNION {[1 .. n -> S] : n \in 0 .. MaxAssets}
EtherAmounts == {0} \cup {a.amount : a \in {x \in Assets : x.token = weth}}

OwnerStep ==
  \/ \E f \in FeeChoices : updateCrossChainFeeContext(f)
  \/ \E c \in OtherChains, e \in Publishers \cup {None} : updateApertureManager(c, e)
  \/ \E pair \in Routable : updateCurveRoute(pair)
  \/ \E s \in StrategyManagers : addStrategy(s)
  \/ \E id \in StrategyIds : removeStrategy(id)
  \/ \E triple \in Whitelistable, w \in BOOLEAN :
       updateIsTokenWhitelistedForStrategy(triple, w)

UserStep ==
  \E u \in Users :
    \/ \E c \in Chains, id \in StrategyIds :
         \/ \E l \in Lists(Assets), e \in EtherAmounts : createPosition(u, c, id, l, e)
         \/ \E t \in Tokens, a \in Assets : swapTokenAndCreatePosition(u, t, c, id, a)
    \/ \E id \in DOMAIN positionIdToInfo, k \in Actions, p \in Lists(Assets),
          to \in Chains :
         \/ \E l \in Lists(Assets), e \in EtherAmounts :
              executeStrategy(u, id, k, l, e, p, to)
         \/ \E t \in Tokens, a \in Assets :
              swapTokenAndExecuteStrategy(u, t, id, k, a, p, to)

PublishStep ==
  \E c \in OtherChains, e \in Publishers, l \in Lists(Incoming) :
    \/ \E to \in Chains \ {c}, id \in StrategyIds : PublishOpen(c, e, to, id, l)
    \/ \E k \in Actions, id \in 0 .. MaxInstructions, to \in Chains :
         /\ k = "increase" => to = c
         /\ PublishExecute(c, e, k, id, l, to)
    \/ \E k \in Disbursements, to \in Chains \ {c}, t \in Tokens \cup {None} :
         PublishDisbursement(c, e, k, to, l, t)

Process(v) ==
  \E ts \in Lists(transfers), p \in Lists(Assets) :
    processApertureInstruction(v, ts, p)

Next ==
  \/ OwnerStep \/ UserStep \/ PublishStep
  \/ \E x \in transfers : CompleteTransfer(x)
  \/ \E v \in instructions : Process(v)

Spec == Init /\ [][Next]_vars

-----------------------------------------------------------------------------
(* Properties.                                                             *)

TransferType == [chain : OtherChains, sequence : Nat, toChain : Chains,
                 token : Tokens, amount : Nat]
InstructionType ==
  [emitterChain : OtherChains, emitter : Publishers, hash : Nat,
   kind : Actions \cup Disbursements \cup {"open"}, positionId : Nat,
   toChain : Chains, strategyId : Nat, swapTo : Tokens \cup {None},
   recipientChain : Chains, sequences : Seq(Nat)]
PositionRecords == Seq([strategyChain : Chains, strategyId : Nat])

(* Type invariant of the contract's storage, of the keys its strategies    *)
(* are given and of the messages; amounts are the subject of Solvent.      *)
TypeOK ==
  /\ DOMAIN chainIdToApertureManager \subseteq OtherChains
  /\ chainIdToApertureManager
       \in [DOMAIN chainIdToApertureManager -> Publishers]
  /\ nextStrategyId \in Nat
  /\ DOMAIN strategyIdToMetadata \subseteq Nat
  /\ strategyIdToMetadata \in [DOMAIN strategyIdToMetadata -> StrategyManagers]
  /\ allowedToDisburseAssets \subseteq StrategyManagers
  /\ isTokenWhitelistedForStrategy \subseteq Whitelistable
  /\ nextPositionId \in Nat
  /\ DOMAIN positionIdToInfo \subseteq Nat
  /\ positionIdToInfo \in [DOMAIN positionIdToInfo ->
       [owner : Users, strategyChainId : Chains, strategyId : Nat]]
  /\ DOMAIN held = StrategyManagers
  /\ \A s \in StrategyManagers : DOMAIN held[s] \subseteq {thisChainId} \X Nat
  /\ transfers \subseteq TransferType
  /\ completedTransfers \subseteq transfers
  /\ instructions \subseteq InstructionType
  /\ processedInstructions \subseteq instructions
  /\ nextMessage \in Nat
  /\ extSequence \in [OtherChains -> Nat]
  /\ extPositions \in [OtherChains -> [Publishers -> PositionRecords]]

TransfersOf(v) ==
  {x \in transfers : /\ x.chain = v.emitterChain
                     /\ x.sequence \in Range(v.sequences)}

(* The tokens that have reached the manager for instructions that it has   *)
(* not processed.                                                          *)
Owed == TokensOf(completedTransfers \
                 UNION {TransfersOf(v) : v \in processedInstructions})

(* The manager always holds what it owes to instructions still to come,    *)
(* whoever completed their transfers and in whatever order, and besides it *)
(* the dust of its own transfers that the token bridge still may take; and *)
(* no strategy owes a position more than it was given.                     *)
Solvent ==
  /\ balance \in [Tokens -> Nat]
  /\ \A t \in Tokens : balance[t] >= Owed[t] + allowance[TokenBridge][t]
  /\ \A s \in StrategyManagers : \A key \in DOMAIN held[s] :
       held[s][key] \in [Tokens -> Nat]

(* Between transactions no strategy may take tokens from the manager, which*)
(* holds other users' arrived tokens: approvals are per token and overwrite*)
(* each other, yet what is approved is taken in the same transaction, or   *)
(* nothing is (createPositionInternal, executeStrategyInternal).           *)
NoStandingAllowance == \A s \in StrategyManagers : allowance[s] = Nothing

(* Only contracts that manage a strategy now may disburse through the      *)
(* manager: removeStrategy withdraws the right with the strategy, and no   *)
(* other id's registration gives it back.                                  *)
OnlyCurrentStrategiesDisburse ==
  allowedToDisburseAssets \subseteq Range(strategyIdToMetadata)

(* What other chains hear of a position is what this chain recorded: each  *)
(* position for another chain is announced there once, with its strategy,  *)
(* and its later instructions follow its opening to the same chain.  The   *)
(* managers of other chains rely on it, as they keep no owner for it.      *)
PublishedAsRecorded ==
  /\ \A i \in DOMAIN published : published[i].kind = "open" =>
       /\ published[i].positionId \in DOMAIN positionIdToInfo
       /\ LET info == positionIdToInfo[published[i].positionId]
          IN /\ info.strategyChainId = published[i].chain
             /\ info.strategyId = published[i].strategyId
  /\ \A i, j \in DOMAIN published :
       /\ published[i].kind = "open" /\ published[j].kind = "open"
       /\ published[i].positionId = published[j].positionId
       => i = j
  /\ \A i \in DOMAIN published : published[i].kind = "execute" =>
       \E j \in 1 .. i - 1 : /\ published[j].kind = "open"
                             /\ published[j].positionId = published[i].positionId
                             /\ published[j].chain = published[i].chain

(* The contract keeps the promises of InstructionLedger: an instruction is *)
(* processed once, however often and with whatever transfers it is         *)
(* submitted, and paid for by its own transfers, which have arrived.       *)
Ledger == INSTANCE InstructionLedger WITH
  arrived   <- completedTransfers,
  paid      <- [v \in processedInstructions |-> TransfersOf(v)],
  performed <- performed

ImplementsInstructionLedger == Ledger!Spec

(* A strategy tells every two positions apart by the key it is given, the  *)
(* ordered pair of chain and position id: a position opened from another   *)
(* chain never gets the key of one of this chain's own.                    *)
PositionKeysUnique ==
  \A v \in processedInstructions : v.kind = "open" =>
    \A id \in DOMAIN positionIdToInfo :
      positionIdToInfo[id].strategyChainId = thisChainId =>
        PositionInfo(v.positionId, v.toChain) # PositionInfo(id, thisChainId)

-----------------------------------------------------------------------------
(* Liveness: a signed message stays valid and a reverted transaction leaves*)
(* no trace, so Aperture's relayer, the recipient, or anybody else can try *)
(* an instruction until it succeeds: weak fairness of each one.            *)

ProcessDisbursement(n) ==
  \E v \in instructions :
    /\ v.hash = n /\ v.kind \in Disbursements
    /\ Process(v)

FairSpec ==
  Spec /\ \A n \in 0 .. MaxInstructions - 1 : WF_vars(ProcessDisbursement(n))

FromRegistered(v) ==
  /\ v.toChain = thisChainId
  /\ v.emitterChain \in DOMAIN chainIdToApertureManager
  /\ chainIdToApertureManager[v.emitterChain] = v.emitter

Payable(v) ==
  \/ /\ v.kind = "single"
     /\ v.swapTo # None =>
          \A x \in TransfersOf(v) : <<x.token, v.swapTo>> \in routes
  \/ /\ v.kind = "multi"
     /\ \A x \in TransfersOf(v) : x.token # weth

(* A disbursement for a recipient on this chain is eventually paid, unless *)
(* its emitter is removed from the registry or it needs what this manager  *)
(* has not, a route or ether: early completion of its transfers by anybody *)
(* cannot block it (validateAndCompleteIncomingTokenTransfer).             *)
DisbursementPaid ==
  \A n \in 0 .. MaxInstructions - 1 :
    (\E v \in instructions : v.hash = n /\ FromRegistered(v) /\ Payable(v)) ~>
      \E v \in instructions :
        v.hash = n /\ (v \in processedInstructions \/ ~FromRegistered(v))

(* The same of every disbursement of several tokens, WETH among them.      *)
MultiDisbursementPaid ==
  \A n \in 0 .. MaxInstructions - 1 :
    (\E v \in instructions : v.hash = n /\ FromRegistered(v) /\ v.kind = "multi") ~>
      \E v \in instructions :
        v.hash = n /\ (v \in processedInstructions \/ ~FromRegistered(v))

=============================================================================
